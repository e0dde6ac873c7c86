---------------------------- MODULE MCOverlayLive ---------------------------
(***************************************************************************)
(* What must eventually happen in the AHASD overlay: the scheduler         *)
(* completes every request, EDC comes back from its suppression, and the   *)
(* tasks of a PIM channel finish.  Each behaviour exercises one of the     *)
(* three, which share no state in the model.                               *)
(***************************************************************************)
EXTENDS MCSpecDecode

VARIABLES part,
          edc, round, nvct,                                   \* DraftControl
          ch, hold, mode, lastMode, task, flight, absorbing   \* PIMChannel
draftVars == <<edc, round, nvct>>
channelVars == <<ch, hold, mode, lastMode, task, flight, absorbing>>
liveVars == <<part, vars, draftVars, channelVars>>

\* Two requests that share the EDC, with pre-verification.
Draft == INSTANCE DraftControl WITH
    Requests <- {1, 2}, MaxDraft <- 2, EnableTVC <- TRUE,
    LehtSize <- 2, LlrBits <- 2, EntropyBuckets <- {5}

\* Two issuers that switch the ranks back and forth.
Issuers == {1, 2}
Kinds == [write : BOOLEAN, tagged : BOOLEAN]
Channel == INSTANCE PIMChannel WITH
    Issuers <- Issuers, Kinds <- Kinds, deferred <- absorbing,
    PerTask <- 1, MaxFlight <- 2, Entries <- 2, CmdSched <- TRUE, DramCap <- 1, RespCap <- 1,
    SwitchCycles <- 2, AauFusion <- TRUE, AauCycles <- 1, SsrcEnable <- TRUE, SsrcCycles <- 1

OverlayInit ==
    /\ part \in {"scheduler", "draft", "channel"}
    /\ Init /\ Draft!ControlInit /\ Channel!PIMInit
OverlayNext ==
    /\ UNCHANGED part
    /\ \/ part = "scheduler" /\ Next /\ UNCHANGED <<draftVars, channelVars>>
       \/ part = "draft" /\ Draft!ControlNext /\ UNCHANGED <<vars, channelVars>>
       \/ part = "channel" /\ Channel!PIMNext /\ UNCHANGED <<vars, draftVars>>

\* As FairSpec, FairControlSpec and FairPIMSpec.
FairOverlaySpec ==
    /\ OverlayInit /\ [][OverlayNext]_liveVars
    /\ WF_vars(part = "scheduler" /\ Arrive) /\ WF_vars(part = "scheduler" /\ Cycle)
    /\ \A id \in ModelIds :
         WF_vars(part = "scheduler" /\ \E m \in models : m.id = id /\ FinishModel(m))
    /\ WF_draftVars(part = "draft" /\ Draft!ControlNext)
    /\ WF_channelVars(part = "channel" /\ Channel!IcntCycle)
    /\ WF_channelVars(part = "channel" /\ Channel!Tick)
    /\ WF_channelVars(part = "channel" /\ Channel!Deliver)
    /\ WF_channelVars(part = "channel" /\ Channel!DramCycle(TRUE))
    /\ WF_channelVars(part = "channel" /\ Channel!DramCycle(FALSE))
    /\ \A r \in Issuers :
         /\ WF_channelVars(part = "channel" /\ \E kind \in Kinds : Channel!Send(r, kind))
         /\ WF_channelVars(part = "channel" /\ Channel!FinishTask(r))

\* Every request of the trace completes, whatever is drafted, accepted and
\* stalled (SpecDecodeScheduler::cycle).
OverlayCompletes == part = "scheduler" => AllComplete
\* EDC recovers from its suppression, whichever of the requests it serves.
OverlayRecovers == part = "draft" => Draft!Recovers
\* The tasks of the channel finish.
OverlayTasksFinish == part = "channel" => Channel!TasksFinish
=============================================================================
