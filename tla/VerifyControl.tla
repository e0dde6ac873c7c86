--------------------------- MODULE VerifyControl ----------------------------
(***************************************************************************)
(* TVC in its environment: SpecDecodeScheduler decides at the issue of a   *)
(* verification, tasks of several requests finish and leave samples, and   *)
(* the main loop of Simulator feeds the NPU progress every core cycle.     *)
(*                                                                         *)
(* One core cycle is three steps: handle_model (the scheduler's cycle,     *)
(* which issues at most one task), the tiles that finish tasks, and the    *)
(* progress beacon at the end of the loop body.                            *)
(***************************************************************************)
EXTENDS TVC

CONSTANTS Clients,     \* the requests in flight
          MaxRound,     \* _max_draft_length
          StartLen, TargetLen,   \* context length at admission and at completion
          MaxCycle      \* bound: core cycles

ASSUME VerifyControlAssumption ==
    {MaxRound, StartLen, TargetLen, MaxCycle} \subseteq Nat \ {0}

VARIABLES
    tvc,      \* the one TVC
    step,     \* the part of the core cycle that runs: "sched" or "finish"
    cycle,    \* SpecDecodeScheduler::_cycle
    coreCycles,  \* Simulator::_core_cycles
    req,      \* request -> stage of its round, planned length k, committed
              \* length, cycle its running task was issued, tokens of a PRE_VERIFY
    decision  \* the last call of decide_pre_verify: what TVC saw and answered,
              \* and for how long the longest running verification had run

vcVars == <<tvc, step, cycle, coreCycles, req, decision>>

Idle == [stage |-> "idle", k |-> 0, len |-> StartLen, issued |-> 0, pv |-> 0, asked |-> FALSE]
NoDecision == [tvc |-> TvcFresh, kv |-> 0, k |-> 0, pv |-> 0, progress |-> 0]

VcInit ==
    /\ tvc = TvcFresh
    /\ step = "sched" /\ cycle = 0 /\ coreCycles = 0
    /\ req = [r \in Clients |-> Idle]
    /\ decision = NoDecision

\* How long the longest running VERIFY has been on the NPU at time now.
Progress(now) ==
    LET ages == {now - req[r].issued : r \in {q \in Clients : req[q].stage = "verify"}}
    IN  IF ages = {} THEN 0 ELSE CHOOSE a \in ages : \A b \in ages : b <= a

\* The last DRAFT of a round of k tokens (its sample is the one TVC gets).
IssueDraft(r, now) ==
    /\ req[r].stage = "idle" /\ req[r].len < TargetLen
    /\ \E k \in 1 .. MaxRound :
         req' = [req EXCEPT ![r] = [@ EXCEPT !.stage = "draft", !.k = k, !.issued = now,
                                             !.asked = FALSE]]
    /\ UNCHANGED <<tvc, decision>>

\* try_issue_one_task in AWAIT_VERIFY: start_npu_task, the decision, the task.
IssueVerify(r, now) ==
    /\ req[r].stage = "await"
    /\ \E t \in {IF req[r].asked THEN tvc ELSE StartNpuTask(tvc, now)} :
       \E pv \in {IF req[r].asked THEN 0 ELSE DecidePreVerify(t, req[r].len, req[r].k)} :
         /\ tvc' = t
         /\ req' = [req EXCEPT ![r] =
                IF pv > 0 /\ pv < req[r].k
                THEN [@ EXCEPT !.stage = "pre", !.pv = pv, !.issued = now, !.asked = TRUE]
                ELSE [@ EXCEPT !.stage = "verify", !.issued = now]]
         /\ decision' = IF req[r].asked THEN decision
                        ELSE [tvc |-> t, kv |-> req[r].len, k |-> req[r].k, pv |-> pv,
                              progress |-> Progress(now)]

\* The scheduler's cycle: at most one task of one request is issued.
Sched ==
    /\ step = "sched" /\ cycle < MaxCycle
    /\ cycle' = cycle + 1 /\ step' = "finish"
    /\ \/ \E r \in Clients : IssueDraft(r, cycle + 1) \/ IssueVerify(r, cycle + 1)
       \/ UNCHANGED <<tvc, req, decision>>
    /\ UNCHANGED coreCycles

Elapsed(r) == IF cycle > req[r].issued THEN cycle - req[r].issued ELSE 1

FinishDraft(r) ==
    /\ req[r].stage = "draft"
    /\ tvc' = RecordPimDrafting(tvc, Elapsed(r), 1)
    /\ req' = [req EXCEPT ![r].stage = "await"]

\* A PRE_VERIFY leaves a sample in both the PVCT and the NVCT.
FinishPreVerify(r) ==
    /\ req[r].stage = "pre"
    /\ tvc' = RecordNpuVerification(
                RecordPimPreVerification(tvc, Elapsed(r), req[r].pv), Elapsed(r), req[r].len)
    /\ req' = [req EXCEPT ![r].stage = "await"]

\* The sample of a VERIFY is taken at the length the round committed.
FinishVerify(r) ==
    /\ req[r].stage = "verify"
    /\ \E accepted \in 0 .. req[r].k :
         LET len == Clamp(0, TargetLen, req[r].len + accepted)
         IN  /\ tvc' = RecordNpuVerification(tvc, Elapsed(r), len)
             /\ req' = [req EXCEPT ![r] = [Idle EXCEPT !.len = len]]

Finish ==
    /\ step = "finish"
    /\ \E r \in Clients : FinishDraft(r) \/ FinishPreVerify(r) \/ FinishVerify(r)
    /\ UNCHANGED <<step, cycle, coreCycles, decision>>

\* Mutant: the beacon runs before the cycle is counted.
BeaconEarly ==
    /\ step = "finish" /\ step' = "sched"
    /\ coreCycles' = coreCycles + 1
    /\ tvc' = UpdateNpuProgress(tvc, coreCycles)
    /\ UNCHANGED <<cycle, req, decision>>

\* The end of the core part: _core_cycles++, then the beacon.
Beacon ==
    /\ step = "finish" /\ step' = "sched"
    /\ coreCycles' = coreCycles + 1
    /\ tvc' = UpdateNpuProgress(tvc, coreCycles + 1)
    /\ UNCHANGED <<cycle, req, decision>>

VcNext == Sched \/ Finish \/ Beacon

VcSpec == VcInit /\ [][VcNext]_vcVars

-----------------------------------------------------------------------------
(* Properties.                                                             *)

Tables == UNION {[1 .. n -> [cycles : 1 .. MaxCycle, length : 1 .. TargetLen + MaxRound]]
                 : n \in 0 .. TableSize}

\* update_npu_progress subtracts two counters of different objects, the
\* scheduler's cycle and the simulator's core cycle: it never wraps, and the
\* NCR never claims more progress than there were cycles.
NcrNoWrap == tvc.ncr \in 0 .. cycle

\* A pre-verification of several tokens and one more draft end, as TVC
\* predicts them, before the NPU does.
FitsLeft(d) ==
    LET r == PreVerifyRatio(d.tvc)
        left == PredictedNpuCycles(d.tvc, d.kv) - d.tvc.ncr - OneDraftCycles(d.tvc)
    IN  d.pv * r[1] <= left * r[2]
LongPreVerifyFits == decision.pv > 1 => FitsLeft(decision)
=============================================================================
