----------------------------- MODULE PIMChannel -----------------------------
(***************************************************************************)
(* One PIM channel between the interconnect and DRAM: the memory half of   *)
(* Simulator::cycle (ONNXim/src/Simulator.cc) with PIMBackend              *)
(* (ONNXim/src/PIMBackend.cc).                                             *)
(*                                                                         *)
(* An access waits in the interconnect, then in the command window, and    *)
(* from there goes to the AAU bypass queue, to the SSRC bypass queue, to   *)
(* the hold queue (while the ranks switch their mode) or to DRAM.  Every   *)
(* queue but the last answers into the interconnect.                       *)
(*                                                                         *)
(* The environment is what the channel sees of the scheduler and of the    *)
(* cores: every request alternates a DRAFT (which stands for all drafts of *)
(* a round) and a VERIFY.  A task reads, computes and writes; it finishes  *)
(* when its reads are answered and its writes are SENT (Core.cc marks a    *)
(* tile finished when its last store leaves the store queue), so writes of *)
(* a finished task may still be on their way.                              *)
(*                                                                         *)
(* Deadlines are kept as the number of core cycles that are left.          *)
(***************************************************************************)
EXTENDS Integers, Sequences, FiniteSets, FiniteSetsExt, SequencesExt

CONSTANTS
    Issuers,         \* the requests whose tasks issue the accesses
    Kinds,           \* bound: the [write, tagged] pairs the tasks send
    PerTask,         \* bound: accesses of one task
    MaxFlight,       \* bound: accesses of a request in flight
    Entries,         \* pim_cmd_issue_queue_entries
    CmdSched,        \* enable_pim_cmd_sched
    DramCap,         \* entries of DRAM's read and of its write queue
    RespCap,         \* entries of the interconnect's response buffer
    SwitchCycles,    \* _gtsu_switch_npu_cycles
    AauFusion,       \* pim_enable_aau_fusion
    AauCycles,       \* _aau_bypass_npu_cycles
    SsrcEnable,      \* ssrc_enable
    SsrcCycles       \* _ssrc_bypass_npu_cycles

ASSUME PIMChannelAssumption ==
    /\ Kinds \subseteq [write : BOOLEAN, tagged : BOOLEAN]
    /\ {PerTask, MaxFlight, DramCap, RespCap, SwitchCycles, SsrcCycles} \subseteq Nat \ {0}
    /\ {Entries, AauCycles} \subseteq Nat
    /\ {CmdSched, AauFusion, SsrcEnable} \subseteq BOOLEAN

DLM == 0
TLM == 1

VARIABLES
    ch,         \* the queues of the channel
    hold,       \* cycles left of _per_channel_hold_until_npu
    mode,       \* _rank_mode
    lastMode,   \* request -> _last_rank_mode
    task,       \* request -> its stage ("start", "DRAFT", "drafted",
                \* "VERIFY") and the number of accesses its task sent
    deferred,   \* the requests SSRC holds a deferred round of
    flight      \* the accesses the cores wait for

backendVars == <<hold, mode>>
taskVars == <<lastMode, task, deferred>>
pimVars == <<ch, hold, mode, lastMode, task, deferred, flight>>

EmptyChannel ==
    [inq |-> <<>>,       \* the interconnect's buffer towards the channel
     ooo |-> <<>>,       \* _pim_cmd_ooo_queues
     held |-> <<>>,      \* _pim_hold_queues
     aau |-> <<>>,       \* _pim_bypass_queues
     ssrc |-> <<>>,      \* _pim_ssrc_bypass_queues
     dram |-> {},        \* accesses DRAM works on
     done |-> <<>>,      \* DRAM's responses
     resp |-> <<>>]      \* the interconnect's buffer from the channel

PIMInit ==
    /\ ch = EmptyChannel
    /\ hold = 0 /\ mode = DLM
    /\ lastMode = [r \in Issuers |-> DLM]
    /\ task = [r \in Issuers |-> [stage |-> "start", sent |-> 0]]
    /\ deferred = {} /\ flight = {}

-----------------------------------------------------------------------------
(* One interconnect cycle of the channel, as steps on the queues.          *)

\* The DRAM back ends; Ramulator tells reads from writes.
Full(c, a) == Cardinality({b \in c.dram : b.write = a.write}) >= DramCap

RespFull(c) == Len(c.resp) >= RespCap

IsTlmRead(a) == ~a.write /\ a.tlm

Parked(a, n) == [left |-> n, acc |-> a]

\* Mutants: the released access stays in the hold queue; it waits for the end
\* of the switch that is in progress instead of its own.
HoldDrainKeeps(c) ==
    IF c.held # <<>> /\ Head(c.held).left = 0 /\ ~Full(c, Head(c.held).acc)
    THEN [c EXCEPT !.dram = @ \cup {Head(c.held).acc}]
    ELSE c

HoldDrainExtended(c) ==
    IF c.held # <<>> /\ hold = 0 /\ ~Full(c, Head(c.held).acc)
    THEN [c EXCEPT !.dram = @ \cup {Head(c.held).acc}, !.held = Tail(@)]
    ELSE c

\* Release the head of the hold queue when its deadline has passed.
HoldDrain(c) ==
    IF c.held # <<>> /\ Head(c.held).left = 0 /\ ~Full(c, Head(c.held).acc)
    THEN [c EXCEPT !.dram = @ \cup {Head(c.held).acc}, !.held = Tail(@)]
    ELSE c

\* Fill the command window from the interconnect.
Fill(c) ==
    LET room == Entries - Len(c.ooo)
        n == IF Len(c.inq) < room THEN Len(c.inq) ELSE room
    IN  [c EXCEPT !.ooo = @ \o SubSeq(c.inq, 1, n),
                  !.inq = SubSeq(@, n + 1, Len(@))]

\* select_pim_command: reads of the target model before everything else.
SelectPimCommand(c) ==
    LET first(P(_)) == SelectInSeq(c.ooo, P)
        ready == first(LAMBDA a : IsTlmRead(a) /\ ~Full(c, a))
        any   == first(LAMBDA a : ~Full(c, a))
        read  == first(IsTlmRead)
    IN  CASE ~CmdSched -> 1
          [] ready > 0 -> ready
          [] any > 0   -> any
          [] read > 0  -> read
          [] OTHER     -> 1

\* try_ssrc_bypass and try_aau_bypass
TrySsrcBypass(a) ==
    SsrcEnable /\ a.write /\ a.tagged /\ a.req \in deferred
TryAauBypass(a) == AauFusion /\ a.tagged /\ AauCycles > 0

\* Mutant: the hold queue is a stack.
RouteStack(c, a) ==
    IF TrySsrcBypass(a) THEN [c EXCEPT !.ssrc = Append(@, Parked(a, SsrcCycles))]
    ELSE IF TryAauBypass(a) THEN [c EXCEPT !.aau = Append(@, Parked(a, AauCycles))]
    ELSE IF hold > 0 THEN [c EXCEPT !.held = <<Parked(a, hold)>> \o @]
    ELSE [c EXCEPT !.dram = @ \cup {a}]

\* Where an access goes that leaves the command window.
Route(c, a) ==
    IF TrySsrcBypass(a) THEN [c EXCEPT !.ssrc = Append(@, Parked(a, SsrcCycles))]
    ELSE IF TryAauBypass(a) THEN [c EXCEPT !.aau = Append(@, Parked(a, AauCycles))]
    ELSE IF hold > 0 THEN [c EXCEPT !.held = Append(@, Parked(a, hold))]
    ELSE [c EXCEPT !.dram = @ \cup {a}]

\* Issue one access, unless DRAM has no room for it.
Issue(c) ==
    IF c.ooo # <<>>
    THEN LET i == SelectPimCommand(c)
         IN  IF Full(c, c.ooo[i]) THEN c
             ELSE Route([c EXCEPT !.ooo = RemoveAt(@, i)], c.ooo[i])
    ELSE IF c.inq = <<>> \/ Full(c, Head(c.inq)) THEN c
         ELSE Route([c EXCEPT !.inq = Tail(@)], Head(c.inq))

\* Drain a bypass queue, and DRAM's responses, into the interconnect.
BypassDrain(c, q) ==
    IF c[q] # <<>> /\ Head(c[q]).left = 0 /\ ~RespFull(c)
    THEN [c EXCEPT !.resp = Append(@, Head(c[q]).acc), ![q] = Tail(@)]
    ELSE c
DramPop(c) ==
    IF c.done # <<>> /\ ~RespFull(c)
    THEN [c EXCEPT !.resp = Append(@, Head(c.done)), !.done = Tail(@)]
    ELSE c

\* The cycle takes the steps in this order (the sets name the intermediate
\* states of the channel).
IcntCycle ==
    /\ \E released \in {HoldDrain(ch)} : \E filled \in {Fill(released)} :
       \E issued \in {Issue(filled)} :
       \E fused \in {BypassDrain(issued, "aau")} :
       \E absorbed \in {BypassDrain(fused, "ssrc")} :
         ch' = DramPop(absorbed)
    /\ UNCHANGED <<backendVars, taskVars, flight>>

\* A core cycle passes.
TickDown(n) == IF n > 0 THEN n - 1 ELSE 0
Tick ==
    LET age(q) == [i \in DOMAIN q |-> Parked(q[i].acc, TickDown(q[i].left))]
    IN  /\ hold' = TickDown(hold)
        /\ ch' = [ch EXCEPT !.held = age(@), !.aau = age(@), !.ssrc = age(@)]
        /\ UNCHANGED <<mode, taskVars, flight>>

\* DRAM completes a read or a write, in an order of its own.
DramCycle(write) ==
    /\ \E a \in ch.dram :
         /\ a.write = write
         /\ ch' = [ch EXCEPT !.dram = @ \ {a}, !.done = Append(@, a)]
    /\ UNCHANGED <<backendVars, taskVars, flight>>

-----------------------------------------------------------------------------
(* The environment.                                                        *)

\* request_rank_switch and switch_all_pim_to.
RankSwitch(r, desired) ==
    /\ lastMode' = [lastMode EXCEPT ![r] = desired]
    /\ IF lastMode[r] # desired /\ mode # desired
       THEN /\ mode' = desired
            /\ hold' = IF hold < SwitchCycles THEN SwitchCycles ELSE hold
       ELSE UNCHANGED <<mode, hold>>

\* The scheduler starts a round (SSRC may defer it) or its VERIFY.
StartDraft(r) ==
    /\ task[r].stage = "start"
    /\ task' = [task EXCEPT ![r] = [stage |-> "DRAFT", sent |-> 0]]
    /\ RankSwitch(r, DLM)
    /\ \/ deferred' = deferred
       \/ SsrcEnable /\ deferred' = deferred \cup {r}
    /\ UNCHANGED <<ch, flight>>
StartVerify(r) ==
    /\ task[r].stage = "drafted"
    /\ task' = [task EXCEPT ![r] = [stage |-> "VERIFY", sent |-> 0]]
    /\ RankSwitch(r, TLM)
    /\ UNCHANGED <<ch, deferred, flight>>

\* A core sends an access of the task that runs for r.  A task starts with a
\* read: nothing is computed or stored before an operand is loaded.
Send(r, kind) ==
    /\ task[r].stage \in {"DRAFT", "VERIFY"} /\ task[r].sent < PerTask
    /\ task[r].sent = 0 => ~kind.write
    /\ Cardinality({b \in flight : b.req = r}) < MaxFlight
    /\ LET as(id) == [id |-> id, req |-> r, write |-> kind.write,
                      tagged |-> kind.tagged, tlm |-> task[r].stage = "VERIFY"]
           a == as(Min({id \in 1 .. MaxFlight : as(id) \notin flight}))
       IN  /\ flight' = flight \cup {a}
           /\ ch' = [ch EXCEPT !.inq = Append(@, a)]
    /\ task' = [task EXCEPT ![r].sent = @ + 1]
    /\ UNCHANGED <<backendVars, lastMode, deferred>>

\* push_memory_response
Deliver ==
    /\ ch.resp # <<>>
    /\ flight' = flight \ {Head(ch.resp)}
    /\ ch' = [ch EXCEPT !.resp = Tail(@)]
    /\ UNCHANGED <<backendVars, taskVars>>

\* The task of r has issued all of its instructions: finish_model.
FinishTask(r) ==
    /\ task[r].stage \in {"DRAFT", "VERIFY"} /\ task[r].sent > 0
    /\ \A a \in flight : a.req = r => a.write
    /\ task' = [task EXCEPT ![r] =
                  [stage |-> IF @.stage = "DRAFT" THEN "drafted" ELSE "start",
                   sent |-> 0]]
    /\ deferred' = IF task[r].stage = "VERIFY" THEN deferred \ {r} ELSE deferred
    /\ UNCHANGED <<ch, backendVars, lastMode, flight>>

Accesses == [id : 1 .. MaxFlight, req : Issuers, write : BOOLEAN,
             tagged : BOOLEAN, tlm : BOOLEAN]

PIMNext ==
    \/ IcntCycle \/ Tick \/ Deliver
    \/ \E write \in BOOLEAN : DramCycle(write)
    \/ \E r \in Issuers :
         \/ StartDraft(r) \/ StartVerify(r) \/ FinishTask(r)
         \/ \E kind \in Kinds : Send(r, kind)

PIMSpec == PIMInit /\ [][PIMNext]_pimVars

\* The clocks run, DRAM serves its reads and its writes, and a core that runs a task
\* issues its instructions.
FairPIMSpec ==
    /\ PIMSpec
    /\ WF_pimVars(IcntCycle) /\ WF_pimVars(Tick) /\ WF_pimVars(Deliver)
    /\ WF_pimVars(DramCycle(TRUE)) /\ WF_pimVars(DramCycle(FALSE))
    /\ \A r \in Issuers :
         /\ WF_pimVars(\E kind \in Kinds : Send(r, kind))
         /\ WF_pimVars(FinishTask(r))

-----------------------------------------------------------------------------
(* Properties.                                                             *)

ParkedIn(q) == {q[i].acc : i \in DOMAIN q}
Queued ==
    UNION {ToSet(ch.inq), ToSet(ch.ooo), ParkedIn(ch.held), ParkedIn(ch.aau),
           ParkedIn(ch.ssrc), ch.dram, ToSet(ch.done), ToSet(ch.resp)}
QueuedCount ==
    Len(ch.inq) + Len(ch.ooo) + Len(ch.held) + Len(ch.aau) + Len(ch.ssrc)
      + Cardinality(ch.dram) + Len(ch.done) + Len(ch.resp)

\* No access is lost and none is duplicated, whichever way it takes: what the
\* cores wait for is what the queues hold, each access once.
EachInOneQueue == Queued = flight /\ QueuedCount = Cardinality(flight)

\* The hold queue releases from its head: that is enough because an access is
\* never parked behind one with a later deadline, and the hold of the channel
\* is never shorter than the wait of a parked access.
HeldInOrder ==
    \A i \in DOMAIN ch.held :
        /\ ch.held[i].left <= hold
        /\ \A j \in 1 .. i : ch.held[j].left <= ch.held[i].left

\* Every task finishes, that is, its reads are answered: neither the priority
\* of the target model's reads, nor repeated rank switches, nor the bypass
\* queue, which is drained before DRAM, starves a read.
TasksFinish ==
    \A r \in Issuers :
        task[r].stage \in {"DRAFT", "VERIFY"} ~> task[r].stage \notin {"DRAFT", "VERIFY"}

\* "Before this cycle any push to that channel will be held": while a rank
\* switch is in progress nothing enters DRAM.
NoPushDuringSwitch ==
    [][hold > 0 => ch'.dram \subseteq ch.dram]_pimVars

\* "SSRC defers speculative draft state": only writes of a DRAFT are absorbed.
SsrcAbsorbsDrafts == \A a \in ParkedIn(ch.ssrc) : ~a.tlm
=============================================================================
