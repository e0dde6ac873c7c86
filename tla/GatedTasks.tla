----------------------------- MODULE GatedTasks -----------------------------
(***************************************************************************)
(* The task scheduler and the attention unit a PIM rank carries            *)
(* (PIMSimulator/src: GatedTaskScheduler.h, AAU.h, PIMRank::updateAHASD).  *)
(* Drafting runs on all ranks but the last, pre-verification on the last;  *)
(* a switch powers one side up and the other down.                         *)
(*                                                                         *)
(* active_task_ points into the vector pending_tasks_; a push_back that    *)
(* outgrows its capacity moves the tasks and leaves it dangling.  The only *)
(* thing the code does through it is to set `completed', which nobody      *)
(* reads, so a dangling pointer changes nothing here but `dangling'.       *)
(***************************************************************************)
EXTENDS Integers, Sequences, SequencesExt, FiniteSets

CONSTANTS NumGated,     \* num_ranks_
          Jobs,         \* the tasks the host submits, in order: [kind, cycles]
          AauOps,       \* the operations it starts on the AAU: [op, elements]
          CounterBits   \* the width of remaining_cycles

ASSUME GatedAssumption ==
    /\ NumGated \in Nat \ {0} /\ CounterBits \in Nat
    /\ Jobs \in Seq([kind : {"DRAFTING", "PRE_VERIFICATION"}, cycles : Nat])

QueueDepth == 8
SwitchLatency == 1
AauBase == 8
AauWidth == 16
Last0 == NumGated - 1
Gated == 0 .. Last0

VARIABLES gts,    \* the scheduler
          aau,    \* busy_ and remaining_cycles_ of the unit
          subs,   \* tasks submitted so far
          served  \* the completed tasks, in order, with the cycles they ran

gtsVars == <<gts, aau, subs, served>>

RanksOf(kind) == IF kind = "DRAFTING" THEN 0 .. Last0 - 1 ELSE {Last0}
LeadRank(kind) == IF kind = "DRAFTING" THEN 0 ELSE Last0

GtsInit ==
    /\ gts = [queue |-> <<>>, cap |-> 0, active |-> 0, dangling |-> FALSE, ran |-> 0,
              on |-> 0 .. Last0 - 1, busy |-> {}, left |-> [r \in Gated |-> 0],
              switching |-> FALSE, delay |-> 0]
    /\ aau = [busy |-> FALSE, left |-> 0]
    /\ subs = 0 /\ served = <<>>

\* startDraftingTask and startPreVerificationTask: can_accept_task, then
\* submit_task; the vector doubles when it is full.
Submit ==
    /\ subs < Len(Jobs) /\ Len(gts.queue) < QueueDepth
    /\ LET moves == Len(gts.queue) = gts.cap
       IN  gts' = [gts EXCEPT !.queue = Append(@, subs + 1),
                              !.cap = IF moves THEN IF @ = 0 THEN 1 ELSE 2 * @ ELSE @,
                              !.dangling = @ \/ (moves /\ gts.active # 0)]
    /\ subs' = subs + 1
    /\ UNCHANGED <<aau, served>>

\* Mutant: the cycles of the ranks are not set.
StartTaskKeeps(g) ==
    [g EXCEPT !.active = Head(g.queue), !.ran = 0, !.busy = @ \cup RanksOf(Jobs[Head(g.queue)].kind)]

\* start_task: the ranks of the task's kind get its (truncated) cycles.
StartTask(g) ==
    LET t == Jobs[Head(g.queue)]
    IN  [g EXCEPT !.active = Head(g.queue), !.ran = 0, !.busy = @ \cup RanksOf(t.kind),
                  !.left = [r \in Gated |-> IF r \in RanksOf(t.kind) THEN t.cycles % 2^CounterBits
                                            ELSE @[r]]]

\* initiate_task_switch: the ranks of the other kind are gated.
Switch(g, kind) ==
    [g EXCEPT !.switching = TRUE, !.delay = SwitchLatency,
              !.on = IF kind = "PRE_VERIFICATION" THEN {Last0} ELSE 0 .. Last0 - 1]

\* schedule_next_task
ScheduleNext(g) ==
    IF g.active # 0 \/ g.switching \/ g.queue = <<>> THEN g
    ELSE LET kind == Jobs[Head(g.queue)].kind
         IN  IF LeadRank(kind) \notin g.on THEN Switch(g, kind) ELSE StartTask(g)

\* Mutant: the switch is never marked as over.
UpdateGtsStuck(g) ==
    LET runs == {r \in g.busy : g.left[r] > 0}
        e == [g EXCEPT !.left = [r \in Gated |-> IF r \in runs THEN @[r] - 1 ELSE @[r]],
                       !.busy = @ \cap runs, !.ran = IF runs = {} THEN @ ELSE @ + 1]
    IN  IF g.switching
        THEN IF g.delay > 0 THEN [g EXCEPT !.delay = @ - 1]
             ELSE IF g.queue = <<>> THEN g ELSE StartTask(g)
        ELSE IF g.active = 0 THEN g
        ELSE IF runs = {} THEN [e EXCEPT !.active = 0, !.queue = IF @ = <<>> THEN @ ELSE Tail(@)]
        ELSE e

\* GatedTaskScheduler::update: the switch, or one cycle of the active task;
\* the task ends in the cycle after its last.
UpdateGts(g) ==
    LET runs == {r \in g.busy : g.left[r] > 0}
        e == [g EXCEPT !.left = [r \in Gated |-> IF r \in runs THEN @[r] - 1 ELSE @[r]],
                       !.busy = @ \cap runs, !.ran = IF runs = {} THEN @ ELSE @ + 1]
        f == [g EXCEPT !.switching = FALSE]
    IN  IF g.switching
        THEN IF g.delay > 0 THEN [g EXCEPT !.delay = @ - 1]
             ELSE IF g.queue = <<>> THEN f ELSE StartTask(f)
        ELSE IF g.active = 0 THEN g
        ELSE IF runs = {} THEN [e EXCEPT !.active = 0, !.queue = IF @ = <<>> THEN @ ELSE Tail(@)]
        ELSE e

\* AAU::start_operation: the latency of an operation of at least one element.
Log2(n) == CHOOSE k \in 0 .. n : 2^k <= n /\ n < 2^(k + 1)
AauCycles(op, n) ==
    LET v == (n + AauWidth - 1) \div AauWidth
    IN  CASE op = "GELU" -> AauBase + 2 * v
          [] op \in {"SOFTMAX", "LAYERNORM"} -> AauBase + 3 * v
          [] op = "ATTENTION_SCORE" -> AauBase + 4 * v
          [] op \in {"REDUCTION_SUM", "REDUCTION_MAX"} -> AauBase + Log2(n) + 1

\* executeAAUOperation does nothing when the unit is busy.
ExecuteAau ==
    /\ ~aau.busy
    /\ \E o \in AauOps : aau' = [busy |-> TRUE, left |-> AauCycles(o.op, o.elements)]
    /\ UNCHANGED <<gts, subs, served>>

\* AAU::update
UpdateAau(a) ==
    IF a.busy /\ a.left > 0 THEN [busy |-> a.left > 1, left |-> a.left - 1] ELSE a

\* PIMRank::updateAHASD
Tick ==
    /\ aau' = UpdateAau(aau)
    /\ \E g \in {UpdateGts(gts)} :
          /\ gts' = IF g.active = 0 /\ ~g.switching THEN ScheduleNext(g) ELSE g
          /\ served' = IF gts.active # 0 /\ g.active = 0 THEN Append(served, <<gts.active, gts.ran>>)
                       ELSE served
    /\ UNCHANGED subs

GtsNext == Submit \/ ExecuteAau \/ Tick

GtsSpec == GtsInit /\ [][GtsNext]_gtsVars

-----------------------------------------------------------------------------
(* Properties.                                                             *)

\* A rank computes only while it is powered, and only for the active task:
\* a switch never gates a rank in the middle of a task.
BusyIsPowered ==
    /\ gts.busy \subseteq gts.on
    /\ gts.busy # {} => gts.active # 0 /\ gts.busy \subseteq RanksOf(Jobs[gts.active].kind)
    /\ gts.switching => gts.busy = {}

\* Tasks complete in the order they were submitted, and each has run for
\* exactly the cycles it asked for, on powered ranks.
ServedInOrder ==
  /\ BusyIsPowered
  /\ \A i \in DOMAIN served :
       /\ served[i][1] = i
       /\ RanksOf(Jobs[i].kind) # {} => served[i][2] = Jobs[i].cycles
=============================================================================
