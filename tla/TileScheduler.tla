--------------------------- MODULE TileScheduler ----------------------------
(***************************************************************************)
(* The tile schedulers (ONNXim/src/scheduler/Scheduler.cc) under the core  *)
(* loop of Simulator::cycle.  A model is a graph of layers; a layer whose  *)
(* inputs are produced is executable, its tiles are queued, handed to the  *)
(* cores and finish there in any order; the last tile of a layer makes its *)
(* successors executable.                                                  *)
(*                                                                         *)
(* Policy is one of the four schedulers: "simple" (one layer at a time, in *)
(* request order), "time_multiplex" (a layer of the next request whenever  *)
(* the queues are empty), "partition_cpu" (the same for every partition of *)
(* the cores) and "spatial_split" (a queue for every request).             *)
(*                                                                         *)
(* refresh_status() ends most handlers, so the operations map a scheduler  *)
(* state to a scheduler state.  A core is reduced to the tiles that run on *)
(* it and the tiles that wait to be collected (module Core has the rest).  *)
(* No tile is a barrier: only Attention's unfused path, which is switched  *)
(* off, and the unfinished SystolicOS core make one.                       *)
(***************************************************************************)
EXTENDS Integers, Sequences, SequencesExt, FiniteSetsExt

CONSTANTS Setups,        \* the configurations considered: records, see below
          CoreCount,
          Models,        \* the models that are registered
          Layers,        \* operation ids: numbers, unique over all models
          ModelOf,       \* layer -> its model
          TileCores,     \* layer -> the core_id of each of its tiles, -1: any
          Skipped,       \* the layers whose tiles do not compute (Tile::skip)
          Passes         \* model -> how often it runs (check_regressive)

Cores == 0 .. CoreCount - 1

ASSUME TileSchedulerAssumption ==
    /\ CoreCount \in Nat \ {0} /\ Layers \subseteq Nat /\ IsFiniteSet(Layers)
    /\ ModelOf \in [Layers -> Models] /\ IsFiniteSet(Models)
    /\ \A m \in Models : \E l \in Layers : ModelOf[l] = m
    /\ \A l \in Layers : TileCores[l] \in Seq(Nat \cup {-1}) /\ TileCores[l] # <<>>
    /\ Passes \in [Models -> Nat \ {0}]
    /\ \A u \in Setups :
         /\ u.policy \in {"simple", "time_multiplex", "partition_cpu", "spatial_split"}
         /\ u.needs \in [Layers -> SUBSET Layers] /\ u.outputs \in [Layers -> Seq(Layers)]
         /\ \A l \in Layers : \A k \in u.needs[l] : ModelOf[k] = ModelOf[l]
         /\ \A l \in Layers : \A i \in DOMAIN u.outputs[l] : l \in u.needs[u.outputs[l][i]]
         /\ u.partitionOf \in [Cores -> Nat] /\ u.modelPartition \in [Models -> Nat]
         \* One partition, number 0, for the schedulers that know no other.
         /\ u.policy \in {"simple", "time_multiplex"} => \E c \in Cores : u.partitionOf[c] = 0

VARIABLES
    setup,      \* the configuration of the run; it never changes
    pending,    \* the models in Simulator::_models, not launched yet
    sched,      \* the scheduler: see FreshSched
    running,    \* core -> the tiles in the core, at most two (Core::_tiles)
    collected,  \* core -> its finished tiles, in order (Core::_finished_tiles)
    turn        \* the core whose turn it is in the loop of Simulator::cycle

schedVars == <<setup, pending, sched, running, collected, turn>>

Policy == setup.policy
Needs == setup.needs                    \* layer -> the layers that produce its inputs
Outputs == setup.outputs                \* layer -> its child nodes, one entry per edge
PartitionOf == setup.partitionOf        \* core -> partition, _cpu_to_partition
ModelPartition == setup.modelPartition  \* model -> get_partition_id()
Partitions == {PartitionOf[c] : c \in Cores}

LayersOf(m) == {l \in Layers : ModelOf[l] = m}
TilesOf(l) == [i \in DOMAIN TileCores[l] |-> [layer |-> l, n |-> i]]
QueueKeys == IF Policy = "spatial_split" THEN Models ELSE Partitions

NoStat == [req |-> "none", remain |-> 0]

\* The request queue, each model's executable layers, the finished layers,
\* the active layers, the tile queues, the three round-robin counters, the
\* passes every model still has to run, the models the language scheduler
\* was told about, and those that register again.
FreshSched ==
    [queue  |-> <<>>,
     exec   |-> [m \in Models |-> <<>>],
     done   |-> {},
     active |-> [l \in Layers |-> NoStat],
     execQ  |-> [k \in QueueKeys |-> <<>>],
     coreQ  |-> [c \in Cores |-> <<>>],
     rr |-> 0, nrLayer |-> 0, reqRr |-> 0,
     passes |-> Passes, again |-> {}]

Active(s) == {l \in Layers : s.active[l] # NoStat}
\* Mutant: a model without executable layers is taken for finished.
FinishedIdle(s, m) == s.exec[m] = <<>>
\* Model::check_finish
Finished(s, m) == LayersOf(m) \subseteq s.done

\* Mutant: a child is pushed as soon as one of its inputs is produced.
SetLayerFinishAny(s, l) ==
    LET Push(q, c) == IF ~Contains(q, c) THEN Append(q, c) ELSE q
    IN  [s EXCEPT !.done = @ \cup {l}, !.exec[ModelOf[l]] = FoldLeft(Push, @, Outputs[l])]

\* Mutant: the children are looked up before the layer is marked finished.
SetLayerFinishLate(s, l) ==
    LET Push(q, c) == IF Needs[c] \subseteq s.done /\ ~Contains(q, c) THEN Append(q, c) ELSE q
    IN  [s EXCEPT !.done = @ \cup {l}, !.exec[ModelOf[l]] = FoldLeft(Push, @, Outputs[l])]

\* Model::set_layer_finish: the children whose inputs are all produced become
\* executable, each once.
SetLayerFinish(s, l) ==
    LET done == s.done \cup {l}
        Push(q, c) == IF Needs[c] \subseteq done /\ ~Contains(q, c) THEN Append(q, c) ELSE q
        After[i \in 0 .. Len(Outputs[l])] ==
            IF i = 0 THEN s.exec[ModelOf[l]] ELSE Push(After[i - 1], Outputs[l][i])
    IN  [s EXCEPT !.done = done, !.exec[ModelOf[l]] = After[Len(Outputs[l])]]

\* issue_tile_per_core, both overloads: the tiles of a queue go to the cores,
\* those without a core round robin, the others shifted by the layer count.
IssueFirst(s, key, cores, offset) ==
    LET t == Head(s.execQ[key])
        hint == TileCores[t.layer][t.n]
        i == IF hint = -1 THEN offset + s.rr ELSE hint + s.nrLayer
    IN  [s EXCEPT !.execQ[key] = Tail(@),
                  !.coreQ[cores[(i % Len(cores)) + 1]] = Append(@, t),
                  !.rr = IF hint = -1 THEN @ + 1 ELSE @]

IssueTiles(s, key, cores, offset) ==
    LET After[n \in 0 .. Len(s.execQ[key])] ==
            IF n = 0 THEN s ELSE IssueFirst(After[n - 1], key, cores, offset)
    IN  After[Len(s.execQ[key])]

\* The new layer of refresh_status; its tiles are counted as all the tiles
\* that are then in the queue.
Enqueue(s, m, l, key) ==
    LET q == s.execQ[key] \o TilesOf(l)
    IN  [s EXCEPT !.execQ[key] = q, !.nrLayer = @ + 1,
                  !.active[l] = [req |-> m, remain |-> Len(q)]]

AllCores == [i \in 1 .. CoreCount |-> i - 1]

\* A finished model leaves; it registers again if it has passes left
\* (check_regressive, prepare_regressive).
Retire(s, m) ==
    LET more == s.passes[m] > 1
    IN  [s EXCEPT !.queue = RemoveFirst(@, m),
                  !.passes[m] = @ - 1,
                  !.again = IF more THEN @ \cup {m} ELSE @,
                  !.done = IF more THEN @ \ LayersOf(m) ELSE @]

RetireFinished(s, m) == IF Finished(s, m) THEN Retire(s, m) ELSE s
RetireAll(s) ==
    LET After[i \in 0 .. Len(s.queue)] ==
            IF i = 0 THEN s ELSE RetireFinished(After[i - 1], s.queue[i])
    IN  After[Len(s.queue)]

TileQueueEmpty(s) == \A c \in Cores : s.coreQ[c] = <<>>
PopLayer(s, m) == [s EXCEPT !.exec[m] = Tail(@)]

\* Scheduler::refresh_status
RefreshSimple(s0) ==
    LET s == IF s0.queue = <<>> THEN s0 ELSE RetireFinished(s0, Head(s0.queue))
        m == Head(s.queue)
    IN  IF s.queue # <<>> /\ TileQueueEmpty(s) /\ s.execQ[0] = <<>> /\ Active(s) = {} /\ s.exec[m] # <<>>
        THEN IssueTiles(Enqueue(PopLayer(s, m), m, Head(s.exec[m]), 0), 0, AllCores, 0)
        ELSE s

\* TimeMultiplexScheduler::refresh_status
RefreshMultiplex(s0) ==
    LET s == RetireAll(s0)
        rr == (s.reqRr + 1) % Len(s.queue)
        m == s.queue[rr + 1]
        l == Head(s.exec[m])
        t == [s EXCEPT !.reqRr = rr]
    IN  IF s.queue = <<>> \/ ~TileQueueEmpty(s) \/ s.execQ[0] # <<>> THEN s
        ELSE IF s.exec[m] = <<>> THEN t
        ELSE IF l \in Active(s) THEN PopLayer(t, m)
        ELSE IssueTiles(Enqueue(PopLayer(t, m), m, l, 0), 0, AllCores, 0)

\* A finite set of ids in ascending order.
ById(S) ==
    LET Upto[n \in 0 .. Max(S) + 1] ==
            IF n = 0 THEN <<>> ELSE IF n - 1 \in S THEN Append(Upto[n - 1], n - 1) ELSE Upto[n - 1]
    IN  IF S = {} THEN <<>> ELSE Upto[Max(S) + 1]

\* The cores of a partition, in order, and the place of a core among them.
PartitionCores(p) == ById({c \in Cores : PartitionOf[c] = p})
PlaceOf(c) == Cardinality({d \in 0 .. c - 1 : PartitionOf[d] = PartitionOf[c]})

\* DedicatedCPUScheduler::refresh_status: every core without tiles asks for a
\* layer of the first request of its partition.
AskForCore(s, c) ==
    LET p == PartitionOf[c]
        mine == {i \in DOMAIN s.queue : ModelPartition[s.queue[i]] = p}
        m == s.queue[Min(mine)]
        l == Head(s.exec[m])
    IN  IF s.coreQ[c] # <<>> \/ s.execQ[p] # <<>> \/ mine = {} THEN s
        ELSE IF s.exec[m] = <<>> THEN s
        ELSE IF l \in Active(s) THEN PopLayer(s, m)
        ELSE IssueTiles(Enqueue(PopLayer(s, m), m, l, p), p, PartitionCores(p), PlaceOf(c))

RefreshDedicated(s0) ==
    LET After[i \in 0 .. CoreCount] ==
            IF i = 0 THEN RetireAll(s0) ELSE AskForCore(After[i - 1], i - 1)
    IN  After[CoreCount]

\* HalfSplitScheduler::refresh_status: every request without tiles gets a
\* layer.
AskForModel(s, m) ==
    LET l == Head(s.exec[m])
    IN  IF s.execQ[m] # <<>> \/ s.exec[m] = <<>> THEN s
        ELSE IF l \in Active(s) THEN PopLayer(s, m)
        ELSE Enqueue(PopLayer(s, m), m, l, m)

RefreshSplit(s0) ==
    LET s1 == RetireAll(s0)
        After[i \in 0 .. Len(s1.queue)] ==
            IF i = 0 THEN s1 ELSE AskForModel(After[i - 1], s1.queue[i])
    IN  After[Len(s1.queue)]

Refresh(s) ==
    CASE Policy = "simple"         -> RefreshSimple(s)
      [] Policy = "time_multiplex" -> RefreshMultiplex(s)
      [] Policy = "partition_cpu"  -> RefreshDedicated(s)
      [] Policy = "spatial_split"  -> RefreshSplit(s)

\* schedule_model, after initialize_model made the first layers executable.
ScheduleModel(s, m) ==
    Refresh([s EXCEPT !.queue = Append(@, m),
                      !.exec[m] = ById({l \in LayersOf(m) : Needs[l] = {}})])

\* finish_tile.  The spatial split drops the request's queue with the layer.
FinishTile(s, t) ==
    LET last == s.active[t.layer].remain = 1
        s1 == IF last THEN [s EXCEPT !.active[t.layer] = NoStat]
              ELSE [s EXCEPT !.active[t.layer].remain = @ - 1]
        s2 == IF last THEN SetLayerFinish(s1, t.layer) ELSE s1
        s3 == IF last /\ Policy = "spatial_split"
              THEN [s2 EXCEPT !.execQ[ModelOf[t.layer]] = <<>>] ELSE s2
    IN  Refresh(s3)

\* get_tile: the tile for core c as a sequence of at most one, and the state.
QueueFor(s, c) == IF Policy = "spatial_split" THEN s.execQ[s.queue[(c % Len(s.queue)) + 1]]
                  ELSE s.coreQ[c]
GetTile(s, c) ==
    IF QueueFor(s, c) = <<>>
    THEN IF Policy = "spatial_split" THEN s ELSE Refresh(s)
    ELSE IF Policy = "spatial_split"
         THEN [s EXCEPT !.execQ[s.queue[(c % Len(s.queue)) + 1]] = Tail(@)]
         ELSE [s EXCEPT !.coreQ[c] = Tail(@)]

-----------------------------------------------------------------------------
(* The core loop of Simulator::cycle.                                      *)

SchedInit ==
    /\ setup \in Setups /\ pending = Models /\ sched = FreshSched
    /\ running = [c \in Cores |-> {}] /\ collected = [c \in Cores |-> <<>>]
    /\ turn = 0

\* handle_model at the top of the loop: a model whose time has come.
Launch ==
    /\ turn = 0
    /\ \E m \in pending :
         /\ pending' = pending \ {m}
         /\ sched' = ScheduleModel(sched, m)
    /\ UNCHANGED <<setup, running, collected, turn>>

\* Core::can_issue: double buffering.
CanIssue(c) == Cardinality(running[c]) < 2
Asks(s, c) == s.queue # <<>> /\ CanIssue(c)

\* One iteration of the loop over the cores: collect a finished tile, then
\* ask for a new one if the core has room (can_issue).
CoreTurn(c) ==
    /\ turn = c /\ turn' = (c + 1) % CoreCount /\ UNCHANGED setup
    /\ \E s1 \in {IF collected[c] = <<>> THEN sched ELSE FinishTile(sched, Head(collected[c]))} :
       \E rest \in {IF collected[c] = <<>> THEN <<>> ELSE Tail(collected[c])} :
       \E q \in {IF Asks(s1, c) THEN QueueFor(s1, c) ELSE <<>>} :
       \E s2 \in {IF Asks(s1, c) THEN GetTile(s1, c) ELSE s1} :
         /\ sched' = [s2 EXCEPT !.again = {}]
         /\ pending' = pending \cup s2.again
         /\ \/ q = <<>> /\ UNCHANGED running /\ collected' = [collected EXCEPT ![c] = rest]
            \/ /\ q # <<>> /\ Head(q).layer \in Skipped
               /\ collected' = [collected EXCEPT ![c] = Append(rest, Head(q))]
               /\ UNCHANGED running
            \/ /\ q # <<>> /\ Head(q).layer \notin Skipped
               /\ running' = [running EXCEPT ![c] = @ \cup {Head(q)}]
               /\ collected' = [collected EXCEPT ![c] = rest]

\* A core completes a tile (Core::cycle).
Complete(c, t) ==
    /\ t \in running[c]
    /\ running' = [running EXCEPT ![c] = @ \ {t}]
    /\ collected' = [collected EXCEPT ![c] = Append(@, t)]
    /\ UNCHANGED <<setup, pending, sched, turn>>

SomeTile(t) == \E c \in Cores : Complete(c, t)

SchedNext ==
    \/ Launch
    \/ \E c \in Cores : CoreTurn(c) \/ \E t \in running[c] : Complete(c, t)

SchedSpec == SchedInit /\ [][SchedNext]_schedVars

\* The loop runs (a turn is always enabled), time passes, so that every
\* registered model is launched by handle_model, and a core completes the
\* tiles it runs.
FairSchedSpec ==
    /\ SchedSpec
    /\ []<>(pending = {})
    /\ []<><<turn' # turn>>_turn
    /\ \A t \in UNION {ToSet(TilesOf(l)) : l \in Layers} : WF_schedVars(SomeTile(t))

-----------------------------------------------------------------------------
(* Properties.                                                             *)

\* The tiles of layer l that are somewhere between the layer's start and
\* their finish_tile, each counted once per place it is in.
InFlight(l) ==
    LET Count(q) == Cardinality({i \in DOMAIN q : q[i].layer = l})
    IN  MapThenSumSet(LAMBDA k : Count(sched.execQ[k]), QueueKeys)
        + MapThenSumSet(LAMBDA c : Count(sched.coreQ[c]) + Count(collected[c])
                          + Cardinality({t \in running[c] : t.layer = l}), Cores)

\* remain_tiles is a count kept apart from the queues and the cores: it is
\* always the number of the layer's tiles that are queued, running or waiting
\* to be collected, so the layer ends with its last tile and not before.
RemainCounts == \A l \in Layers : sched.active[l].remain = InFlight(l)

\* A layer is queued only when all layers it reads from have finished, and
\* is never queued or executable after it finished, nor executable twice.
LayersInOrder ==
    /\ RemainCounts
    /\ \A l \in Layers : InFlight(l) > 0 => Needs[l] \subseteq sched.done
    /\ \A l \in sched.done : InFlight(l) = 0 /\ ~Contains(sched.exec[ModelOf[l]], l)
    /\ \A m \in Models : IsInjective(sched.exec[m])

\* The simple scheduler works on the front request only; finish_tile relies
\* on it (`_request_queue.front().model->set_layer_finish`).
FrontOwnsActive ==
    Policy = "simple" => \A l \in Active(sched) : sched.queue # <<>> /\ ModelOf[l] = Head(sched.queue)

\* A model that left the request queue took nothing with it: none of its
\* tiles is left in a queue or a core, and finish_tile finds it in the queue
\* as long as there are.
RetiredClean ==
    /\ \A m \in Models : ~Contains(sched.queue, m) =>
         \A l \in LayersOf(m) : InFlight(l) = 0 /\ l \notin Active(sched)
    /\ FrontOwnsActive

\* "launched before finish prior layer", Scheduler.cc: layers of one request
\* may overlap under the spatial split, and none of them loses a tile.
OverlapKeepsTiles == Policy = "spatial_split" => RemainCounts
=============================================================================
