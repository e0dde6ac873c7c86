-------------------------------- MODULE Core --------------------------------
(***************************************************************************)
(* One weight-stationary core (ONNXim/src/Core.cc, Sram.cc, SystolicWS.cc) *)
(* and the tiles the scheduler hands to it.  A tile is a program of loads, *)
(* computations and stores on a double-buffered scratchpad and a double-   *)
(* buffered accumulator; up to two tiles run at a time.                    *)
(*                                                                         *)
(* Memory answers reads in any order and after any time, and the pipelines *)
(* take any number of cycles; the issue order, the hit tests and the       *)
(* allocation of the buffers are the code's.  A failed assert or an exit   *)
(* of the code sets `panic'.                                               *)
(***************************************************************************)
EXTENDS Integers, Sequences, SequencesExt, FiniteSetsExt

CONSTANTS Program,     \* the tiles in issue order: [layer, accum, skip, insts]
          AccAddrs,    \* the addresses at or above ACCUM_SPAD_BASE
          SpadSize, AccSize,  \* entries a buffer holds, in DRAM requests
          CoreHeight   \* depth of the compute pipeline

\* An instruction is [op, dst, size, srcs, fromAcc]; op is "MOVIN", "MOVOUT",
\* "GEMM" (the systolic array) or "VEC" (the vector unit).  A MOVIN makes
\* `size' read requests, a MOVOUT `size' writes.

ASSUME CoreAssumption ==
    /\ {SpadSize, AccSize, CoreHeight} \subseteq Nat \ {0}
    /\ \A i \in DOMAIN Program : Program[i].skip \/ Len(Program[i].insts) > 0

Tiles == DOMAIN Program
Buffers == {0, 1}

VARIABLES core,    \* the core: see FreshCore
          next,    \* the scheduler's next tile for this core
          reads,   \* outstanding reads: <<in the accumulator?, address, buffer>> -> count
          writes   \* _waiting_write_reqs

coreVars == <<core, next, reads, writes>>

\* The running tiles in issue order; per tile its place in its program,
\* its two buffer ids and inst_finished; the layer of the last issue; the
\* two SRAMs (per buffer: address -> [size, count], valid when count = 0);
\* the instruction queues and pipelines; tile_rr; the finished tiles.
FreshCore ==
    [tiles |-> <<>>, pc |-> [t \in Tiles |-> 1], fin |-> [t \in Tiles |-> FALSE],
     spadId |-> [t \in Tiles |-> 0], accId |-> [t \in Tiles |-> 0],
     layer |-> -1,
     spad |-> [b \in Buffers |-> <<>>], acc |-> [b \in Buffers |-> <<>>],
     ld |-> <<>>, st |-> <<>>, ex |-> <<>>, pipe |-> <<>>, vec |-> <<>>,
     rr |-> 0, finished |-> {}, panic |-> FALSE]

Inst(ref) == Program[ref.t].insts[ref.i]
IsLast(ref) == ref.i = Len(Program[ref.t].insts)

(* Sram.cc: one table of a buffer, as a function of its addresses.         *)
Hit(table, a) == a \in DOMAIN table /\ table[a].count = 0
\* Mutant of CountUp: a result in flight does not take the validity away.
CountUpStillValid(table, a) == table
Used(table) == MapThenSumSet(LAMBDA a : table[a].size, DOMAIN table)
Remain(table, size, cap) == Used(table) + size <= cap
Prefetch(table, a, size, count) ==
    [x \in DOMAIN table \cup {a} |-> IF x = a THEN [size |-> size, count |-> count] ELSE table[x]]
CanFill(table, a) == a \in DOMAIN table /\ table[a].count > 0
Fill(table, a) == [table EXCEPT ![a].count = @ - 1]
CountUp(table, a) == [table EXCEPT ![a].count = @ + 1]

\* The table, with its capacity, an address of tile t lies in.
TableOf(k, t, a) == IF a \in AccAddrs THEN k.acc[k.accId[t]] ELSE k.spad[k.spadId[t]]
CapOf(a) == IF a \in AccAddrs THEN AccSize ELSE SpadSize
WithTable(k, t, a, table) ==
    IF a \in AccAddrs THEN [k EXCEPT !.acc[k.accId[t]] = table]
    ELSE [k EXCEPT !.spad[k.spadId[t]] = table]

FillFor(k, t, a) ==
    IF CanFill(TableOf(k, t, a), a) THEN WithTable(k, t, a, Fill(TableOf(k, t, a), a))
    ELSE [k EXCEPT !.panic = TRUE]

-----------------------------------------------------------------------------
(* The steps of a core cycle, as functions on the core.                    *)

\* Mutant: the buffer is not flushed for the new tile.
IssueTileNoFlush(k, t) ==
    LET one == Len(k.tiles) = 1
        sid == IF one THEN 1 - k.spadId[k.tiles[1]] ELSE 1
        aid == IF one THEN 1 - k.accId[k.tiles[1]] ELSE 1
    IN  [k EXCEPT !.tiles = Append(@, t), !.layer = Program[t].layer,
                  !.spadId[t] = sid, !.accId[t] = aid]

\* Core::issue: the buffers that the one running tile does not use, flushed;
\* an accumulating tile of the same layer keeps the accumulator.
IssueTile(k, t) ==
    LET one  == Len(k.tiles) = 1
        sid  == ((IF one THEN k.spadId[k.tiles[1]] ELSE 0) + 1) % 2
        aid0 == IF one THEN k.accId[k.tiles[1]] ELSE 0
        keep == Program[t].accum /\ k.layer = Program[t].layer
        aid  == IF keep THEN aid0 ELSE (aid0 + 1) % 2
        k1 == [k EXCEPT !.spad[sid] = <<>>, !.spadId[t] = sid, !.accId[t] = aid,
                        !.acc[aid] = IF keep THEN @ ELSE <<>>, !.layer = Program[t].layer]
    IN  IF Program[t].skip THEN [k1 EXCEPT !.finished = @ \cup {t}]
        ELSE [k1 EXCEPT !.tiles = Append(@, t)]

\* finish_compute_pipeline, finish_vector_pipeline
Retired(k, ref) ==
    LET k1 == FillFor(k, ref.t, Inst(ref).dst)
    IN  IF IsLast(ref) THEN [k1 EXCEPT !.fin[ref.t] = TRUE] ELSE k1
FinishCompute(k, done) ==
    IF done /\ k.pipe # <<>> THEN [Retired(k, Head(k.pipe)) EXCEPT !.pipe = Tail(@)] ELSE k
FinishVector(k, done) ==
    IF done /\ k.vec # <<>> THEN [Retired(k, Head(k.vec)) EXCEPT !.vec = Tail(@)] ELSE k

\* handle_ld_inst_queue: allocate the destination (the reads are CoreCycle's).
HandleLd(k) ==
    IF k.ld = <<>> THEN k
    ELSE LET ref == Head(k.ld)
             i == Inst(ref)
             table == TableOf(k, ref.t, i.dst)
             k1 == [k EXCEPT !.ld = Tail(@)]
         IN  IF i.dst \in DOMAIN table \/ ~Remain(table, i.size, CapOf(i.dst))
             THEN [k1 EXCEPT !.panic = TRUE]
             ELSE WithTable(k1, ref.t, i.dst, Prefetch(table, i.dst, i.size, i.size))

\* can_issue_compute of Core and SystolicWS.
SourcesReady(k, ref) ==
    \A a \in Inst(ref).srcs :
        IF Inst(ref).fromAcc /\ a \in AccAddrs THEN Hit(k.acc[k.accId[ref.t]], a)
        ELSE Hit(k.spad[k.spadId[ref.t]], a)
CanIssueCompute(k, ref) ==
    /\ SourcesReady(k, ref)
    /\ IF Inst(ref).op = "GEMM" THEN Len(k.pipe) < CoreHeight ELSE k.vec = <<>>

\* The execute part of SystolicWS::cycle: claim the destination, enter a
\* pipeline.
Execute(k) ==
    IF k.ex = <<>> THEN k
    ELSE IF ~CanIssueCompute(k, Head(k.ex)) THEN k
    ELSE LET ref == Head(k.ex)
             i == Inst(ref)
             table == TableOf(k, ref.t, i.dst)
             k1 == [k EXCEPT !.ex = <<>>,
                             !.pipe = IF i.op = "GEMM" THEN Append(@, ref) ELSE @,
                             !.vec = IF i.op = "GEMM" THEN @ ELSE Append(@, ref)]
         IN  IF i.dst \in DOMAIN table
             THEN WithTable(k1, ref.t, i.dst, CountUp(table, i.dst))
             ELSE IF Remain(table, i.size, CapOf(i.dst))
             THEN WithTable(k1, ref.t, i.dst, Prefetch(table, i.dst, i.size, 1))
             ELSE [k1 EXCEPT !.panic = TRUE]

\* handle_st_inst_queue: the store leaves when its data is valid.  One whose
\* data is not valid has been moved out of the queue and is lost: the next
\* cycle would follow the null pointer it leaves.
StoreReady(k) ==
    k.st # <<>> /\ Hit(TableOf(k, Head(k.st).t, Inst(Head(k.st)).dst), Inst(Head(k.st)).dst)
HandleSt(k) ==
    IF k.st = <<>> THEN k
    ELSE IF ~StoreReady(k) THEN [k EXCEPT !.panic = TRUE]
    ELSE [k EXCEPT !.st = Tail(@),
                   !.fin[Head(k.st).t] = @ \/ IsLast(Head(k.st))]

\* The issue loop of Core::cycle: from tile_rr on, the first tile whose next
\* instruction can go issues it.
NextRef(k, j) == [t |-> k.tiles[j], i |-> k.pc[k.tiles[j]]]
HasInst(k, j) == k.pc[k.tiles[j]] <= Len(Program[k.tiles[j]].insts)
CanGo(k, j) ==
    LET ref == NextRef(k, j)
        i == Inst(ref)
    IN  CASE i.op = "MOVIN"  -> TRUE
          [] i.op = "MOVOUT" -> Hit(TableOf(k, ref.t, i.dst), i.dst)
          [] OTHER           -> k.ex = <<>> /\ CanIssueCompute(k, ref)
IssueInst(k) ==
    LET n == Len(k.tiles)
        At(d) == ((d + k.rr) % n) + 1
        ready == {d \in 0 .. n - 1 : HasInst(k, At(d)) /\ CanGo(k, At(d))}
        j == At(Min(ready))
        ref == NextRef(k, j)
        i == Inst(ref)
        table == TableOf(k, ref.t, i.dst)
        k1 == [k EXCEPT !.pc[ref.t] = @ + 1, !.rr = j - 1]
    IN  IF n = 0 THEN k
        ELSE IF ready = {} THEN k
        ELSE CASE i.op = "MOVIN" ->
                    IF i.dst \in DOMAIN table \/ ~Remain(table, i.size, CapOf(i.dst))
                    THEN [k EXCEPT !.panic = TRUE]
                    ELSE [k1 EXCEPT !.ld = Append(@, ref)]
               [] i.op = "MOVOUT" -> [k1 EXCEPT !.st = Append(@, ref)]
               [] OTHER -> [k1 EXCEPT !.ex = <<ref>>]

\* The end of Core::cycle: one tile whose last instruction is done leaves.
FinishTiles(k) ==
    LET over == {j \in DOMAIN k.tiles : ~HasInst(k, j) /\ k.fin[k.tiles[j]]}
    IN  IF over = {} THEN k
        ELSE [k EXCEPT !.tiles = RemoveAt(@, Min(over)),
                       !.finished = @ \cup {k.tiles[Min(over)]}]

-----------------------------------------------------------------------------
CoreInit ==
    /\ core = FreshCore /\ next = 1 /\ writes = 0
    /\ reads = [r \in {} |-> 0]

ReadKey(k, ref) == <<Inst(ref).dst \in AccAddrs, Inst(ref).dst,
                     IF Inst(ref).dst \in AccAddrs THEN k.accId[ref.t] ELSE k.spadId[ref.t]>>
AddReads(f, key, n) ==
    [x \in DOMAIN f \cup {key} |-> (IF x \in DOMAIN f THEN f[x] ELSE 0)
                                  + (IF x = key THEN n ELSE 0)]

HasRoom(k) == Len(k.tiles) < 2

\* One turn of the core in Simulator::cycle: take a tile if there is room for
\* it (can_issue), then a cycle, in which the pipelines may complete.
CycleWith(computed, vectored) ==
    /\ ~core.panic
    /\ \E take \in {next <= Len(Program) /\ HasRoom(core)} :
       \E k0 \in {IF take THEN IssueTile(core, next) ELSE core} :
       \E k1 \in {FinishCompute(k0, computed)} :
       \E k2 \in {FinishVector(k1, vectored)} :
       \E k3 \in {HandleLd(k2)} :
       \E k4 \in {Execute(k3)} :
       \E k5 \in {HandleSt(k4)} :
       \E k6 \in {IssueInst(k5)} :
         /\ core' = FinishTiles(k6)
         /\ next' = IF take THEN next + 1 ELSE next
         /\ reads' = IF k2.ld = <<>> THEN reads
                     ELSE AddReads(reads, ReadKey(k2, Head(k2.ld)), Inst(Head(k2.ld)).size)
         /\ writes' = IF StoreReady(k4) THEN writes + Inst(Head(k4.st)).size ELSE writes

CoreCycle == \E computed, vectored \in BOOLEAN : CycleWith(computed, vectored)

\* push_memory_response of a read: a fill of the buffer the request named.
ReadResponse(key) ==
    /\ ~core.panic /\ reads[key] > 0
    /\ reads' = IF reads[key] = 1 THEN [x \in DOMAIN reads \ {key} |-> reads[x]]
                ELSE [reads EXCEPT ![key] = @ - 1]
    /\ LET table == IF key[1] THEN core.acc[key[3]] ELSE core.spad[key[3]]
       IN  core' = IF ~CanFill(table, key[2]) THEN [core EXCEPT !.panic = TRUE]
                   ELSE IF key[1] THEN [core EXCEPT !.acc[key[3]] = Fill(@, key[2])]
                   ELSE [core EXCEPT !.spad[key[3]] = Fill(@, key[2])]
    /\ UNCHANGED <<next, writes>>

\* ... and of a write.
WriteResponse ==
    /\ ~core.panic /\ writes > 0
    /\ writes' = writes - 1
    /\ UNCHANGED <<core, next, reads>>

Respond == WriteResponse \/ \E key \in DOMAIN reads : ReadResponse(key)

CoreNext == CoreCycle \/ Respond

CoreSpec == CoreInit /\ [][CoreNext]_coreVars

\* The clock ticks, the pipelines complete, and memory answers.
FairCoreSpec == CoreSpec /\ WF_coreVars(CycleWith(TRUE, TRUE)) /\ WF_coreVars(Respond)

-----------------------------------------------------------------------------
(* Properties.                                                             *)

\* No assert and no exit of Core.cc, Sram.cc and SystolicWS.cc is reached: no
\* load or result finds its destination gone, taken or full, and no store that
\* was issued on valid data finds it being written again.
NoPanic == ~core.panic

\* A response is never late: every outstanding read has its entry, in the
\* buffer it named, still waiting for at least that many fills.
ReadsHaveEntries ==
    \A key \in DOMAIN reads :
        LET table == IF key[1] THEN core.acc[key[3]] ELSE core.spad[key[3]]
        IN  key[2] \in DOMAIN table /\ table[key[2]].count >= reads[key]

\* "Accumeulate tile uses same acc spad buffer", Core.cc: the tile before an
\* accumulating tile of its layer ran, or runs, on the same accumulator.  True
\* of one accumulation at a time; Core::issue copies the buffer of whichever
\* tile runs, and after one that started next to another's last tile and
\* finished first that is the other's.
AccumKeepsBuffer ==
    \A t \in Tiles : t < next /\ t > 1 /\ Program[t].accum /\ Program[t - 1].layer = Program[t].layer
        => core.accId[t] = core.accId[t - 1]

\* The buffers are what the instructions take them for.
CoreSafe == NoPanic /\ ReadsHaveEntries

\* The tiles of t's layer that t accumulates on, t included.
Chain(t) == {u \in Tiles : /\ u <= t /\ Program[u].layer = Program[t].layer
                           /\ \A v \in u + 1 .. t : Program[v].accum}

\* "MOVOUT result at the last loop", GemmWS.cc: a store of a result leaves
\* after every computation on it, of its own tile and of the tiles before it
\* in the accumulation.
PendingWork(k, t, a) ==
    \/ \E j \in k.pc[t] .. Len(Program[t].insts) :
         Program[t].insts[j].dst = a /\ Program[t].insts[j].op \in {"GEMM", "VEC"}
    \/ \E ref \in ToSet(k.ex \o k.pipe \o k.vec) : ref.t = t /\ Inst(ref).dst = a
StoreIsComplete ==
    [][StoreReady(core) /\ core'.st # core.st =>
         \A u \in Chain(Head(core.st).t) : ~PendingWork(core, u, Inst(Head(core.st)).dst)]_coreVars

\* The same, within the storing tile.
StoreAfterOwnWork ==
    [][StoreReady(core) /\ core'.st # core.st =>
         ~PendingWork(core, Head(core.st).t, Inst(Head(core.st)).dst)]_coreVars
=============================================================================
