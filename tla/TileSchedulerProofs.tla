------------------------ MODULE TileSchedulerProofs ------------------------
(***************************************************************************)
(* Proofs about TileScheduler: for any models, any number of cores, any    *)
(* partitions and each of the four policies, a layer ends with its last    *)
(* tile and not before, it starts when all its inputs are produced and     *)
(* runs once a pass, and a model that leaves the scheduler leaves nothing  *)
(* behind.                                                                 *)
(*                                                                         *)
(* The handlers map a scheduler state s to a scheduler state, and so does  *)
(* the invariant Sound: it speaks of s, of the tiles X that are at the     *)
(* cores and of the models W that are yet to be launched.  Apart and       *)
(* Counted say that every tile is in one place and that remain_tiles is    *)
(* the number of the layer's tiles; Ordered, that a layer waits, becomes   *)
(* executable, is active and is done, in this order; PolicyOwn is what the *)
(* simple policy and the spatial split add.  Every operation of the model  *)
(* keeps Sound, with X or W changed as the operation says; the recursive   *)
(* ones (the loops of refresh_status) by induction over their rounds.      *)
(*                                                                         *)
(* finish_tile drops the request's tile queue under the spatial split, so  *)
(* there Sound holds for models whose layers follow one another only:      *)
(* Unbranched, the hypothesis of the theorems.  Where a model branches the *)
(* run of MCTileSchedulerSplit.cfg shows the loss.                         *)
(***************************************************************************)
EXTENDS TileScheduler, DataFacts

-----------------------------------------------------------------------------
(* The inductive invariant.                                                *)

Tile == {t \in [layer : Layers, n : Nat] : t.n \in DOMAIN TileCores[t.layer]}
Keys(u) == IF u.policy = "spatial_split" THEN Models ELSE {u.partitionOf[c] : c \in Cores}
Stat == [req : Models, remain : Nat \ {0}] \cup {NoStat}
SchedFields == {"queue", "exec", "done", "active", "execQ", "coreQ",
                "rr", "nrLayer", "reqRr", "passes", "again"}

Typed(u, s) ==
    /\ s = [f \in SchedFields |-> s[f]]
    /\ s.queue \in Distinct(Models) /\ s.exec \in [Models -> Distinct(Layers)]
    /\ s.done \subseteq Layers /\ s.active \in [Layers -> Stat]
    /\ s.execQ \in [Keys(u) -> Distinct(Tile)] /\ s.coreQ \in [Cores -> Distinct(Tile)]
    /\ s.rr \in Nat /\ s.nrLayer \in Nat /\ s.reqRr \in Nat
    /\ s.passes \in [Models -> Int] /\ s.again \subseteq Models

\* Every tile is in one place: one of the queues, or in X, the tiles that are
\* at the cores.
Apart(s, X) ==
    /\ \A k, j \in DOMAIN s.execQ : k # j =>
         \A t \in ToSet(s.execQ[k]) : t \notin ToSet(s.execQ[j])
    /\ \A c, d \in Cores : c # d => \A t \in ToSet(s.coreQ[c]) : t \notin ToSet(s.coreQ[d])
    /\ \A k \in DOMAIN s.execQ, c \in Cores :
         \A t \in ToSet(s.execQ[k]) : t \notin ToSet(s.coreQ[c])
    /\ \A k \in DOMAIN s.execQ : \A t \in ToSet(s.execQ[k]) : t \notin X
    /\ \A c \in Cores : \A t \in ToSet(s.coreQ[c]) : t \notin X

\* The tiles that are queued or at the cores, those of layer l, and
\* remain_tiles as their number: an inactive layer has none.
Flying(s, X) == (UNION {ToSet(s.execQ[k]) : k \in DOMAIN s.execQ})
                \cup (UNION {ToSet(s.coreQ[c]) : c \in Cores}) \cup X
FlyingOf(s, X, l) == {t \in Flying(s, X) : t.layer = l}
Counted(s, X) ==
    /\ X \subseteq Tile /\ IsFiniteSet(Flying(s, X))
    /\ \A l \in Layers : s.active[l].remain = Cardinality(FlyingOf(s, X, l))

\* A layer waits for its inputs, is executable, active, and done, in this
\* order; only the models in the request queue have executable or active
\* layers.
Ordered(u, s) ==
    /\ \A m \in Models : \A l \in ToSet(s.exec[m]) :
         /\ ModelOf[l] = m /\ m \in ToSet(s.queue)
         /\ u.needs[l] \subseteq s.done /\ l \notin s.done /\ l \notin Active(s)
    /\ \A l \in Active(s) :
         /\ ModelOf[l] \in ToSet(s.queue) /\ u.needs[l] \subseteq s.done /\ l \notin s.done
    /\ \A l \in s.done : u.needs[l] \subseteq s.done

\* A model that is to be launched has nothing in the scheduler yet.
Outside(s, W) ==
    /\ W \cap s.again = {}
    /\ \A m \in W \cup s.again : m \notin ToSet(s.queue) /\ LayersOf(m) \cap s.done = {}

\* The simple policy works on the first request, and the spatial split keeps
\* the tiles of a request in the queue of that request.
PolicyOwn(u, s) ==
    /\ u.policy = "simple" =>
         \A l \in Active(s) : s.queue # <<>> /\ ModelOf[l] = Head(s.queue)
    /\ u.policy = "spatial_split" => \A m \in Models : \A t \in ToSet(s.execQ[m]) : ModelOf[t.layer] = m

Sound(u, s, X, W) ==
    Typed(u, s) /\ Apart(s, X) /\ Counted(s, X) /\ Ordered(u, s) /\ Outside(s, W) /\ PolicyOwn(u, s)

\* The tiles that run on a core or wait there to be collected.
AtCores(run, col) == UNION {run[c] \cup ToSet(col[c]) : c \in Cores}
CoresOK(run, col) ==
    /\ run \in [Cores -> SUBSET Tile] /\ col \in [Cores -> Distinct(Tile)]
    /\ \A c \in Cores : IsFiniteSet(run[c])
    /\ \A c, d \in Cores : run[c] \cap ToSet(col[d]) = {}
    /\ \A c, d \in Cores : c # d => run[c] \cap run[d] = {} /\ ToSet(col[c]) \cap ToSet(col[d]) = {}

TileInv ==
    /\ setup \in Setups /\ pending \subseteq Models /\ turn \in Cores
    /\ CoresOK(running, collected)
    /\ Sound(setup, sched, AtCores(running, collected), pending)

\* In a model run by the spatial split the layers follow one another: whenever
\* D is finished, at most one layer outside D has its inputs in D.
Unbranched(u) ==
    \A D \in SUBSET Layers :
      (\A l \in D : u.needs[l] \subseteq D) =>
        \A j, k \in Layers \ D :
          ModelOf[j] = ModelOf[k] /\ u.needs[j] \subseteq D /\ u.needs[k] \subseteq D => j = k
SplitUnbranched == \A u \in Setups : u.policy = "spatial_split" => Unbranched(u)
-----------------------------------------------------------------------------
(* The configuration, and what the parts of the invariant depend on.       *)

\* What TileSchedulerAssumption says of the configuration in use.
LEMMA SetupFacts ==
    ASSUME setup \in Setups
    PROVE  /\ Policy \in {"simple", "time_multiplex", "partition_cpu", "spatial_split"}
           /\ Needs \in [Layers -> SUBSET Layers] /\ Outputs \in [Layers -> Seq(Layers)]
           /\ \A l \in Layers : \A k \in Needs[l] : ModelOf[k] = ModelOf[l]
           /\ \A l \in Layers : \A i \in DOMAIN Outputs[l] : l \in Needs[Outputs[l][i]]
           /\ PartitionOf \in [Cores -> Nat] /\ ModelPartition \in [Models -> Nat]
           /\ Policy \in {"simple", "time_multiplex"} => 0 \in Keys(setup)
           /\ Policy = "partition_cpu" => \A c \in Cores : PartitionOf[c] \in Keys(setup)
           /\ QueueKeys = Keys(setup) /\ (Policy = "spatial_split" => Keys(setup) = Models)
<1>1. /\ Policy \in {"simple", "time_multiplex", "partition_cpu", "spatial_split"}
      /\ Needs \in [Layers -> SUBSET Layers] /\ Outputs \in [Layers -> Seq(Layers)]
      /\ \A l \in Layers : \A k \in Needs[l] : ModelOf[k] = ModelOf[l]
      /\ \A l \in Layers : \A i \in DOMAIN Outputs[l] : l \in Needs[Outputs[l][i]]
      /\ PartitionOf \in [Cores -> Nat] /\ ModelPartition \in [Models -> Nat]
      /\ Policy \in {"simple", "time_multiplex"} => \E c \in Cores : PartitionOf[c] = 0
  BY TileSchedulerAssumption, Zenon
     DEF Policy, Needs, Outputs, PartitionOf, ModelPartition
<1>2. QueueKeys = Keys(setup) BY DEF QueueKeys, Keys, Partitions, PartitionOf, Policy
<1>3. /\ Policy \in {"simple", "time_multiplex"} => 0 \in Keys(setup)
      /\ Policy = "partition_cpu" => \A c \in Cores : PartitionOf[c] \in Keys(setup)
      /\ Policy = "spatial_split" => Keys(setup) = Models
  BY <1>1 DEF Keys, PartitionOf, Policy
<1> QED BY <1>1, <1>2, <1>3

\* Ordered and Outside do not look at the tiles.
LEMMA SameGraph ==
    ASSUME NEW u, NEW s, NEW r, NEW W, Ordered(u, s), Outside(s, W),
           r.queue = s.queue, r.exec = s.exec, r.done = s.done,
           r.active = s.active, r.again = s.again
    PROVE  Ordered(u, r) /\ Outside(r, W) /\ Active(r) = Active(s)
<1>1. Active(r) = Active(s) BY DEF Active
<1>2. Ordered(u, r) BY <1>1 DEF Ordered
<1>3. Outside(r, W) BY DEF Outside
<1> QED BY <1>1, <1>2, <1>3

\* A tile that moves from one place to another is counted as before.
LEMMA SameFlight ==
    ASSUME NEW s, NEW r, NEW X, NEW Y, Counted(s, X), Y \subseteq Tile,
           Flying(r, Y) = Flying(s, X), r.active = s.active
    PROVE  Counted(r, Y)
<1>1. \A l \in Layers : FlyingOf(r, Y, l) = FlyingOf(s, X, l) BY DEF FlyingOf
<1> QED BY <1>1 DEF Counted

\* A tile is in flight when it is in a queue or at the cores.
LEMMA InFlying ==
    ASSUME NEW s, NEW X, NEW t
    PROVE  t \in Flying(s, X) <=> \/ t \in X
                                  \/ \E k \in DOMAIN s.execQ : t \in ToSet(s.execQ[k])
                                  \/ \E c \in Cores : t \in ToSet(s.coreQ[c])
BY DEF Flying

\* A tile in flight is a tile, and its layer is active.
LEMMA FlyingActive ==
    ASSUME NEW u, NEW s, NEW X, Typed(u, s), Counted(s, X), NEW t \in Flying(s, X)
    PROVE  t \in Tile /\ t.layer \in Active(s) /\ t \in FlyingOf(s, X, t.layer)
<1>1. t \in Tile
  <2>1. \A q \in Distinct(Tile) : ToSet(q) \subseteq Tile BY MembersOf DEF Distinct
  <2> QED BY <2>1, InFlying DEF Typed, Counted
<1>2. t.layer \in Layers BY <1>1 DEF Tile
<1>3. t \in FlyingOf(s, X, t.layer) BY DEF FlyingOf
<1>4. IsFiniteSet(FlyingOf(s, X, t.layer))
  BY FS_Subset DEF FlyingOf, Counted
<1>5. Cardinality(FlyingOf(s, X, t.layer)) # 0 BY <1>3, <1>4, FS_EmptySet
<1>6. s.active[t.layer] # NoStat BY <1>2, <1>5 DEF Counted, NoStat
<1> QED BY <1>1, <1>2, <1>3, <1>6 DEF Active
-----------------------------------------------------------------------------
(* issue_tile_per_core.                                                    *)

\* The first tile of a queue goes to a core's queue: nothing else changes, so
\* the tile stays in one place and is counted as before (issue_tile_per_core).
LEMMA IssueFirstSound ==
    ASSUME setup \in Setups, NEW s, NEW X, NEW W, Sound(setup, s, X, W),
           NEW key \in Keys(setup), s.execQ[key] # <<>>,
           NEW cores \in Seq(Cores), cores # <<>>, NEW offset \in Nat
    PROVE  /\ Sound(setup, IssueFirst(s, key, cores, offset), X, W)
           /\ Len(IssueFirst(s, key, cores, offset).execQ[key]) = Len(s.execQ[key]) - 1
<1> DEFINE q == s.execQ[key]
           t == Head(q)
           hint == TileCores[t.layer][t.n]
           i == IF hint = -1 THEN offset + s.rr ELSE hint + s.nrLayer
           c == cores[(i % Len(cores)) + 1]
           r == IssueFirst(s, key, cores, offset)
<1>1. q \in Distinct(Tile) /\ q # <<>> BY DEF Sound, Typed
<1>2. t \in ToSet(q) /\ t \in Tile /\ ToSet(q) \subseteq Tile BY <1>1, MembersOf DEF Distinct
<1>3. /\ Tail(q) \in Distinct(Tile) /\ ToSet(Tail(q)) = ToSet(q) \ {t}
      /\ Len(Tail(q)) = Len(q) - 1
  <2>1. Tail(q) \in Distinct(Tile) /\ ToSet(Tail(q)) = ToSet(q) \ {t} BY <1>1, DistinctTail
  <2>2. Len(Tail(q)) = Len(q) - 1 BY <1>1 DEF Distinct
  <2> QED BY <2>1, <2>2
<1>4. hint \in Nat \cup {-1}
  <2>1. t.layer \in Layers /\ t.n \in DOMAIN TileCores[t.layer] BY <1>2 DEF Tile
  <2>2. TileCores[t.layer] \in Seq(Nat \cup {-1}) BY <2>1, TileSchedulerAssumption
  <2> QED BY <2>1, <2>2
<1>5. c \in Cores
  <2>0. s.rr \in Nat /\ s.nrLayer \in Nat BY DEF Sound, Typed
  <2> HIDE DEF hint
  <2>1. i \in Nat BY <1>4, <2>0
  <2> HIDE DEF i
  <2>2. Len(cores) \in Nat \ {0} BY EmptySeq, LenProperties
  <2>3. i % Len(cores) \in 0 .. Len(cores) - 1 BY <2>1, <2>2
  <2>4. (i % Len(cores)) + 1 \in 1 .. Len(cores) BY <2>2, <2>3
  <2> QED BY <2>4
<1>6. r = [s EXCEPT !.execQ[key] = Tail(@), !.coreQ[c] = Append(@, t),
                    !.rr = IF hint = -1 THEN @ + 1 ELSE @]
  BY DEF IssueFirst
<1> HIDE DEF q, t, hint, c, r, i
<1>7. /\ r = [f \in SchedFields |-> r[f]]
      /\ r.execQ = [s.execQ EXCEPT ![key] = Tail(q)]
      /\ r.coreQ = [s.coreQ EXCEPT ![c] = Append(s.coreQ[c], t)]
      /\ r.rr = IF hint = -1 THEN s.rr + 1 ELSE s.rr
      /\ r.queue = s.queue /\ r.exec = s.exec /\ r.done = s.done /\ r.active = s.active
      /\ r.nrLayer = s.nrLayer /\ r.reqRr = s.reqRr /\ r.passes = s.passes /\ r.again = s.again
  BY <1>6 DEF Sound, Typed, SchedFields, q
<1>8. s.execQ \in [Keys(setup) -> Distinct(Tile)] /\ s.coreQ \in [Cores -> Distinct(Tile)]
  BY DEF Sound, Typed
<1>9. s.coreQ[c] \in Distinct(Tile) /\ t \notin ToSet(s.coreQ[c])
  BY <1>2, <1>5, <1>8 DEF Sound, Apart, q
<1>10. /\ Append(s.coreQ[c], t) \in Distinct(Tile)
       /\ ToSet(Append(s.coreQ[c], t)) = ToSet(s.coreQ[c]) \cup {t}
  BY <1>2, <1>9, DistinctAppend
<1>11. Typed(setup, r)
  <2>1. r.execQ \in [Keys(setup) -> Distinct(Tile)] BY <1>3, <1>7, <1>8
  <2>2. r.coreQ \in [Cores -> Distinct(Tile)] BY <1>5, <1>7, <1>8, <1>10
  <2>3. r.rr \in Nat BY <1>7 DEF Sound, Typed
  <2> QED BY <1>7, <2>1, <2>2, <2>3 DEF Sound, Typed
<1>12. /\ DOMAIN r.execQ = DOMAIN s.execQ /\ DOMAIN s.execQ = Keys(setup)
       /\ ToSet(r.execQ[key]) = ToSet(s.execQ[key]) \ {t}
       /\ \A k \in Keys(setup) \ {key} : ToSet(r.execQ[k]) = ToSet(s.execQ[k])
       /\ ToSet(r.coreQ[c]) = ToSet(s.coreQ[c]) \cup {t}
       /\ \A d \in Cores \ {c} : ToSet(r.coreQ[d]) = ToSet(s.coreQ[d])
       /\ t \in ToSet(s.execQ[key])
  BY <1>2, <1>3, <1>5, <1>7, <1>8, <1>10 DEF q
<1>13. Apart(r, X)
  <2>1. /\ Apart(s, X)
        /\ \A k \in Keys(setup) \ {key} : t \notin ToSet(s.execQ[k])
        /\ \A d \in Cores : t \notin ToSet(s.coreQ[d])
    BY <1>12 DEF Sound, Apart
  <2>2. \A k, j \in Keys(setup) : k # j =>
          \A x \in ToSet(r.execQ[k]) : x \notin ToSet(r.execQ[j])
    BY <1>12, <2>1, ZenonT(30) DEF Apart
  <2>3. \A d, e \in Cores : d # e =>
          \A x \in ToSet(r.coreQ[d]) : x \notin ToSet(r.coreQ[e])
    <3> TAKE d, e \in Cores
    <3> HAVE d # e
    <3>1. \A x \in ToSet(s.coreQ[d]) : x \notin ToSet(s.coreQ[e]) BY <2>1 DEF Apart
    <3>2. t \notin ToSet(s.coreQ[d]) /\ t \notin ToSet(s.coreQ[e]) BY <2>1
    <3>3. CASE d = c BY <1>12, <3>1, <3>2, <3>3
    <3>4. CASE e = c BY <1>12, <3>1, <3>2, <3>4
    <3>5. CASE d # c /\ e # c BY <1>12, <3>1, <3>5
    <3> QED BY <3>3, <3>4, <3>5
  <2>4. \A k \in Keys(setup), d \in Cores :
          \A x \in ToSet(r.execQ[k]) : x \notin ToSet(r.coreQ[d])
    BY <1>12, <2>1 DEF Apart
  <2>5. /\ \A k \in Keys(setup) : \A x \in ToSet(r.execQ[k]) : x \notin X
        /\ \A d \in Cores : \A x \in ToSet(r.coreQ[d]) : x \notin X
    BY <1>12, <2>1 DEF Apart
  <2> QED BY <1>12, <2>2, <2>3, <2>4, <2>5 DEF Apart
<1>14. Flying(r, X) = Flying(s, X)
  <2> SUFFICES ASSUME NEW x PROVE x \in Flying(r, X) <=> x \in Flying(s, X) OBVIOUS
  <2>1. x \in Flying(r, X) <=> \/ x \in X
                               \/ \E k \in Keys(setup) : x \in ToSet(r.execQ[k])
                               \/ \E d \in Cores : x \in ToSet(r.coreQ[d])
    BY <1>12, InFlying
  <2>2. x \in Flying(s, X) <=> \/ x \in X
                               \/ \E k \in Keys(setup) : x \in ToSet(s.execQ[k])
                               \/ \E d \in Cores : x \in ToSet(s.coreQ[d])
    BY <1>12, InFlying
  <2>3. (\E k \in Keys(setup) : x \in ToSet(r.execQ[k])) \/ x = t
        <=> \E k \in Keys(setup) : x \in ToSet(s.execQ[k])
    BY <1>12
  <2>4. (\E d \in Cores : x \in ToSet(s.coreQ[d])) \/ x = t
        <=> \E d \in Cores : x \in ToSet(r.coreQ[d])
    BY <1>5, <1>12
  <2> QED BY <2>1, <2>2, <2>3, <2>4
<1>15. Counted(r, X)
  <2>1. X \subseteq Tile BY DEF Sound, Counted
  <2> QED BY <1>7, <1>14, <2>1, SameFlight DEF Sound
<1>16. Ordered(setup, r) /\ Outside(r, W) /\ Active(r) = Active(s)
  BY <1>7, SameGraph, SMTT(30) DEF Sound
<1>17. PolicyOwn(setup, r)
  <2>1. PolicyOwn(setup, s) BY DEF Sound
  <2>2. CASE setup.policy = "spatial_split"
    <3>1. Keys(setup) = Models BY <2>2 DEF Keys
    <3>2. \A m \in Models : ToSet(r.execQ[m]) \subseteq ToSet(s.execQ[m]) BY <1>12, <3>1
    <3> QED BY <2>1, <2>2, <3>2 DEF PolicyOwn
  <2>3. CASE setup.policy # "spatial_split" BY <1>7, <1>16, <2>1, <2>3 DEF PolicyOwn
  <2> QED BY <2>2, <2>3
<1>18. Len(r.execQ[key]) = Len(s.execQ[key]) - 1 BY <1>3, <1>7, <1>8 DEF q
<1> QED BY <1>11, <1>13, <1>15, <1>16, <1>17, <1>18 DEF Sound, r

\* All tiles of a queue go to the cores (issue_tile_per_core).
LEMMA IssueTilesSound ==
    ASSUME setup \in Setups, NEW s, NEW X, NEW W, Sound(setup, s, X, W),
           NEW key \in Keys(setup), NEW cores \in Seq(Cores), cores # <<>>, NEW offset \in Nat
    PROVE  Sound(setup, IssueTiles(s, key, cores, offset), X, W)
<1> DEFINE N == Len(s.execQ[key])
           F(x, n) == IssueFirst(x, key, cores, offset)
           Upto(v, m) == v = [n \in 0 .. m |-> IF n = 0 THEN s ELSE F(v[n - 1], n)]
           G == CHOOSE g : Upto(g, N)
           P == {m \in Nat : \E v : Upto(v, m)}
           Inv(m) == Sound(setup, G[m], X, W) /\ Len(G[m].execQ[key]) = N - m
           Q == {m \in Nat : m <= N => Inv(m)}
<1>1. N \in Nat
  <2>1. s.execQ[key] \in Seq(Tile) BY DEF Sound, Typed, Distinct
  <2> QED BY <2>1, LenProperties
<1>2. IssueTiles(s, key, cores, offset) = G[N] BY DEF IssueTiles
<1> HIDE DEF N, F
<1>3. \E g : Upto(g, N)
  <2>1. 0 \in P
    <3> DEFINE v == [n \in 0 .. 0 |-> s]
    <3>1. Upto(v, 0) OBVIOUS
    <3> QED BY <3>1
  <2>2. ASSUME NEW m \in P PROVE m + 1 \in P
    <3>1. PICK v : Upto(v, m) OBVIOUS
    <3> DEFINE w == [n \in 0 .. m + 1 |-> IF n <= m THEN v[n] ELSE F(v[m], m + 1)]
    <3>2. \A n \in 0 .. m + 1 : w[n] = IF n = 0 THEN s ELSE F(w[n - 1], n)
      <4> TAKE n \in 0 .. m + 1
      <4>1. CASE n = 0 BY <4>1, <3>1
      <4>2. CASE n \in 1 .. m BY <4>2, <3>1
      <4>3. CASE n = m + 1 BY <4>3
      <4> QED BY <4>1, <4>2, <4>3
    <3>3. Upto(w, m + 1) BY <3>2
    <3> QED BY <3>3
  <2> HIDE DEF P
  <2>3. N \in P BY <1>1, <2>1, <2>2, NatSetInduction
  <2> QED BY <2>3 DEF P
<1>4. Upto(G, N) BY <1>3
<1> HIDE DEF G
<1>5. G[0] = s /\ \A n \in 1 .. N : G[n] = F(G[n - 1], n)
  <2>1. \A n \in 0 .. N : G[n] = IF n = 0 THEN s ELSE F(G[n - 1], n) BY <1>4
  <2>2. 0 \in 0 .. N /\ \A n \in 1 .. N : n \in 0 .. N /\ n # 0 BY <1>1
  <2> QED BY <2>1, <2>2
<1>6. 0 \in Q BY <1>1, <1>5 DEF N
<1>7. ASSUME NEW m \in Q PROVE m + 1 \in Q
  <2> SUFFICES ASSUME m + 1 <= N PROVE Inv(m + 1) BY <1>1
  <2>1. Inv(m) BY <1>1
  <2>2. G[m].execQ[key] # <<>>
    <3>1. Len(G[m].execQ[key]) # 0 BY <1>1, <2>1
    <3> QED BY <3>1
  <2>3. G[m + 1] = IssueFirst(G[m], key, cores, offset) BY <1>1, <1>5 DEF F
  <2>4. /\ Sound(setup, G[m + 1], X, W)
        /\ Len(G[m + 1].execQ[key]) = Len(G[m].execQ[key]) - 1
    BY <2>1, <2>2, <2>3, IssueFirstSound, SMTT(30)
  <2> QED BY <1>1, <2>1, <2>4
<1> HIDE DEF Q
<1>8. N \in Q BY <1>1, <1>6, <1>7, NatSetInduction
<1> QED BY <1>2, <1>8 DEF Q
-----------------------------------------------------------------------------
(* Layers start.                                                           *)

\* Layer l of model m waits in no list any more and may start.
Startable(s, m, l) ==
    /\ l \in Layers /\ m \in Models /\ ModelOf[l] = m /\ m \in ToSet(s.queue)
    /\ setup.needs[l] \subseteq s.done /\ l \notin s.done /\ l \notin Active(s)
    /\ \A n \in Models : l \notin ToSet(s.exec[n])

\* The first executable layer of a model may start (get_executable_tile).
LEMMA PopLayerSound ==
    ASSUME setup \in Setups, NEW s, NEW X, NEW W, Sound(setup, s, X, W),
           NEW m \in Models, s.exec[m] # <<>>
    PROVE  /\ Sound(setup, PopLayer(s, m), X, W)
           /\ Startable(PopLayer(s, m), m, Head(s.exec[m]))
           /\ Head(s.exec[m]) \notin Active(s)
           /\ Active(PopLayer(s, m)) = Active(s)
           /\ PopLayer(s, m).queue = s.queue /\ PopLayer(s, m).execQ = s.execQ
           /\ PopLayer(s, m).coreQ = s.coreQ
<1> DEFINE q == s.exec[m]
           l == Head(q)
           r == PopLayer(s, m)
<1>1. q \in Distinct(Layers) /\ q # <<>> BY DEF Sound, Typed
<1>2. l \in ToSet(q) /\ l \in Layers BY <1>1, MembersOf DEF Distinct
<1>3. Tail(q) \in Distinct(Layers) /\ ToSet(Tail(q)) = ToSet(q) \ {l} BY <1>1, DistinctTail
<1>4. r = [s EXCEPT !.exec[m] = Tail(@)] BY DEF PopLayer
<1> HIDE DEF l, r
<1>5. /\ r = [f \in SchedFields |-> r[f]] /\ r.exec = [s.exec EXCEPT ![m] = Tail(q)]
      /\ r.queue = s.queue /\ r.execQ = s.execQ /\ r.coreQ = s.coreQ
      /\ r.done = s.done /\ r.active = s.active /\ r.rr = s.rr
      /\ r.nrLayer = s.nrLayer /\ r.reqRr = s.reqRr /\ r.passes = s.passes /\ r.again = s.again
  BY <1>4 DEF Sound, Typed, SchedFields
<1>6. s.exec \in [Models -> Distinct(Layers)] BY DEF Sound, Typed
<1>7. /\ ToSet(r.exec[m]) = ToSet(s.exec[m]) \ {l}
      /\ \A n \in Models : ToSet(r.exec[n]) \subseteq ToSet(s.exec[n])
  BY <1>3, <1>5, <1>6
<1> HIDE DEF q
<1>8. Typed(setup, r)
  <2>1. r.exec \in [Models -> Distinct(Layers)] BY <1>3, <1>5, <1>6
  <2> QED BY <1>5, <2>1 DEF Sound, Typed
<1>9. Apart(r, X) BY <1>5 DEF Sound, Apart
<1>10. Flying(r, X) = Flying(s, X)
  <2>1. r.execQ = s.execQ /\ r.coreQ = s.coreQ BY <1>5
  <2> QED BY <2>1, Zenon DEF Flying
<1>11. Counted(r, X)
  <2>1. X \subseteq Tile BY DEF Sound, Counted
  <2> QED BY <1>5, <1>10, <2>1, SameFlight DEF Sound
<1>12. Active(r) = Active(s) BY <1>5 DEF Active
<1>13. Ordered(setup, r) BY <1>5, <1>7, <1>12 DEF Sound, Ordered
<1>14. Outside(r, W) BY <1>5 DEF Sound, Outside
<1>15. PolicyOwn(setup, r) BY <1>5, <1>12 DEF Sound, PolicyOwn
<1>16. l \in ToSet(s.exec[m]) BY <1>2 DEF q
<1>17. /\ ModelOf[l] = m /\ m \in ToSet(s.queue) /\ setup.needs[l] \subseteq s.done
       /\ l \notin s.done /\ l \notin Active(s)
  BY <1>16 DEF Sound, Ordered
<1>18. \A n \in Models : l \notin ToSet(r.exec[n])
  <2>1. \A n \in Models : l \in ToSet(s.exec[n]) => n = m BY <1>17 DEF Sound, Ordered
  <2> QED BY <1>7, <2>1
<1>19. Startable(r, m, l) BY <1>2, <1>5, <1>12, <1>17, <1>18 DEF Startable
<1> QED
  BY <1>5, <1>8, <1>9, <1>11, <1>12, <1>13, <1>14, <1>15, <1>17, <1>19 DEF Sound, r, l, q

\* The tiles of a layer: as many as it has, all different.
LEMMA TilesOfLayer ==
    ASSUME NEW l \in Layers
    PROVE  /\ TilesOf(l) \in Distinct(Tile) /\ Len(TilesOf(l)) \in Nat \ {0}
           /\ \A t \in ToSet(TilesOf(l)) : t \in Tile /\ t.layer = l
<1> DEFINE n == Len(TileCores[l])
<1>1. TileCores[l] \in Seq(Nat \cup {-1}) /\ TileCores[l] # <<>> BY TileSchedulerAssumption
<1>2. n \in Nat \ {0} /\ DOMAIN TileCores[l] = 1 .. n BY <1>1, LenProperties, EmptySeq
<1>3. TilesOf(l) = [i \in 1 .. n |-> [layer |-> l, n |-> i]] BY <1>2 DEF TilesOf
<1>4. \A i \in 1 .. n : [layer |-> l, n |-> i] \in Tile BY <1>2 DEF Tile
<1> HIDE DEF n
<1>5. TilesOf(l) \in Seq(Tile) /\ Len(TilesOf(l)) = n
  <2>1. TilesOf(l) \in [1 .. n -> Tile] BY <1>3, <1>4
  <2> QED BY <1>2, <2>1
<1>6. IsInjective(TilesOf(l)) BY <1>3 DEF IsInjective
<1>7. \A t \in ToSet(TilesOf(l)) : t \in Tile /\ t.layer = l BY <1>3, <1>4 DEF ToSet
<1> QED BY <1>2, <1>5, <1>6, <1>7 DEF Distinct

\* A layer that may start is not active before; its tiles are new, and with
\* them in the empty queue it counts exactly them (refresh_status).
LEMMA EnqueueSound ==
    ASSUME setup \in Setups, NEW s, NEW X, NEW W, Sound(setup, s, X, W),
           NEW m, NEW l, Startable(s, m, l),
           NEW key \in Keys(setup), s.execQ[key] = <<>>,
           Policy = "simple" => Active(s) = {} /\ m = Head(s.queue),
           Policy = "spatial_split" => key = m
    PROVE  Sound(setup, Enqueue(s, m, l, key), X, W)
<1> DEFINE q == TilesOf(l)
           r == Enqueue(s, m, l, key)
<1>1. /\ l \in Layers /\ m \in Models /\ ModelOf[l] = m /\ m \in ToSet(s.queue)
      /\ setup.needs[l] \subseteq s.done /\ l \notin s.done /\ l \notin Active(s)
      /\ \A n \in Models : l \notin ToSet(s.exec[n])
  BY DEF Startable
<1>2. /\ q \in Distinct(Tile) /\ Len(q) \in Nat \ {0}
      /\ \A t \in ToSet(q) : t \in Tile /\ t.layer = l
  BY <1>1, TilesOfLayer
<1>3. <<>> \o q = q BY <1>2, ConcatEmptySeq DEF Distinct
<1>4. r = [s EXCEPT !.execQ[key] = q, !.nrLayer = @ + 1, !.active[l] = [req |-> m, remain |-> Len(q)]]
  BY <1>3 DEF Enqueue
<1> HIDE DEF q, r
<1>5. /\ r = [f \in SchedFields |-> r[f]] /\ r.execQ = [s.execQ EXCEPT ![key] = q]
      /\ r.active = [s.active EXCEPT ![l] = [req |-> m, remain |-> Len(q)]]
      /\ r.nrLayer = s.nrLayer + 1
      /\ r.queue = s.queue /\ r.exec = s.exec /\ r.coreQ = s.coreQ
      /\ r.done = s.done /\ r.rr = s.rr
      /\ r.reqRr = s.reqRr /\ r.passes = s.passes /\ r.again = s.again
  BY <1>4 DEF Sound, Typed, SchedFields
<1>6. s.execQ \in [Keys(setup) -> Distinct(Tile)] /\ s.active \in [Layers -> Stat]
  BY DEF Sound, Typed
<1>7. /\ DOMAIN r.execQ = Keys(setup) /\ DOMAIN s.execQ = Keys(setup)
      /\ r.execQ[key] = q /\ \A k \in Keys(setup) \ {key} : r.execQ[k] = s.execQ[k]
      /\ ToSet(s.execQ[key]) = {}
  <2>1. ToSet(s.execQ[key]) = {} BY DEF ToSet
  <2> QED BY <1>5, <1>6, <2>1
<1>8. Typed(setup, r)
  <2>1. r.execQ \in [Keys(setup) -> Distinct(Tile)] BY <1>2, <1>5, <1>6
  <2>2. [req |-> m, remain |-> Len(q)] \in Stat BY <1>1, <1>2 DEF Stat
  <2>3. r.active \in [Layers -> Stat] BY <1>5, <1>6, <2>2
  <2>4. r.nrLayer \in Nat BY <1>5 DEF Sound, Typed
  <2> QED BY <1>5, <2>1, <2>3, <2>4 DEF Sound, Typed
<1>9. FlyingOf(s, X, l) = {} /\ \A t \in ToSet(q) : t \notin Flying(s, X)
  <2>1. \A t \in Flying(s, X) : t.layer # l BY <1>1, FlyingActive DEF Sound
  <2> QED BY <1>2, <2>1 DEF FlyingOf
<1>10. Apart(r, X)
  <2>1. \A t \in ToSet(q) : /\ t \notin X
                            /\ \A k \in Keys(setup) : t \notin ToSet(s.execQ[k])
                            /\ \A c \in Cores : t \notin ToSet(s.coreQ[c])
    BY <1>7, <1>9, InFlying
  <2>2. Apart(s, X) /\ r.coreQ = s.coreQ BY <1>5 DEF Sound
  <2>3. \A k, j \in Keys(setup) : k # j =>
          \A x \in ToSet(r.execQ[k]) : x \notin ToSet(r.execQ[j])
    BY <1>7, <2>1, <2>2 DEF Apart
  <2>4. \A k \in Keys(setup), d \in Cores :
          \A x \in ToSet(r.execQ[k]) : x \notin ToSet(r.coreQ[d])
    BY <1>7, <2>1, <2>2 DEF Apart
  <2>5. \A k \in Keys(setup) : \A x \in ToSet(r.execQ[k]) : x \notin X
    BY <1>7, <2>1, <2>2 DEF Apart
  <2> QED BY <1>7, <2>2, <2>3, <2>4, <2>5 DEF Apart
<1>11. Flying(r, X) = Flying(s, X) \cup ToSet(q)
  <2> SUFFICES ASSUME NEW x PROVE x \in Flying(r, X) <=> x \in Flying(s, X) \cup ToSet(q) OBVIOUS
  <2>1. x \in Flying(r, X) <=> \/ x \in X
                               \/ \E k \in Keys(setup) : x \in ToSet(r.execQ[k])
                               \/ \E d \in Cores : x \in ToSet(r.coreQ[d])
    BY <1>7, InFlying
  <2>2. x \in Flying(s, X) <=> \/ x \in X
                               \/ \E k \in Keys(setup) : x \in ToSet(s.execQ[k])
                               \/ \E d \in Cores : x \in ToSet(s.coreQ[d])
    BY <1>7, InFlying
  <2>3. (\E k \in Keys(setup) : x \in ToSet(r.execQ[k]))
        <=> x \in ToSet(q) \/ \E k \in Keys(setup) : x \in ToSet(s.execQ[k])
    BY <1>7
  <2>4. r.coreQ = s.coreQ BY <1>5
  <2> QED BY <2>1, <2>2, <2>3, <2>4
<1>12. Counted(r, X)
  <2>1. IsFiniteSet(ToSet(q)) /\ Cardinality(ToSet(q)) = Len(q) BY <1>2, DistinctCount
  <2>2. X \subseteq Tile /\ IsFiniteSet(Flying(s, X)) BY DEF Sound, Counted
  <2>3. IsFiniteSet(Flying(r, X)) BY <1>11, <2>1, <2>2, FS_Union
  <2>4. FlyingOf(r, X, l) = ToSet(q) BY <1>2, <1>9, <1>11 DEF FlyingOf
  <2>5. \A k \in Layers \ {l} : FlyingOf(r, X, k) = FlyingOf(s, X, k)
    BY <1>2, <1>11 DEF FlyingOf
  <2>6. ASSUME NEW k \in Layers PROVE r.active[k].remain = Cardinality(FlyingOf(r, X, k))
    <3>1. CASE k = l BY <3>1, <1>5, <1>6, <2>1, <2>4
    <3>2. CASE k # l
      <4>1. r.active[k] = s.active[k] BY <3>2, <1>5, <1>6
      <4>2. s.active[k].remain = Cardinality(FlyingOf(s, X, k)) BY DEF Sound, Counted
      <4> QED BY <3>2, <4>1, <4>2, <2>5
    <3> QED BY <3>1, <3>2
  <2> QED BY <2>2, <2>3, <2>6 DEF Counted
<1>13. Active(r) = Active(s) \cup {l}
  <2>1. [req |-> m, remain |-> Len(q)] # NoStat BY <1>2 DEF NoStat
  <2> QED BY <1>1, <1>5, <1>6, <2>1 DEF Active
<1>14. Ordered(setup, r)
  <2>1. Ordered(setup, s) BY DEF Sound
  <2>2. ASSUME NEW n \in Models, NEW k \in ToSet(r.exec[n])
        PROVE  /\ ModelOf[k] = n /\ n \in ToSet(r.queue)
               /\ setup.needs[k] \subseteq r.done /\ k \notin r.done /\ k \notin Active(r)
    BY <1>1, <1>5, <1>13, <2>1 DEF Ordered
  <2>3. ASSUME NEW k \in Active(r)
        PROVE  ModelOf[k] \in ToSet(r.queue) /\ setup.needs[k] \subseteq r.done /\ k \notin r.done
    BY <1>1, <1>5, <1>13, <2>1 DEF Ordered
  <2>4. \A k \in r.done : setup.needs[k] \subseteq r.done BY <1>5, <2>1 DEF Ordered
  <2> QED BY <2>2, <2>3, <2>4 DEF Ordered
<1>15. Outside(r, W) BY <1>5 DEF Sound, Outside
<1>16. PolicyOwn(setup, r)
  <2>1. PolicyOwn(setup, s) BY DEF Sound
  <2>2. ASSUME setup.policy = "simple", NEW k \in Active(r)
        PROVE  r.queue # <<>> /\ ModelOf[k] = Head(r.queue)
    <3>1. k = l /\ m = Head(s.queue) BY <2>2, <1>13 DEF Policy
    <3>2. s.queue # <<>> BY <1>1 DEF ToSet
    <3> QED BY <1>1, <1>5, <3>1, <3>2
  <2>3. ASSUME setup.policy = "spatial_split", NEW n \in Models, NEW t \in ToSet(r.execQ[n])
        PROVE  ModelOf[t.layer] = n
    <3>1. Keys(setup) = Models /\ key = m BY <2>3 DEF Keys, Policy
    <3>2. CASE n = m BY <3>1, <3>2, <1>1, <1>2, <1>7, <2>3
    <3>3. CASE n # m BY <3>1, <3>3, <1>7, <2>1, <2>3 DEF PolicyOwn
    <3> QED BY <3>2, <3>3
  <2> QED BY <2>2, <2>3 DEF PolicyOwn
<1> QED BY <1>8, <1>10, <1>12, <1>14, <1>15, <1>16 DEF Sound, r
-----------------------------------------------------------------------------
(* Models leave.                                                           *)

\* A finished model leaves with nothing of it in the scheduler: its layers
\* are done, so none is executable or active (check_finish, erase,
\* prepare_regressive).
LEMMA RetireFinishedSound ==
    ASSUME setup \in Setups, NEW s, NEW X, NEW W, Sound(setup, s, X, W), W \subseteq Models,
           NEW m \in Models, Policy = "simple" => s.queue # <<>> /\ m = Head(s.queue)
    PROVE  Sound(setup, RetireFinished(s, m), X, W)
<1>1. CASE ~Finished(s, m) BY <1>1 DEF RetireFinished
<1>2. CASE Finished(s, m)
  <2> DEFINE r == Retire(s, m)
             q == RemoveFirst(s.queue, m)
             more == s.passes[m] > 1
             D == IF more THEN s.done \ LayersOf(m) ELSE s.done
  <2>1. RetireFinished(s, m) = r BY <1>2 DEF RetireFinished
  <2>2. q \in Distinct(Models) /\ ToSet(q) = ToSet(s.queue) \ {m}
    BY DistinctRemoveFirst DEF Sound, Typed
  <2>3. r = [s EXCEPT !.queue = q, !.passes = [s.passes EXCEPT ![m] = s.passes[m] - 1],
                      !.again = IF more THEN @ \cup {m} ELSE @,
                      !.done = IF more THEN @ \ LayersOf(m) ELSE @]
    BY DEF Retire
  <2> HIDE DEF r, q, more
  <2>4. /\ r = [f \in SchedFields |-> r[f]] /\ r.queue = q
        /\ r.passes = [s.passes EXCEPT ![m] = s.passes[m] - 1]
        /\ r.again = IF more THEN s.again \cup {m} ELSE s.again
        /\ r.done = D
        /\ r.execQ = s.execQ /\ r.coreQ = s.coreQ /\ r.exec = s.exec /\ r.active = s.active
        /\ r.rr = s.rr /\ r.nrLayer = s.nrLayer /\ r.reqRr = s.reqRr
    BY <2>3 DEF Sound, Typed, SchedFields
  <2>5. \A l \in Layers : ModelOf[l] = m => l \in s.done
    BY <1>2 DEF Finished, LayersOf
  <2>6. D \subseteq s.done /\ \A l \in s.done : ModelOf[l] # m => l \in D
    BY DEF LayersOf, Sound, Typed
  <2>7. more => \A l \in D : l \in Layers /\ ModelOf[l] # m BY DEF LayersOf, Sound, Typed
  <2>8. ~more => D = s.done OBVIOUS
  <2> HIDE DEF D
  <2>9. Typed(setup, r)
    <3>1. r.again \subseteq Models BY <2>4, ZenonT(30) DEF Sound, Typed
    <3>2. r.passes \in [Models -> Int]
      <4>1. s.passes \in [Models -> Int] BY DEF Sound, Typed
      <4>2. s.passes[m] - 1 \in Int BY <4>1
      <4> QED BY <2>4, <4>1, <4>2
    <3>3. r.done \subseteq Layers BY <2>4, <2>6 DEF Sound, Typed
    <3>4. r.queue \in Distinct(Models) BY <2>2, <2>4
    <3> QED BY <2>4, <3>1, <3>2, <3>3, <3>4 DEF Sound, Typed
  <2>10. Apart(r, X) BY <2>4 DEF Sound, Apart
  <2>11. Counted(r, X)
    <3>1. r.execQ = s.execQ /\ r.coreQ = s.coreQ /\ r.active = s.active BY <2>4
    <3>2. Flying(r, X) = Flying(s, X) BY <3>1, Zenon DEF Flying
    <3>3. X \subseteq Tile BY DEF Sound, Counted
    <3> QED BY <3>1, <3>2, <3>3, SameFlight DEF Sound
  <2>12. Active(r) = Active(s) /\ Active(s) \subseteq Layers BY <2>4 DEF Active
  <2>13. Ordered(setup, s) BY DEF Sound
  <2>14. ASSUME NEW l \in Layers, ModelOf[l] # m, setup.needs[l] \subseteq s.done
         PROVE  setup.needs[l] \subseteq r.done
    <3>1. setup.needs[l] \subseteq Layers /\ \A k \in setup.needs[l] : ModelOf[k] = ModelOf[l]
      BY SetupFacts DEF Needs
    <3> QED BY <2>4, <2>6, <2>14, <3>1
  <2>15. Ordered(setup, r)
    <3>1. ASSUME NEW n \in Models, NEW l \in ToSet(r.exec[n])
          PROVE  /\ ModelOf[l] = n /\ n \in ToSet(r.queue)
                 /\ setup.needs[l] \subseteq r.done /\ l \notin r.done /\ l \notin Active(r)
      <4>1. l \in ToSet(s.exec[n]) BY <2>4
      <4>2. /\ ModelOf[l] = n /\ n \in ToSet(s.queue)
            /\ setup.needs[l] \subseteq s.done /\ l \notin s.done /\ l \notin Active(s)
        BY <4>1, <2>13 DEF Ordered
      <4>3. l \in Layers BY <4>1, MembersOf DEF Sound, Typed, Distinct
      <4>4. n # m BY <2>5, <4>2, <4>3
      <4> QED BY <2>2, <2>4, <2>6, <2>12, <2>14, <4>2, <4>3, <4>4
    <3>2. ASSUME NEW l \in Active(r)
          PROVE  ModelOf[l] \in ToSet(r.queue) /\ setup.needs[l] \subseteq r.done /\ l \notin r.done
      <4>1. l \in Active(s) /\ l \in Layers BY <2>12
      <4>2. ModelOf[l] \in ToSet(s.queue) /\ setup.needs[l] \subseteq s.done /\ l \notin s.done
        BY <4>1, <2>13 DEF Ordered
      <4>3. ModelOf[l] # m BY <2>5, <4>1, <4>2
      <4> QED BY <2>2, <2>4, <2>6, <2>14, <4>1, <4>2, <4>3
    <3>3. ASSUME NEW l \in r.done PROVE setup.needs[l] \subseteq r.done
      <4>1. l \in s.done /\ l \in Layers /\ setup.needs[l] \subseteq s.done
        BY <2>4, <2>6, <2>13 DEF Ordered, Sound, Typed
      <4>2. CASE more BY <4>1, <4>2, <2>4, <2>7, <2>14
      <4>3. CASE ~more BY <4>1, <4>3, <2>4, <2>8
      <4> QED BY <4>2, <4>3
    <3> QED BY <3>1, <3>2, <3>3 DEF Ordered
  <2>16. Outside(r, W)
    <3>1. Outside(s, W) BY DEF Sound
    <3>2. m \notin W
      <4>1. PICK l \in Layers : ModelOf[l] = m BY TileSchedulerAssumption
      <4>2. l \in LayersOf(m) \cap s.done BY <4>1, <2>5 DEF LayersOf
      <4> QED BY <3>1, <4>2 DEF Outside
    <3>3. W \cap r.again = {} BY <2>4, <3>1, <3>2 DEF Outside
    <3>4. ASSUME NEW n \in W \cup r.again
          PROVE  n \notin ToSet(r.queue) /\ LayersOf(n) \cap r.done = {}
      <4>1. CASE n \in W \cup s.again BY <4>1, <2>2, <2>4, <2>6, <3>1 DEF Outside
      <4>2. CASE n = m /\ more BY <4>2, <2>2, <2>4, <2>7 DEF LayersOf
      <4> QED BY <3>4, <2>4, <4>1, <4>2
    <3> QED BY <3>3, <3>4 DEF Outside
  <2>17. PolicyOwn(setup, r)
    <3>1. PolicyOwn(setup, s) BY DEF Sound
    <3>2. ASSUME setup.policy = "simple" PROVE Active(s) = {}
      <4>1. m = Head(s.queue) BY <3>2 DEF Policy
      <4>2. \A l \in Active(s) : ModelOf[l] = m BY <3>1, <3>2, <4>1 DEF PolicyOwn
      <4>3. \A l \in Active(s) : l \notin s.done BY <2>13 DEF Ordered
      <4> QED BY <2>5, <2>12, <4>2, <4>3
    <3> QED BY <2>4, <2>12, <3>1, <3>2 DEF PolicyOwn
  <2> QED BY <2>1, <2>9, <2>10, <2>11, <2>15, <2>16, <2>17 DEF Sound
<1> QED BY <1>1, <1>2

\* Every model in the queue that has finished leaves (the loop of
\* refresh_status over the requests).
LEMMA RetireAllSound ==
    ASSUME setup \in Setups, NEW s, NEW X, NEW W, Sound(setup, s, X, W), W \subseteq Models,
           Policy # "simple"
    PROVE  Sound(setup, RetireAll(s), X, W)
<1> DEFINE N == Len(s.queue)
           F(x, n) == RetireFinished(x, s.queue[n])
           Upto(v, j) == v = [n \in 0 .. j |-> IF n = 0 THEN s ELSE F(v[n - 1], n)]
           G == CHOOSE g : Upto(g, N)
           P == {j \in Nat : \E v : Upto(v, j)}
           Q == {j \in Nat : j <= N => Sound(setup, G[j], X, W)}
<1>1. s.queue \in Seq(Models) /\ N \in Nat
  <2>1. s.queue \in Seq(Models) BY DEF Sound, Typed, Distinct
  <2> QED BY <2>1, LenProperties
<1>2. RetireAll(s) = G[N] BY DEF RetireAll
<1> HIDE DEF F
<1>3. \E g : Upto(g, N)
  <2>1. 0 \in P
    <3> DEFINE v == [n \in 0 .. 0 |-> s]
    <3>1. Upto(v, 0) OBVIOUS
    <3> QED BY <3>1
  <2>2. ASSUME NEW j \in P PROVE j + 1 \in P
    <3>1. PICK v : Upto(v, j) OBVIOUS
    <3> DEFINE w == [n \in 0 .. j + 1 |-> IF n <= j THEN v[n] ELSE F(v[j], j + 1)]
    <3>2. \A n \in 0 .. j + 1 : w[n] = IF n = 0 THEN s ELSE F(w[n - 1], n)
      <4> TAKE n \in 0 .. j + 1
      <4>1. CASE n = 0 BY <4>1, <3>1
      <4>2. CASE n \in 1 .. j BY <4>2, <3>1
      <4>3. CASE n = j + 1 BY <4>3
      <4> QED BY <4>1, <4>2, <4>3
    <3>3. Upto(w, j + 1) BY <3>2
    <3>4. j + 1 \in Nat OBVIOUS
    <3> HIDE DEF w, Upto
    <3> QED BY <3>3, <3>4
  <2> HIDE DEF P
  <2>3. N \in P BY <1>1, <2>1, <2>2, NatSetInduction
  <2> QED BY <2>3 DEF P
<1>4. Upto(G, N) BY <1>3
<1> HIDE DEF G
<1>5. G[0] = s /\ \A n \in 1 .. N : G[n] = F(G[n - 1], n)
  <2>1. \A n \in 0 .. N : G[n] = IF n = 0 THEN s ELSE F(G[n - 1], n) BY <1>4
  <2>2. 0 \in 0 .. N /\ \A n \in 1 .. N : n \in 0 .. N /\ n # 0 BY <1>1
  <2> QED BY <2>1, <2>2
<1>6. 0 \in Q BY <1>5
<1>7. ASSUME NEW j \in Q PROVE j + 1 \in Q
  <2> SUFFICES ASSUME j + 1 <= N PROVE Sound(setup, G[j + 1], X, W) OBVIOUS
  <2>1. Sound(setup, G[j], X, W) BY <1>1
  <2>2. j + 1 \in 1 .. N /\ s.queue[j + 1] \in Models BY <1>1
  <2>3. G[j + 1] = RetireFinished(G[j], s.queue[j + 1]) BY <1>5, <2>2 DEF F
  <2> QED BY <2>1, <2>2, <2>3, RetireFinishedSound
<1> HIDE DEF Q
<1>8. N \in Q BY <1>1, <1>6, <1>7, NatSetInduction
<1> QED BY <1>2, <1>8, <1>1 DEF Q
-----------------------------------------------------------------------------
(* refresh_status.                                                         *)

\* The recursive function of ById, on a set that has members.
LEMMA ByIdOfSome ==
    ASSUME NEW S \in SUBSET Nat, IsFiniteSet(S), S # {}
    PROVE  ById(S) \in Distinct(S) /\ ToSet(ById(S)) = S
<1> DEFINE N == Max(S) + 1
           F(x, n) == IF n - 1 \in S THEN Append(x, n - 1) ELSE x
           Upto(v, j) == v = [n \in 0 .. j |-> IF n = 0 THEN <<>> ELSE F(v[n - 1], n)]
           G == CHOOSE g : Upto(g, N)
           P == {j \in Nat : \E v : Upto(v, j)}
           Inv(j) == G[j] \in Distinct(S) /\ ToSet(G[j]) = {x \in S : x < j}
           Q == {j \in Nat : j <= N => Inv(j)}
<1>1. N \in Nat /\ \A x \in S : x < N
  <2>1. PICK n \in S : \A y \in S : y <= n BY GreatestIs
  <2>2. n \in Nat OBVIOUS
  <2>3. Max(S) \in S /\ \A y \in S : Max(S) >= y BY <2>1, <2>2, MaxIs
  <2> DEFINE top == Max(S)
  <2>4. top \in Nat /\ \A y \in S : y \in Nat /\ top >= y BY <2>3
  <2> HIDE DEF top
  <2>5. top + 1 \in Nat /\ \A y \in S : y < top + 1 BY <2>4
  <2> QED BY <2>5 DEF top
<1>2. ById(S) = G[N] BY DEF ById
<1> HIDE DEF N, F
<1>3. \E g : Upto(g, N)
  <2>1. 0 \in P
    <3> DEFINE v == [n \in 0 .. 0 |-> <<>>]
    <3>1. Upto(v, 0) OBVIOUS
    <3> QED BY <3>1
  <2>2. ASSUME NEW j \in P PROVE j + 1 \in P
    <3>1. PICK v : Upto(v, j) OBVIOUS
    <3> DEFINE w == [n \in 0 .. j + 1 |-> IF n <= j THEN v[n] ELSE F(v[j], j + 1)]
    <3>2. \A n \in 0 .. j + 1 : w[n] = IF n = 0 THEN <<>> ELSE F(w[n - 1], n)
      <4> TAKE n \in 0 .. j + 1
      <4>1. CASE n = 0 BY <4>1, <3>1
      <4>2. CASE n \in 1 .. j BY <4>2, <3>1
      <4>3. CASE n = j + 1 BY <4>3
      <4> QED BY <4>1, <4>2, <4>3
    <3>3. Upto(w, j + 1) BY <3>2
    <3>4. j + 1 \in Nat OBVIOUS
    <3> HIDE DEF w, Upto
    <3> QED BY <3>3, <3>4
  <2> HIDE DEF P
  <2>3. N \in P BY <1>1, <2>1, <2>2, NatSetInduction
  <2> QED BY <2>3 DEF P
<1>4. Upto(G, N) BY <1>3
<1> HIDE DEF G
<1>5. G[0] = <<>> /\ \A n \in 1 .. N : G[n] = F(G[n - 1], n)
  <2>1. \A n \in 0 .. N : G[n] = IF n = 0 THEN <<>> ELSE F(G[n - 1], n) BY <1>4
  <2>2. 0 \in 0 .. N /\ \A n \in 1 .. N : n \in 0 .. N /\ n # 0 BY <1>1
  <2> QED BY <2>1, <2>2
<1>6. 0 \in Q
  <2>1. <<>> \in Distinct(S) BY DEF Distinct, IsInjective
  <2>2. ToSet(<<>>) = {} BY DEF ToSet
  <2>3. {x \in S : x < 0} = {}
    <3>1. \A x \in S : ~(x < 0) OBVIOUS
    <3> QED BY <3>1, Zenon
  <2>4. Inv(0) BY <1>5, <2>1, <2>2, <2>3
  <2> QED BY <2>4
<1>7. ASSUME NEW j \in Q PROVE j + 1 \in Q
  <2> SUFFICES ASSUME j + 1 <= N PROVE Inv(j + 1) OBVIOUS
  <2>1. Inv(j) BY <1>1
  <2>2. G[j + 1] = IF j \in S THEN Append(G[j], j) ELSE G[j]
    <3>1. j + 1 \in 1 .. N /\ (j + 1) - 1 = j BY <1>1
    <3>2. G[j + 1] = F(G[j], j + 1) BY <1>5, <3>1
    <3> QED BY <3>1, <3>2 DEF F
  <2>3. {x \in S : x < j + 1} = IF j \in S THEN {x \in S : x < j} \cup {j} ELSE {x \in S : x < j}
    <3>1. \A x \in S : x < j + 1 <=> x < j \/ x = j OBVIOUS
    <3> QED BY <3>1
  <2>4. CASE j \in S
    <3>1. j \notin ToSet(G[j]) BY <2>1
    <3>2. Append(G[j], j) \in Distinct(S) /\ ToSet(Append(G[j], j)) = ToSet(G[j]) \cup {j}
      BY <2>1, <2>4, <3>1, DistinctAppend
    <3> QED BY <2>1, <2>2, <2>3, <2>4, <3>2
  <2>5. CASE j \notin S BY <2>1, <2>2, <2>3, <2>5
  <2> QED BY <2>4, <2>5
<1> HIDE DEF Q
<1>8. N \in Q BY <1>1, <1>6, <1>7, NatSetInduction
<1>9. ToSet(G[N]) = S /\ G[N] \in Distinct(S)
  <2>1. Inv(N) BY <1>1, <1>8 DEF Q
  <2>2. {x \in S : x < N} = S BY <1>1
  <2> QED BY <2>1, <2>2
<1> QED BY <1>2, <1>9

\* The sequence of the members of a finite set of ids.
LEMMA ByIdIs ==
    ASSUME NEW S \in SUBSET Nat, IsFiniteSet(S)
    PROVE  ById(S) \in Distinct(S) /\ ToSet(ById(S)) = S
<1>1. CASE S = {}
  <2>1. ById(S) = <<>> BY <1>1 DEF ById
  <2>2. <<>> \in Distinct(S) BY DEF Distinct, IsInjective
  <2>3. ToSet(<<>>) = {} BY DEF ToSet
  <2> QED BY <1>1, <2>1, <2>2, <2>3
<1>2. CASE S # {}
  <2> QED BY <1>2, ByIdOfSome
<1> QED BY <1>1, <1>2

\* The cores of a partition that has one, and all cores.
LEMMA SomeCores ==
    ASSUME setup \in Setups
    PROVE  /\ AllCores \in Seq(Cores) /\ AllCores # <<>>
           /\ \A c \in Cores : /\ PartitionCores(PartitionOf[c]) \in Seq(Cores)
                               /\ PartitionCores(PartitionOf[c]) # <<>>
                               /\ PlaceOf(c) \in Nat
<1>1. CoreCount \in Nat \ {0} BY TileSchedulerAssumption
<1>2. AllCores \in Seq(Cores) /\ AllCores # <<>>
  <2>1. AllCores \in [1 .. CoreCount -> Cores] BY <1>1 DEF AllCores, Cores
  <2>2. AllCores[1] \in Cores /\ DOMAIN AllCores = 1 .. CoreCount BY <1>1, <2>1
  <2> QED BY <1>1, <2>1, <2>2
<1>3. ASSUME NEW c \in Cores
      PROVE  /\ PartitionCores(PartitionOf[c]) \in Seq(Cores)
             /\ PartitionCores(PartitionOf[c]) # <<>>
             /\ PlaceOf(c) \in Nat
  <2> DEFINE S == {d \in Cores : PartitionOf[d] = PartitionOf[c]}
  <2>1. IsFiniteSet(Cores) /\ Cores \subseteq Nat BY <1>1, FS_Interval DEF Cores
  <2>2. S \in SUBSET Nat /\ IsFiniteSet(S) /\ c \in S BY <2>1, FS_Subset
  <2>3. PartitionCores(PartitionOf[c]) = ById(S) BY DEF PartitionCores
  <2>4. ById(S) \in Distinct(S) /\ ToSet(ById(S)) = S BY <2>2, ByIdIs
  <2> HIDE DEF S
  <2>5. ById(S) \in Seq(S) /\ ById(S) # <<>> BY <2>2, <2>4 DEF Distinct, ToSet
  <2>6. Seq(S) \subseteq Seq(Cores)
    <3>1. S \subseteq Cores BY DEF S
    <3> QED BY <3>1
  <2>7. PlaceOf(c) \in Nat
    <3>1. c \in Nat BY <2>1
    <3>2. IsFiniteSet(0 .. c - 1) BY <3>1, FS_Interval
    <3>3. IsFiniteSet({d \in 0 .. c - 1 : PartitionOf[d] = PartitionOf[c]}) BY <3>2, FS_Subset
    <3> QED BY <3>3, FS_CardinalityType DEF PlaceOf
  <2> QED BY <2>3, <2>5, <2>6, <2>7
<1> QED BY <1>2, <1>3

\* The next layer of a model is started: its tiles are queued.
LEMMA StartSound ==
    ASSUME setup \in Setups, NEW s, NEW X, NEW W, Sound(setup, s, X, W),
           NEW m \in Models, s.exec[m] # <<>>, NEW key \in Keys(setup), s.execQ[key] = <<>>,
           Policy = "simple" => Active(s) = {} /\ m = Head(s.queue),
           Policy = "spatial_split" => key = m
    PROVE  Sound(setup, Enqueue(PopLayer(s, m), m, Head(s.exec[m]), key), X, W)
<1> DEFINE r == PopLayer(s, m)
           l == Head(s.exec[m])
<1>1. /\ Sound(setup, r, X, W) /\ Startable(r, m, l) /\ Active(r) = Active(s)
      /\ r.queue = s.queue /\ r.execQ = s.execQ
  BY PopLayerSound
<1> HIDE DEF r, l
<1>2. /\ r.execQ[key] = <<>> /\ (Policy = "simple" => Active(r) = {} /\ m = Head(r.queue))
  BY <1>1
<1>3. Sound(setup, Enqueue(r, m, l, key), X, W) BY <1>1, <1>2, EnqueueSound
<1> QED BY <1>3 DEF r, l

\* Scheduler::refresh_status
LEMMA RefreshSimpleSound ==
    ASSUME setup \in Setups, NEW s0, NEW X, NEW W, Sound(setup, s0, X, W), W \subseteq Models,
           Policy = "simple"
    PROVE  Sound(setup, RefreshSimple(s0), X, W)
<1> DEFINE s == IF s0.queue = <<>> THEN s0 ELSE RetireFinished(s0, Head(s0.queue))
           m == Head(s.queue)
           r == Enqueue(PopLayer(s, m), m, Head(s.exec[m]), 0)
<1>1. Sound(setup, s, X, W)
  <2>1. CASE s0.queue = <<>> BY <2>1
  <2>2. CASE s0.queue # <<>>
    <3>1. Head(s0.queue) \in Models BY <2>2 DEF Sound, Typed, Distinct
    <3>2. Sound(setup, RetireFinished(s0, Head(s0.queue)), X, W) BY <2>2, <3>1, RetireFinishedSound
    <3> QED BY <2>2, <3>2
  <2> QED BY <2>1, <2>2
<1>2. RefreshSimple(s0) =
        IF s.queue # <<>> /\ TileQueueEmpty(s) /\ s.execQ[0] = <<>> /\ Active(s) = {} /\ s.exec[m] # <<>>
        THEN IssueTiles(r, 0, AllCores, 0) ELSE s
  BY DEF RefreshSimple
<1> HIDE DEF s
<1>3. ASSUME s.queue # <<>>, s.execQ[0] = <<>>, Active(s) = {}, s.exec[m] # <<>>
      PROVE  Sound(setup, IssueTiles(r, 0, AllCores, 0), X, W)
  <2>1. m \in Models BY <1>1, <1>3 DEF Sound, Typed, Distinct
  <2>2. 0 \in Keys(setup) BY SetupFacts
  <2>3. Sound(setup, r, X, W) BY <1>1, <1>3, <2>1, <2>2, StartSound
  <2> HIDE DEF r
  <2> QED BY <2>2, <2>3, SomeCores, IssueTilesSound
<1> HIDE DEF r
<1> QED BY <1>1, <1>2, <1>3

\* TimeMultiplexScheduler::refresh_status
LEMMA RefreshMultiplexSound ==
    ASSUME setup \in Setups, NEW s0, NEW X, NEW W, Sound(setup, s0, X, W), W \subseteq Models,
           Policy = "time_multiplex"
    PROVE  Sound(setup, RefreshMultiplex(s0), X, W)
<1> DEFINE s == RetireAll(s0)
           rr == (s.reqRr + 1) % Len(s.queue)
           m == s.queue[rr + 1]
           t == [s EXCEPT !.reqRr = rr]
           p == PopLayer(t, m)
           r == Enqueue(PopLayer(t, m), m, Head(s.exec[m]), 0)
<1>1. Sound(setup, s, X, W) BY RetireAllSound
<1>2. RefreshMultiplex(s0) =
        IF s.queue = <<>> \/ ~TileQueueEmpty(s) \/ s.execQ[0] # <<>> THEN s
        ELSE IF s.exec[m] = <<>> THEN t
        ELSE IF Head(s.exec[m]) \in Active(s) THEN p
        ELSE IssueTiles(r, 0, AllCores, 0)
  BY DEF RefreshMultiplex
<1> HIDE DEF s, rr
<1>3. ASSUME s.queue # <<>>, s.execQ[0] = <<>>
      PROVE  /\ Sound(setup, t, X, W) /\ m \in Models
             /\ t.exec = s.exec /\ t.execQ = s.execQ
  <2>1. s.queue \in Seq(Models) /\ s.reqRr \in Nat BY <1>1 DEF Sound, Typed, Distinct
  <2>2. Len(s.queue) \in Nat \ {0} BY <1>3, <2>1, LenProperties, EmptySeq
  <2>3. rr \in 0 .. Len(s.queue) - 1 BY <2>1, <2>2 DEF rr
  <2>4. m \in Models BY <2>1, <2>2, <2>3
  <2>5. /\ t = [f \in SchedFields |-> t[f]] /\ t.reqRr = rr
        /\ t.queue = s.queue /\ t.exec = s.exec /\ t.done = s.done /\ t.active = s.active
        /\ t.execQ = s.execQ /\ t.coreQ = s.coreQ /\ t.rr = s.rr /\ t.nrLayer = s.nrLayer
        /\ t.passes = s.passes /\ t.again = s.again
    BY <1>1 DEF Sound, Typed, SchedFields
  <2> HIDE DEF t
  <2>6. Typed(setup, t)
    <3>1. rr \in Nat BY <2>2, <2>3
    <3> QED BY <1>1, <2>5, <3>1 DEF Sound, Typed
  <2>7. Apart(t, X) BY <1>1, <2>5 DEF Sound, Apart
  <2>8. Counted(t, X)
    <3>1. t.execQ = s.execQ /\ t.coreQ = s.coreQ /\ t.active = s.active BY <2>5
    <3>2. Flying(t, X) = Flying(s, X) BY <3>1, Zenon DEF Flying
    <3>3. X \subseteq Tile BY <1>1 DEF Sound, Counted
    <3> QED BY <1>1, <3>1, <3>2, <3>3, SameFlight DEF Sound
  <2>9. Ordered(setup, t) /\ Outside(t, W) /\ Active(t) = Active(s)
    BY <1>1, <2>5, SameGraph DEF Sound
  <2>10. PolicyOwn(setup, t) BY <1>1, <2>5, <2>9 DEF Sound, PolicyOwn
  <2> QED BY <2>4, <2>5, <2>6, <2>7, <2>8, <2>9, <2>10 DEF Sound
<1>4. ASSUME s.queue # <<>>, s.execQ[0] = <<>>, s.exec[m] # <<>>
      PROVE  Sound(setup, p, X, W) /\ Sound(setup, IssueTiles(r, 0, AllCores, 0), X, W)
  <2>1. /\ Sound(setup, t, X, W) /\ m \in Models
        /\ t.exec = s.exec /\ t.execQ = s.execQ
    BY <1>3, <1>4
  <2>2. 0 \in Keys(setup) BY SetupFacts
  <2>3. r = Enqueue(PopLayer(t, m), m, Head(t.exec[m]), 0) BY <2>1
  <2> HIDE DEF t, m, r
  <2>4. Sound(setup, r, X, W) BY <1>4, <2>1, <2>2, <2>3, StartSound
  <2>5. Sound(setup, p, X, W) BY <1>4, <2>1, PopLayerSound
  <2> QED BY <2>2, <2>4, <2>5, SomeCores, IssueTilesSound
<1> HIDE DEF t, m, p, r
<1> QED BY <1>1, <1>2, <1>3, <1>4

\* A core without tiles asks for a layer of its partition's first request.
LEMMA AskForCoreSound ==
    ASSUME setup \in Setups, NEW s, NEW X, NEW W, Sound(setup, s, X, W),
           Policy = "partition_cpu", NEW c \in Cores
    PROVE  Sound(setup, AskForCore(s, c), X, W)
<1> DEFINE p == PartitionOf[c]
           mine == {i \in DOMAIN s.queue : ModelPartition[s.queue[i]] = p}
           m == s.queue[Min(mine)]
           r == Enqueue(PopLayer(s, m), m, Head(s.exec[m]), p)
           q == IssueTiles(r, p, PartitionCores(p), PlaceOf(c))
<1>1. AskForCore(s, c) =
        IF s.coreQ[c] # <<>> \/ s.execQ[p] # <<>> \/ mine = {} THEN s
        ELSE IF s.exec[m] = <<>> THEN s
        ELSE IF Head(s.exec[m]) \in Active(s) THEN PopLayer(s, m)
        ELSE q
  BY DEF AskForCore
<1>2. p \in Keys(setup) BY SetupFacts
<1>3. ASSUME mine # {} PROVE m \in Models
  <2>1. s.queue \in Seq(Models) BY DEF Sound, Typed, Distinct
  <2>2. Len(s.queue) \in Nat /\ DOMAIN s.queue = 1 .. Len(s.queue) BY <2>1
  <2>3. mine \in SUBSET Nat BY <2>2
  <2>4. Min(mine) \in mine BY <1>3, <2>3, MinIs
  <2>5. Min(mine) \in DOMAIN s.queue BY <2>4
  <2> HIDE DEF mine
  <2> QED BY <2>1, <2>2, <2>5
<1> HIDE DEF mine, m
<1>4. ASSUME s.execQ[p] = <<>>, mine # {}, s.exec[m] # <<>>
      PROVE  Sound(setup, PopLayer(s, m), X, W) /\ Sound(setup, q, X, W)
  <2>1. Sound(setup, PopLayer(s, m), X, W) BY <1>3, <1>4, PopLayerSound
  <2>2. Sound(setup, r, X, W) BY <1>2, <1>3, <1>4, StartSound
  <2>3. /\ PartitionCores(p) \in Seq(Cores) /\ PartitionCores(p) # <<>>
        /\ PlaceOf(c) \in Nat
    BY SomeCores
  <2> HIDE DEF r, p
  <2>4. Sound(setup, q, X, W) BY <1>2, <2>2, <2>3, IssueTilesSound
  <2> QED BY <2>1, <2>4
<1> HIDE DEF p, q
<1> QED BY <1>1, <1>4

\* DedicatedCPUScheduler::refresh_status
LEMMA RefreshDedicatedSound ==
    ASSUME setup \in Setups, NEW s, NEW X, NEW W, Sound(setup, s, X, W), W \subseteq Models,
           Policy = "partition_cpu"
    PROVE  Sound(setup, RefreshDedicated(s), X, W)
<1> DEFINE N == CoreCount
           F(x, n) == AskForCore(x, n - 1)
           Upto(v, j) == v = [n \in 0 .. j |-> IF n = 0 THEN RetireAll(s) ELSE F(v[n - 1], n)]
           G == CHOOSE g : Upto(g, N)
           P == {j \in Nat : \E v : Upto(v, j)}
           Q == {j \in Nat : j <= N => Sound(setup, G[j], X, W)}
<1>1. N \in Nat BY TileSchedulerAssumption
<1>2. RefreshDedicated(s) = G[N] BY DEF RefreshDedicated
<1> HIDE DEF F
<1>3. \E g : Upto(g, N)
  <2>1. 0 \in P
    <3> DEFINE v == [n \in 0 .. 0 |-> RetireAll(s)]
    <3>1. Upto(v, 0) OBVIOUS
    <3> QED BY <3>1
  <2>2. ASSUME NEW j \in P PROVE j + 1 \in P
    <3>1. PICK v : Upto(v, j) OBVIOUS
    <3> DEFINE w == [n \in 0 .. j + 1 |-> IF n <= j THEN v[n] ELSE F(v[j], j + 1)]
    <3>2. \A n \in 0 .. j + 1 : w[n] = IF n = 0 THEN RetireAll(s) ELSE F(w[n - 1], n)
      <4> TAKE n \in 0 .. j + 1
      <4>1. CASE n = 0 BY <4>1, <3>1
      <4>2. CASE n \in 1 .. j BY <4>2, <3>1
      <4>3. CASE n = j + 1 BY <4>3
      <4> QED BY <4>1, <4>2, <4>3
    <3>3. Upto(w, j + 1) BY <3>2
    <3>4. j + 1 \in Nat OBVIOUS
    <3> HIDE DEF w, Upto
    <3> QED BY <3>3, <3>4
  <2> HIDE DEF P
  <2>3. N \in P BY <1>1, <2>1, <2>2, NatSetInduction
  <2> QED BY <2>3 DEF P
<1>4. Upto(G, N) BY <1>3
<1> HIDE DEF G
<1>5. G[0] = RetireAll(s) /\ \A n \in 1 .. N : G[n] = F(G[n - 1], n)
  <2>1. \A n \in 0 .. N : G[n] = IF n = 0 THEN RetireAll(s) ELSE F(G[n - 1], n) BY <1>4
  <2>2. 0 \in 0 .. N /\ \A n \in 1 .. N : n \in 0 .. N /\ n # 0 BY <1>1
  <2> QED BY <2>1, <2>2
<1>6. 0 \in Q BY <1>5, RetireAllSound
<1>7. ASSUME NEW j \in Q PROVE j + 1 \in Q
  <2> SUFFICES ASSUME j + 1 <= N PROVE Sound(setup, G[j + 1], X, W) OBVIOUS
  <2>1. Sound(setup, G[j], X, W) BY <1>1
  <2>2. j + 1 \in 1 .. N /\ (j + 1) - 1 = j BY <1>1
  <2>3. G[j + 1] = AskForCore(G[j], j) BY <1>5, <2>2 DEF F
  <2>4. j \in Cores BY <1>1 DEF Cores
  <2> QED BY <2>1, <2>3, <2>4, AskForCoreSound
<1> HIDE DEF Q
<1>8. N \in Q BY <1>1, <1>6, <1>7, NatSetInduction
<1> QED BY <1>2, <1>8, <1>1 DEF Q

\* A request without tiles gets a layer.
LEMMA AskForModelSound ==
    ASSUME setup \in Setups, NEW s, NEW X, NEW W, Sound(setup, s, X, W),
           Policy = "spatial_split", NEW m \in Models
    PROVE  Sound(setup, AskForModel(s, m), X, W)
<1> DEFINE r == Enqueue(PopLayer(s, m), m, Head(s.exec[m]), m)
<1>1. AskForModel(s, m) =
        IF s.execQ[m] # <<>> \/ s.exec[m] = <<>> THEN s
        ELSE IF Head(s.exec[m]) \in Active(s) THEN PopLayer(s, m) ELSE r
  BY DEF AskForModel
<1>2. m \in Keys(setup) BY SetupFacts
<1>3. ASSUME s.execQ[m] = <<>>, s.exec[m] # <<>>
      PROVE  Sound(setup, PopLayer(s, m), X, W) /\ Sound(setup, r, X, W)
  <2>1. Sound(setup, PopLayer(s, m), X, W) BY <1>3, PopLayerSound
  <2>2. Sound(setup, r, X, W) BY <1>2, <1>3, StartSound
  <2> QED BY <2>1, <2>2
<1> HIDE DEF r
<1> QED BY <1>1, <1>3

\* HalfSplitScheduler::refresh_status
LEMMA RefreshSplitSound ==
    ASSUME setup \in Setups, NEW s0, NEW X, NEW W, Sound(setup, s0, X, W), W \subseteq Models,
           Policy = "spatial_split"
    PROVE  Sound(setup, RefreshSplit(s0), X, W)
<1> DEFINE s == RetireAll(s0)
           N == Len(s.queue)
           F(x, n) == AskForModel(x, s.queue[n])
           Upto(v, j) == v = [n \in 0 .. j |-> IF n = 0 THEN s ELSE F(v[n - 1], n)]
           G == CHOOSE g : Upto(g, N)
           P == {j \in Nat : \E v : Upto(v, j)}
           Q == {j \in Nat : j <= N => Sound(setup, G[j], X, W)}
<1>2. RefreshSplit(s0) = G[N] BY DEF RefreshSplit
<1>0. Sound(setup, s, X, W) BY RetireAllSound
<1> HIDE DEF s
<1>1. s.queue \in Seq(Models) /\ N \in Nat
  <2>1. s.queue \in Seq(Models) BY <1>0 DEF Sound, Typed, Distinct
  <2> QED BY <2>1, LenProperties
<1> HIDE DEF F
<1>3. \E g : Upto(g, N)
  <2>1. 0 \in P
    <3> DEFINE v == [n \in 0 .. 0 |-> s]
    <3>1. Upto(v, 0) OBVIOUS
    <3> QED BY <3>1
  <2>2. ASSUME NEW j \in P PROVE j + 1 \in P
    <3>1. PICK v : Upto(v, j) OBVIOUS
    <3> DEFINE w == [n \in 0 .. j + 1 |-> IF n <= j THEN v[n] ELSE F(v[j], j + 1)]
    <3>2. \A n \in 0 .. j + 1 : w[n] = IF n = 0 THEN s ELSE F(w[n - 1], n)
      <4> TAKE n \in 0 .. j + 1
      <4>1. CASE n = 0 BY <4>1, <3>1
      <4>2. CASE n \in 1 .. j BY <4>2, <3>1
      <4>3. CASE n = j + 1 BY <4>3
      <4> QED BY <4>1, <4>2, <4>3
    <3>3. Upto(w, j + 1) BY <3>2
    <3>4. j + 1 \in Nat OBVIOUS
    <3> HIDE DEF w, Upto
    <3> QED BY <3>3, <3>4
  <2> HIDE DEF P
  <2>3. N \in P BY <1>1, <2>1, <2>2, NatSetInduction
  <2> QED BY <2>3 DEF P
<1>4. Upto(G, N) BY <1>3
<1> HIDE DEF G
<1>5. G[0] = s /\ \A n \in 1 .. N : G[n] = F(G[n - 1], n)
  <2>1. \A n \in 0 .. N : G[n] = IF n = 0 THEN s ELSE F(G[n - 1], n) BY <1>4
  <2>2. 0 \in 0 .. N /\ \A n \in 1 .. N : n \in 0 .. N /\ n # 0 BY <1>1
  <2> QED BY <2>1, <2>2
<1>6. 0 \in Q BY <1>0, <1>5
<1>7. ASSUME NEW j \in Q PROVE j + 1 \in Q
  <2> SUFFICES ASSUME j + 1 <= N PROVE Sound(setup, G[j + 1], X, W) OBVIOUS
  <2>1. Sound(setup, G[j], X, W) BY <1>1
  <2>2. j + 1 \in 1 .. N /\ s.queue[j + 1] \in Models BY <1>1
  <2>3. G[j + 1] = AskForModel(G[j], s.queue[j + 1]) BY <1>5, <2>2 DEF F
  <2> QED BY <2>1, <2>2, <2>3, AskForModelSound
<1> HIDE DEF Q
<1>8. N \in Q BY <1>1, <1>6, <1>7, NatSetInduction
<1> QED BY <1>2, <1>8, <1>1 DEF Q

\* refresh_status, whatever the policy: the tiles at the cores and the models
\* to be launched are the same after it.
LEMMA RefreshSound ==
    ASSUME setup \in Setups, NEW s, NEW X, NEW W, Sound(setup, s, X, W), W \subseteq Models
    PROVE  Sound(setup, Refresh(s), X, W)
<1>1. CASE Policy = "simple"
  <2>1. Refresh(s) = RefreshSimple(s) BY <1>1 DEF Refresh
  <2> QED BY <1>1, <2>1, RefreshSimpleSound
<1>2. CASE Policy = "time_multiplex"
  <2>1. Refresh(s) = RefreshMultiplex(s) BY <1>2 DEF Refresh
  <2> QED BY <1>2, <2>1, RefreshMultiplexSound
<1>3. CASE Policy = "partition_cpu"
  <2>1. Refresh(s) = RefreshDedicated(s) BY <1>3 DEF Refresh
  <2> QED BY <1>3, <2>1, RefreshDedicatedSound
<1>4. CASE Policy = "spatial_split"
  <2>1. Refresh(s) = RefreshSplit(s) BY <1>4 DEF Refresh
  <2> QED BY <1>4, <2>1, RefreshSplitSound
<1> QED BY <1>1, <1>2, <1>3, <1>4, SetupFacts

-----------------------------------------------------------------------------
(* finish_tile.                                                            *)

\* Layer c becomes executable when l is finished.
Freed(s, l, c) == c \in Layers /\ l \in Needs[c] /\ Needs[c] \subseteq s.done \cup {l}

\* The executable layers after set_layer_finish: those before, and children
\* whose inputs are all produced, none twice (check_exist_in_exeutable).
LEMMA ChildrenPushed ==
    ASSUME setup \in Setups, NEW s, NEW l \in Layers, s.exec[ModelOf[l]] \in Distinct(Layers)
    PROVE  \E q \in Distinct(Layers) :
             /\ SetLayerFinish(s, l) = [s EXCEPT !.done = s.done \cup {l}, !.exec[ModelOf[l]] = q]
             /\ \A c \in ToSet(q) : c \in ToSet(s.exec[ModelOf[l]]) \/ Freed(s, l, c)
<1> DEFINE N == Len(Outputs[l])
           kids == Outputs[l]
           base == s.exec[ModelOf[l]]
           F(x, n) == IF Needs[kids[n]] \subseteq s.done \cup {l} /\ ~Contains(x, kids[n])
                      THEN Append(x, kids[n]) ELSE x
           Upto(v, j) == v = [n \in 0 .. j |-> IF n = 0 THEN base ELSE F(v[n - 1], n)]
           G == CHOOSE g : Upto(g, N)
           P == {j \in Nat : \E v : Upto(v, j)}
           Inv(j) == /\ G[j] \in Distinct(Layers)
                     /\ \A c \in ToSet(G[j]) : c \in ToSet(base) \/ Freed(s, l, c)
           Q == {j \in Nat : j <= N => Inv(j)}
<1>2. SetLayerFinish(s, l) = [s EXCEPT !.done = s.done \cup {l}, !.exec[ModelOf[l]] = G[N]]
  BY DEF SetLayerFinish
<1>1. N \in Nat /\ kids \in Seq(Layers) /\ DOMAIN kids = 1 .. N
  <2>1. kids \in Seq(Layers) BY SetupFacts
  <2> QED BY <2>1, LenProperties
<1>0. base \in Distinct(Layers) OBVIOUS
<1>9. \A i \in 1 .. N : kids[i] \in Layers /\ l \in Needs[kids[i]] BY <1>1, SetupFacts
<1> HIDE DEF F, kids, N, base
<1>3. \E g : Upto(g, N)
  <2>1. 0 \in P
    <3> DEFINE v == [n \in 0 .. 0 |-> base]
    <3>1. Upto(v, 0) OBVIOUS
    <3> QED BY <3>1
  <2>2. ASSUME NEW j \in P PROVE j + 1 \in P
    <3>1. PICK v : Upto(v, j) OBVIOUS
    <3> DEFINE w == [n \in 0 .. j + 1 |-> IF n <= j THEN v[n] ELSE F(v[j], j + 1)]
    <3>2. \A n \in 0 .. j + 1 : w[n] = IF n = 0 THEN base ELSE F(w[n - 1], n)
      <4> TAKE n \in 0 .. j + 1
      <4>1. CASE n = 0 BY <4>1, <3>1
      <4>2. CASE n \in 1 .. j BY <4>2, <3>1
      <4>3. CASE n = j + 1 BY <4>3
      <4> QED BY <4>1, <4>2, <4>3
    <3>3. Upto(w, j + 1) BY <3>2
    <3>4. j + 1 \in Nat OBVIOUS
    <3> HIDE DEF w, Upto
    <3> QED BY <3>3, <3>4
  <2> HIDE DEF P
  <2>3. N \in P BY <1>1, <2>1, <2>2, NatSetInduction
  <2> QED BY <2>3 DEF P
<1>4. Upto(G, N) BY <1>3
<1> HIDE DEF G
<1>5. G[0] = base /\ \A n \in 1 .. N : G[n] = F(G[n - 1], n)
  <2>1. \A n \in 0 .. N : G[n] = IF n = 0 THEN base ELSE F(G[n - 1], n) BY <1>4
  <2>2. 0 \in 0 .. N /\ \A n \in 1 .. N : n \in 0 .. N /\ n # 0 BY <1>1
  <2> QED BY <2>1, <2>2
<1>6. 0 \in Q BY <1>0, <1>5
<1>7. ASSUME NEW j \in Q PROVE j + 1 \in Q
  <2> SUFFICES ASSUME j + 1 <= N PROVE Inv(j + 1) OBVIOUS
  <2> DEFINE c == kids[j + 1]
  <2>1. Inv(j) BY <1>1
  <2>2. j + 1 \in 1 .. N BY <1>1
  <2>3. G[j + 1] = IF Needs[c] \subseteq s.done \cup {l} /\ ~Contains(G[j], c)
                   THEN Append(G[j], c) ELSE G[j]
    BY <1>5, <2>2 DEF F
  <2>4. c \in Layers /\ l \in Needs[c] BY <1>9, <2>2
  <2> HIDE DEF c
  <2>5. CASE Needs[c] \subseteq s.done \cup {l} /\ ~Contains(G[j], c)
    <3>1. c \notin ToSet(G[j])
      <4>1. G[j] \in Seq(Layers) BY <2>1 DEF Distinct
      <4>2. DOMAIN G[j] = 1 .. Len(G[j]) BY <4>1, LenProperties
      <4> QED BY <2>5, <4>2 DEF Contains, ToSet
    <3>2. Append(G[j], c) \in Distinct(Layers) /\ ToSet(Append(G[j], c)) = ToSet(G[j]) \cup {c}
      BY <2>1, <2>4, <3>1, DistinctAppend
    <3>3. Freed(s, l, c) BY <2>4, <2>5 DEF Freed
    <3> QED BY <2>1, <2>3, <2>5, <3>2, <3>3
  <2>6. CASE ~(Needs[c] \subseteq s.done \cup {l} /\ ~Contains(G[j], c))
    BY <2>1, <2>3, <2>6
  <2> QED BY <2>5, <2>6
<1> HIDE DEF Q
<1>8. N \in Q BY <1>1, <1>6, <1>7, NatSetInduction
<1>10. Inv(N) BY <1>1, <1>8 DEF Q
<1> QED
  <2> DEFINE q == G[N]
  <2>1. /\ q \in Distinct(Layers)
        /\ SetLayerFinish(s, l) = [s EXCEPT !.done = s.done \cup {l}, !.exec[ModelOf[l]] = q]
        /\ \A c \in ToSet(q) : c \in ToSet(s.exec[ModelOf[l]]) \/ Freed(s, l, c)
    BY <1>2, <1>10 DEF base
  <2> HIDE DEF q
  <2> QED BY <2>1

\* Taking a tile away from the cores: it is in no queue, so the others stay
\* where they are.
LEMMA TakeAway ==
    ASSUME NEW s, NEW X, NEW r, Apart(s, X), NEW t \in X,
           r.execQ = s.execQ, r.coreQ = s.coreQ
    PROVE  Apart(r, X \ {t}) /\ Flying(r, X \ {t}) = Flying(s, X) \ {t}
<1>1. Apart(r, X \ {t}) BY DEF Apart
<1>2. /\ \A k \in DOMAIN s.execQ : t \notin ToSet(s.execQ[k])
      /\ \A c \in Cores : t \notin ToSet(s.coreQ[c])
  BY DEF Apart
<1>3. ASSUME NEW x PROVE x \in Flying(r, X \ {t}) <=> x \in Flying(s, X) \ {t}
  <2>1. x \in Flying(r, X \ {t}) <=> \/ x \in X \ {t}
                                     \/ \E k \in DOMAIN r.execQ : x \in ToSet(r.execQ[k])
                                     \/ \E d \in Cores : x \in ToSet(r.coreQ[d])
    BY InFlying
  <2>2. x \in Flying(s, X) <=> \/ x \in X
                               \/ \E k \in DOMAIN s.execQ : x \in ToSet(s.execQ[k])
                               \/ \E d \in Cores : x \in ToSet(s.coreQ[d])
    BY InFlying
  <2> QED BY <1>2, <2>1, <2>2
<1> QED BY <1>1, <1>3

\* One tile of a layer less, and one less to go.
LEMMA CountDown ==
    ASSUME NEW u, NEW s, NEW X, NEW r, Typed(u, s), Counted(s, X), Apart(s, X), NEW t \in X,
           r.execQ = s.execQ, r.coreQ = s.coreQ,
           \A k \in Layers \ {t.layer} : r.active[k] = s.active[k],
           r.active[t.layer].remain = s.active[t.layer].remain - 1
    PROVE  Counted(r, X \ {t})
<1> DEFINE l == t.layer
           Y == X \ {t}
<1>1. t \in Flying(s, X) /\ t \in FlyingOf(s, X, l) BY InFlying DEF FlyingOf
<1>2. Apart(r, Y) /\ Flying(r, Y) = Flying(s, X) \ {t}
  <2> HIDE DEF l
  <2> QED BY TakeAway
<1>3. X \subseteq Tile /\ IsFiniteSet(Flying(s, X)) BY DEF Counted
<1>4. Y \subseteq Tile /\ IsFiniteSet(Flying(r, Y)) BY <1>2, <1>3, FS_Subset
<1>5. FlyingOf(r, Y, l) = FlyingOf(s, X, l) \ {t} BY <1>2 DEF FlyingOf
<1>6. \A k \in Layers \ {l} : FlyingOf(r, Y, k) = FlyingOf(s, X, k) BY <1>2 DEF FlyingOf
<1>7. IsFiniteSet(FlyingOf(s, X, l)) BY <1>3, FS_Subset DEF FlyingOf
<1>8. Cardinality(FlyingOf(r, Y, l)) = Cardinality(FlyingOf(s, X, l)) - 1
  BY <1>1, <1>5, <1>7, FS_RemoveElement, ZenonT(30)
<1>9. ASSUME NEW k \in Layers PROVE r.active[k].remain = Cardinality(FlyingOf(r, Y, k))
  <2>1. s.active[k].remain = Cardinality(FlyingOf(s, X, k)) BY DEF Counted
  <2>2. CASE k = l BY <1>8, <2>1, <2>2
  <2>3. CASE k # l BY <1>6, <2>1, <2>3
  <2> QED BY <2>2, <2>3
<1> QED BY <1>4, <1>9 DEF Counted

\* A tile that is not its layer's last one is counted down (finish_tile).
LEMMA CountTileSound ==
    ASSUME setup \in Setups, NEW s, NEW X, NEW W, Sound(setup, s, X, W), NEW t \in X,
           s.active[t.layer].remain # 1
    PROVE  Sound(setup, [s EXCEPT !.active[t.layer].remain = @ - 1], X \ {t}, W)
<1> DEFINE l == t.layer
           a == [s.active[l] EXCEPT !.remain = s.active[l].remain - 1]
           r == [s EXCEPT !.active[l].remain = @ - 1]
<1>0. r = [s EXCEPT !.active[l] = a] OBVIOUS
<1>1. t \in Tile /\ l \in Active(s) BY InFlying, FlyingActive DEF Sound
<1>2. l \in Layers /\ s.active[l] \in Stat /\ s.active[l] # NoStat
  BY <1>1 DEF Active, Sound, Typed
<1>3. s.active[l] \in [req : Models, remain : Nat \ {0}] BY <1>2 DEF Stat
<1>4. a \in [req : Models, remain : Nat \ {0}] /\ a.remain = s.active[l].remain - 1
  BY <1>3
<1>5. a \in Stat /\ a # NoStat BY <1>4 DEF Stat, NoStat
<1> HIDE DEF a, l, r
<1>6. /\ r = [f \in SchedFields |-> r[f]] /\ r.active = [s.active EXCEPT ![l] = a]
      /\ r.queue = s.queue /\ r.exec = s.exec /\ r.done = s.done
      /\ r.execQ = s.execQ /\ r.coreQ = s.coreQ /\ r.rr = s.rr /\ r.nrLayer = s.nrLayer
      /\ r.reqRr = s.reqRr /\ r.passes = s.passes /\ r.again = s.again
  BY <1>0 DEF Sound, Typed, SchedFields
<1>7. s.active \in [Layers -> Stat] BY DEF Sound, Typed
<1>8. Typed(setup, r)
  <2>1. r.active \in [Layers -> Stat] BY <1>2, <1>5, <1>6, <1>7
  <2> QED BY <1>6, <2>1 DEF Sound, Typed
<1>9. Apart(r, X \ {t}) BY <1>6, TakeAway DEF Sound
<1>10. Counted(r, X \ {t})
  <2>1. /\ \A k \in Layers \ {l} : r.active[k] = s.active[k]
        /\ r.active[l].remain = s.active[l].remain - 1
    BY <1>2, <1>4, <1>6, <1>7
  <2> QED BY <1>6, <2>1, CountDown DEF Sound, l
<1>11. Active(r) = Active(s) BY <1>1, <1>2, <1>5, <1>6, <1>7 DEF Active
<1>12. Ordered(setup, r) BY <1>6, <1>11 DEF Sound, Ordered
<1>13. Outside(r, W) BY <1>6 DEF Sound, Outside
<1>14. PolicyOwn(setup, r) BY <1>6, <1>11 DEF Sound, PolicyOwn
<1> QED BY <1>8, <1>9, <1>10, <1>12, <1>13, <1>14 DEF Sound, r, a, l

\* The last tile finishes its layer: the children it was waiting for become
\* executable, and no other list holds them (set_layer_finish).
LEMMA FinishLayerSound ==
    ASSUME setup \in Setups, NEW s, NEW X, NEW W, Sound(setup, s, X, W), NEW t \in X,
           s.active[t.layer].remain = 1
    PROVE  Sound(setup, SetLayerFinish([s EXCEPT !.active[t.layer] = NoStat], t.layer), X \ {t}, W)
<1> DEFINE l == t.layer
           m == ModelOf[l]
           s1 == [s EXCEPT !.active[l] = NoStat]
           r == SetLayerFinish(s1, l)
<1>1. t \in Tile /\ l \in Active(s) BY InFlying, FlyingActive DEF Sound
<1>2. l \in Layers BY <1>1 DEF Active
<1>3. m \in Models BY <1>2, TileSchedulerAssumption
<1>4. s1 = [f \in SchedFields |-> s1[f]] /\ s1.exec = s.exec /\ s1.done = s.done
      /\ s1.active = [s.active EXCEPT ![l] = NoStat]
      /\ s1.queue = s.queue /\ s1.execQ = s.execQ /\ s1.coreQ = s.coreQ
      /\ s1.rr = s.rr /\ s1.nrLayer = s.nrLayer
      /\ s1.reqRr = s.reqRr /\ s1.passes = s.passes /\ s1.again = s.again
  BY DEF Sound, Typed, SchedFields
<1>5. s.exec \in [Models -> Distinct(Layers)] BY DEF Sound, Typed
<1> HIDE DEF s1, l
<1>6. PICK q \in Distinct(Layers) :
        /\ r = [s1 EXCEPT !.done = s1.done \cup {l}, !.exec[m] = q]
        /\ \A c \in ToSet(q) : c \in ToSet(s1.exec[m]) \/ Freed(s1, l, c)
  <2>1. s1.exec[ModelOf[l]] \in Distinct(Layers) BY <1>3, <1>4, <1>5
  <2> QED BY <1>2, <2>1, ChildrenPushed
<1> HIDE DEF r, m
<1>7. /\ r = [f \in SchedFields |-> r[f]] /\ r.done = s.done \cup {l}
      /\ r.exec = [s.exec EXCEPT ![m] = q] /\ r.active = [s.active EXCEPT ![l] = NoStat]
      /\ r.queue = s.queue /\ r.execQ = s.execQ /\ r.coreQ = s.coreQ
      /\ r.rr = s.rr /\ r.nrLayer = s.nrLayer
      /\ r.reqRr = s.reqRr /\ r.passes = s.passes /\ r.again = s.again
  BY <1>4, <1>6 DEF SchedFields
<1>8. s.active \in [Layers -> Stat] /\ s.done \subseteq Layers BY DEF Sound, Typed
<1>9. Typed(setup, r)
  <2>1. r.active \in [Layers -> Stat] BY <1>7, <1>8 DEF Stat
  <2>2. r.exec \in [Models -> Distinct(Layers)] BY <1>5, <1>7
  <2>3. r.done \subseteq Layers BY <1>2, <1>7, <1>8
  <2> QED BY <1>7, <2>1, <2>2, <2>3 DEF Sound, Typed
<1>10. Apart(r, X \ {t}) BY <1>7, TakeAway DEF Sound
<1>11. Counted(r, X \ {t})
  <2>1. /\ \A k \in Layers \ {l} : r.active[k] = s.active[k]
        /\ r.active[l].remain = s.active[l].remain - 1
    <3>1. r.active[l] = NoStat BY <1>2, <1>7, <1>8
    <3>2. s.active[l].remain = 1 BY DEF l
    <3> QED BY <1>7, <1>8, <3>1, <3>2 DEF NoStat
  <2> QED BY <1>7, <2>1, CountDown DEF Sound, l
<1>12. Active(r) = Active(s) \ {l} BY <1>2, <1>7, <1>8 DEF Active
<1>13. Ordered(setup, s) /\ Outside(s, W) /\ PolicyOwn(setup, s) BY DEF Sound
<1>14. m \in ToSet(s.queue) /\ setup.needs[l] \subseteq s.done /\ l \notin s.done
  BY <1>1, <1>13 DEF Ordered, m
<1>15. Ordered(setup, r)
  <2>1. ASSUME NEW n \in Models, NEW c \in ToSet(s.exec[n])
        PROVE  /\ ModelOf[c] = n /\ n \in ToSet(r.queue)
               /\ setup.needs[c] \subseteq r.done /\ c \notin r.done /\ c \notin Active(r)
    BY <1>1, <1>7, <1>12, <1>13 DEF Ordered
  <2>2. ASSUME NEW c, Freed(s1, l, c)
        PROVE  /\ ModelOf[c] = m /\ m \in ToSet(r.queue)
               /\ setup.needs[c] \subseteq r.done /\ c \notin r.done /\ c \notin Active(r)
    <3>1. c \in Layers /\ l \in setup.needs[c] /\ setup.needs[c] \subseteq s.done \cup {l}
      BY <1>4, <2>2 DEF Freed, Needs
    <3>2. ModelOf[c] = m BY <3>1, SetupFacts DEF Needs, m
    <3>3. c \notin s.done BY <1>13, <1>14, <3>1 DEF Ordered
    <3>4. c # l BY <1>14, <3>1
    <3>5. c \notin Active(s) BY <1>13, <1>14, <3>1 DEF Ordered
    <3> QED BY <1>7, <1>12, <1>14, <3>1, <3>2, <3>3, <3>4, <3>5
  <2>3. ASSUME NEW n \in Models, NEW c \in ToSet(r.exec[n])
        PROVE  /\ ModelOf[c] = n /\ n \in ToSet(r.queue)
               /\ setup.needs[c] \subseteq r.done /\ c \notin r.done /\ c \notin Active(r)
    <3>1. CASE n = m
      <4>1. c \in ToSet(q) BY <3>1, <1>5, <1>7
      <4>2. c \in ToSet(s.exec[m]) \/ Freed(s1, l, c) BY <1>4, <1>6, <4>1
      <4> QED BY <2>1, <2>2, <3>1, <4>2
    <3>2. CASE n # m
      <4>1. c \in ToSet(s.exec[n]) BY <3>2, <1>5, <1>7
      <4> QED BY <2>1, <4>1
    <3> QED BY <3>1, <3>2
  <2>4. ASSUME NEW c \in Active(r)
        PROVE  ModelOf[c] \in ToSet(r.queue) /\ setup.needs[c] \subseteq r.done /\ c \notin r.done
    BY <1>7, <1>12, <1>13 DEF Ordered
  <2>5. \A c \in r.done : setup.needs[c] \subseteq r.done BY <1>7, <1>13, <1>14 DEF Ordered
  <2> QED BY <2>3, <2>4, <2>5 DEF Ordered
<1>16. Outside(r, W)
  <2>1. \A n \in W \cup s.again : n # m BY <1>13, <1>14 DEF Outside
  <2>2. \A n \in W \cup s.again : l \notin LayersOf(n) BY <2>1 DEF LayersOf, m
  <2> QED BY <1>7, <1>13, <2>2 DEF Outside
<1>17. PolicyOwn(setup, r) BY <1>7, <1>12, <1>13 DEF PolicyOwn
<1> QED BY <1>9, <1>10, <1>11, <1>15, <1>16, <1>17 DEF Sound, r, s1, l

\* A layer is the only active one of a model that the spatial split runs, so
\* with its last tile the queue of the request is empty.
LEMMA NothingDropped ==
    ASSUME setup \in Setups, NEW s, NEW X, NEW W, Sound(setup, s, X, W), NEW t \in X,
           s.active[t.layer].remain = 1, Policy = "spatial_split", Unbranched(setup)
    PROVE  s.execQ[ModelOf[t.layer]] = <<>>
<1> DEFINE l == t.layer
           m == ModelOf[l]
<1>1. t \in Tile /\ l \in Active(s) /\ t \in FlyingOf(s, X, l) BY InFlying, FlyingActive DEF Sound
<1>2. l \in Layers BY <1>1 DEF Active
<1>3. m \in Models /\ m \in Keys(setup) BY <1>2, TileSchedulerAssumption, SetupFacts
<1>4. Cardinality(FlyingOf(s, X, l)) = 1 BY <1>2 DEF Sound, Counted
<1>5. IsFiniteSet(FlyingOf(s, X, l)) BY FS_Subset DEF FlyingOf, Sound, Counted
<1>6. \A x \in FlyingOf(s, X, l) : x = t
  <2>1. Cardinality(FlyingOf(s, X, l) \ {t}) = 0
    <3> DEFINE S == FlyingOf(s, X, l)
    <3>1. IsFiniteSet(S) /\ t \in S /\ Cardinality(S) = 1 BY <1>1, <1>4, <1>5
    <3> HIDE DEF S
    <3>2. Cardinality(S \ {t}) = Cardinality(S) - 1 BY <3>1, FS_RemoveElement
    <3> QED BY <3>1, <3>2 DEF S
  <2>2. IsFiniteSet(FlyingOf(s, X, l) \ {t}) BY <1>5, FS_Subset
  <2>3. FlyingOf(s, X, l) \ {t} = {} BY <2>1, <2>2, FS_EmptySet
  <2> QED BY <2>3
<1>7. s.execQ \in [Keys(setup) -> Distinct(Tile)] BY DEF Sound, Typed
<1>8. ASSUME NEW x \in ToSet(s.execQ[m]) PROVE FALSE
  <2>1. x \in Flying(s, X) BY <1>3, <1>7, InFlying
  <2>2. x.layer \in Active(s) /\ x \in FlyingOf(s, X, x.layer) BY <2>1, FlyingActive DEF Sound
  <2>3. ModelOf[x.layer] = m BY <1>3 DEF Sound, PolicyOwn, Policy
  <2>4. x.layer = l
    <3>1. /\ s.done \in SUBSET Layers /\ \A k \in s.done : setup.needs[k] \subseteq s.done
      BY DEF Sound, Typed, Ordered
    <3>2. \A k \in Active(s) : k \in Layers \ s.done /\ setup.needs[k] \subseteq s.done
      BY DEF Sound, Ordered, Active
    <3> QED BY <1>1, <2>2, <2>3, <3>1, <3>2 DEF Unbranched
  <2>5. x = t BY <1>6, <2>2, <2>4
  <2> QED BY <1>3, <1>7, <2>5 DEF Sound, Apart
<1>9. s.execQ[m] \in Seq(Tile) BY <1>3, <1>7 DEF Distinct
<1> QED BY <1>8, <1>9, MembersOf

\* finish_tile: the tile leaves the cores, its layer counts one less or ends.
LEMMA FinishTileSound ==
    ASSUME setup \in Setups, NEW s, NEW X, NEW W, Sound(setup, s, X, W), W \subseteq Models,
           NEW t \in X, Policy = "spatial_split" => Unbranched(setup)
    PROVE  Sound(setup, FinishTile(s, t), X \ {t}, W)
<1> DEFINE l == t.layer
           r == [s EXCEPT !.active[l].remain = @ - 1]
           e == SetLayerFinish([s EXCEPT !.active[l] = NoStat], l)
           d == [e EXCEPT !.execQ[ModelOf[l]] = <<>>]
<1>1. FinishTile(s, t) =
        Refresh(IF s.active[l].remain # 1 THEN r
                ELSE IF Policy = "spatial_split" THEN d ELSE e)
  BY DEF FinishTile
<1>2. CASE s.active[l].remain # 1
  <2>1. Sound(setup, r, X \ {t}, W) BY <1>2, CountTileSound
  <2> HIDE DEF r, e, d
  <2> QED BY <1>1, <1>2, <2>1, RefreshSound
<1>3. CASE s.active[l].remain = 1
  <2>1. Sound(setup, e, X \ {t}, W) BY <1>3, FinishLayerSound
  <2>2. Policy = "spatial_split" => d = e
    <3> SUFFICES ASSUME Policy = "spatial_split" PROVE d = e OBVIOUS
    <3>1. s.execQ[ModelOf[l]] = <<>> BY <1>3, NothingDropped
    <3>2. e.execQ = s.execQ
      <4>1. l \in Layers BY InFlying, FlyingActive DEF Sound, Active
      <4> DEFINE s1 == [s EXCEPT !.active[l] = NoStat]
      <4>2. s1.exec = s.exec /\ s1.execQ = s.execQ /\ s1 = [f \in SchedFields |-> s1[f]]
        BY DEF Sound, Typed, SchedFields
      <4> HIDE DEF s1
      <4>3. s1.exec[ModelOf[l]] \in Distinct(Layers)
        BY <4>1, <4>2, TileSchedulerAssumption DEF Sound, Typed
      <4>4. PICK q \in Distinct(Layers) :
              /\ SetLayerFinish(s1, l) = [s1 EXCEPT !.done = s1.done \cup {l}, !.exec[ModelOf[l]] = q]
              /\ \A c \in ToSet(q) : c \in ToSet(s1.exec[ModelOf[l]]) \/ Freed(s1, l, c)
        <5> HIDE DEF l, r, e, d
        <5> QED BY <4>1, <4>3, ChildrenPushed
      <4>5. SetLayerFinish(s1, l).execQ = s1.execQ BY <4>2, <4>4 DEF SchedFields
      <4> QED BY <4>2, <4>5 DEF s1
    <3> HIDE DEF e
    <3>3. e = [f \in SchedFields |-> e[f]] BY <2>1 DEF Sound, Typed
    <3>4. [e.execQ EXCEPT ![ModelOf[l]] = <<>>] = e.execQ
      <4>1. e.execQ \in [Keys(setup) -> Distinct(Tile)] BY <2>1 DEF Sound, Typed
      <4> QED BY <3>1, <3>2, <4>1
    <3>5. d = [e EXCEPT !.execQ = e.execQ] BY <3>4
    <3> QED BY <3>3, <3>5 DEF SchedFields
  <2> HIDE DEF r, e, d
  <2> QED BY <1>1, <1>3, <2>1, <2>2, RefreshSound
<1> QED BY <1>2, <1>3, SMTT(30)

-----------------------------------------------------------------------------
(* schedule_model and get_tile.                                            *)

\* A model that is launched joins the queue with its layers that need no
\* input; none of its layers was known to the scheduler (schedule_model).
LEMMA ScheduleModelSound ==
    ASSUME setup \in Setups, NEW s, NEW X, NEW W, Sound(setup, s, X, W), W \subseteq Models,
           NEW m \in W
    PROVE  Sound(setup, ScheduleModel(s, m), X, W \ {m})
<1> DEFINE S == {l \in LayersOf(m) : Needs[l] = {}}
           q == ById(S)
           V == W \ {m}
           r == [s EXCEPT !.queue = Append(@, m), !.exec[m] = q]
<1>1. /\ m \in Models /\ m \notin ToSet(s.queue) /\ LayersOf(m) \cap s.done = {}
      /\ m \notin s.again
  BY DEF Sound, Outside
<1>2. q \in Distinct(Layers) /\ \A l \in ToSet(q) : l \in Layers /\ ModelOf[l] = m /\ setup.needs[l] = {}
  <2>1. S \subseteq Layers /\ Layers \subseteq Nat /\ IsFiniteSet(Layers)
    BY TileSchedulerAssumption DEF LayersOf
  <2>2. S \in SUBSET Nat /\ IsFiniteSet(S) BY <2>1, FS_Subset
  <2>3. q \in Distinct(S) /\ ToSet(q) = S BY <2>2, ByIdIs
  <2>4. \A l \in S : l \in Layers /\ ModelOf[l] = m /\ setup.needs[l] = {} BY DEF LayersOf, Needs
  <2> HIDE DEF S, q
  <2>5. q \in Seq(Layers)
    <3>1. q \in Seq(S) BY <2>3 DEF Distinct
    <3> QED BY <2>1, <3>1, SeqMonotonic
  <2> QED BY <2>3, <2>4, <2>5 DEF Distinct
<1>3. ScheduleModel(s, m) = Refresh(r) BY DEF ScheduleModel
<1> HIDE DEF q, r
<1>4. s.queue \in Distinct(Models) /\ s.exec \in [Models -> Distinct(Layers)] BY DEF Sound, Typed
<1>5. /\ Append(s.queue, m) \in Distinct(Models)
      /\ ToSet(Append(s.queue, m)) = ToSet(s.queue) \cup {m}
  BY <1>1, <1>4, DistinctAppend
<1>6. /\ r = [f \in SchedFields |-> r[f]] /\ r.queue = Append(s.queue, m)
      /\ r.exec = [s.exec EXCEPT ![m] = q]
      /\ r.done = s.done /\ r.active = s.active /\ r.execQ = s.execQ /\ r.coreQ = s.coreQ
      /\ r.rr = s.rr /\ r.nrLayer = s.nrLayer /\ r.reqRr = s.reqRr
      /\ r.passes = s.passes /\ r.again = s.again
  BY DEF r, Sound, Typed, SchedFields
<1>7. Typed(setup, r)
  <2>1. r.exec \in [Models -> Distinct(Layers)] BY <1>2, <1>4, <1>6, ZenonT(30)
  <2> QED BY <1>5, <1>6, <2>1 DEF Sound, Typed
<1>8. Apart(r, X) BY <1>6 DEF Sound, Apart
<1>9. Counted(r, X)
  <2>1. r.execQ = s.execQ /\ r.coreQ = s.coreQ /\ r.active = s.active BY <1>6
  <2>2. Flying(r, X) = Flying(s, X) BY <2>1, Zenon DEF Flying
  <2>3. X \subseteq Tile BY DEF Sound, Counted
  <2> QED BY <2>1, <2>2, <2>3, SameFlight DEF Sound
<1>10. Active(r) = Active(s) BY <1>6 DEF Active
<1>11. Ordered(setup, s) /\ Outside(s, W) /\ PolicyOwn(setup, s) BY DEF Sound
<1>12. Ordered(setup, r)
  <2>1. ASSUME NEW n \in Models, NEW l \in ToSet(r.exec[n])
        PROVE  /\ ModelOf[l] = n /\ n \in ToSet(r.queue)
               /\ setup.needs[l] \subseteq r.done /\ l \notin r.done /\ l \notin Active(r)
    <3>1. CASE n = m
      <4>1. l \in Layers /\ ModelOf[l] = m /\ setup.needs[l] = {}
        <5>1. l \in ToSet(q) BY <1>4, <1>6, <3>1
        <5> QED BY <1>2, <5>1
      <4>2. l \notin s.done BY <1>1, <4>1 DEF LayersOf
      <4>3. l \notin Active(s) BY <1>1, <1>11, <4>1 DEF Ordered
      <4> QED BY <1>5, <1>6, <1>10, <3>1, <4>1, <4>2, <4>3
    <3>2. CASE n # m
      <4>1. l \in ToSet(s.exec[n]) BY <3>2, <1>4, <1>6
      <4> QED BY <1>5, <1>6, <1>10, <1>11, <4>1 DEF Ordered
    <3> QED BY <3>1, <3>2
  <2>2. ASSUME NEW l \in Active(r)
        PROVE  ModelOf[l] \in ToSet(r.queue) /\ setup.needs[l] \subseteq r.done /\ l \notin r.done
    BY <1>5, <1>6, <1>10, <1>11 DEF Ordered
  <2>3. \A l \in r.done : setup.needs[l] \subseteq r.done BY <1>6, <1>11 DEF Ordered
  <2> QED BY <2>1, <2>2, <2>3 DEF Ordered
<1>13. Outside(r, V) BY <1>1, <1>5, <1>6, <1>11 DEF Outside
<1>14. PolicyOwn(setup, r)
  <2>1. ASSUME setup.policy = "simple", NEW l \in Active(r)
        PROVE  r.queue # <<>> /\ ModelOf[l] = Head(r.queue)
    <3>1. s.queue # <<>> /\ ModelOf[l] = Head(s.queue) BY <1>10, <1>11, <2>1 DEF PolicyOwn
    <3>2. s.queue \in Seq(Models) BY <1>4 DEF Distinct
    <3>3. Append(s.queue, m) # <<>> /\ Head(Append(s.queue, m)) = Head(s.queue)
      BY <1>1, <3>1, <3>2
    <3> QED BY <1>6, <3>1, <3>3
  <2> QED BY <1>6, <1>11, <2>1 DEF PolicyOwn
<1>15. Sound(setup, r, X, V) BY <1>7, <1>8, <1>9, <1>12, <1>13, <1>14 DEF Sound
<1> HIDE DEF V
<1>16. Sound(setup, Refresh(r), X, V)
  <2>1. V \subseteq Models BY DEF V
  <2> QED BY <1>15, <2>1, RefreshSound
<1> QED BY <1>3, <1>16 DEF V

\* r is s without t, which was the head of one of its queues.
Taken(u, s, r, t) ==
    \/ \E k \in Keys(u) : /\ s.execQ[k] # <<>> /\ t = Head(s.execQ[k])
                          /\ r.execQ = [s.execQ EXCEPT ![k] = Tail(s.execQ[k])]
                          /\ r.coreQ = s.coreQ
    \/ \E c \in Cores : /\ s.coreQ[c] # <<>> /\ t = Head(s.coreQ[c])
                        /\ r.coreQ = [s.coreQ EXCEPT ![c] = Tail(s.coreQ[c])]
                        /\ r.execQ = s.execQ

\* The tile at the head of a queue goes to a core (get_tile).
LEMMA HeadTaken ==
    ASSUME setup \in Setups, NEW s, NEW X, NEW W, Sound(setup, s, X, W), NEW r, NEW t,
           r = [f \in SchedFields |-> r[f]],
           Taken(setup, s, r, t),
           r.queue = s.queue, r.exec = s.exec, r.done = s.done, r.active = s.active,
           r.rr = s.rr, r.nrLayer = s.nrLayer, r.reqRr = s.reqRr,
           r.passes = s.passes, r.again = s.again
    PROVE  Sound(setup, r, X \cup {t}, W) /\ t \in Tile /\ t \notin X
<1> DEFINE E(x, k) == ToSet(x.execQ[k])
           C(x, c) == ToSet(x.coreQ[c])
           Y == X \cup {t}
<1>1. s.execQ \in [Keys(setup) -> Distinct(Tile)] /\ s.coreQ \in [Cores -> Distinct(Tile)]
  BY DEF Sound, Typed
<1>2. Apart(s, X) /\ X \subseteq Tile /\ DOMAIN s.execQ = Keys(setup)
  BY <1>1 DEF Sound, Counted
<1>3. /\ r.execQ \in [Keys(setup) -> Distinct(Tile)] /\ r.coreQ \in [Cores -> Distinct(Tile)]
      /\ t \in Tile /\ t \notin X
      /\ \A k \in Keys(setup) : t \notin E(r, k) /\ E(r, k) \subseteq E(s, k)
                                /\ E(s, k) \subseteq E(r, k) \cup {t}
      /\ \A c \in Cores : t \notin C(r, c) /\ C(r, c) \subseteq C(s, c)
                          /\ C(s, c) \subseteq C(r, c) \cup {t}
      /\ (\E k \in Keys(setup) : t \in E(s, k)) \/ (\E c \in Cores : t \in C(s, c))
  <2>1. CASE \E k \in Keys(setup) : /\ s.execQ[k] # <<>> /\ t = Head(s.execQ[k])
                                     /\ r.execQ = [s.execQ EXCEPT ![k] = Tail(s.execQ[k])]
                                     /\ r.coreQ = s.coreQ
    <3>1. PICK k \in Keys(setup) : /\ s.execQ[k] # <<>> /\ t = Head(s.execQ[k])
                                   /\ r.execQ = [s.execQ EXCEPT ![k] = Tail(s.execQ[k])]
                                   /\ r.coreQ = s.coreQ
      BY <2>1
    <3> DEFINE q == s.execQ[k]
    <3>2. q \in Distinct(Tile) /\ q # <<>> BY <1>1, <3>1
    <3>3. t \in ToSet(q) /\ t \in Tile
      BY <3>1, <3>2, MembersOf DEF Distinct
    <3>4. Tail(q) \in Distinct(Tile) /\ ToSet(Tail(q)) = ToSet(q) \ {t}
      BY <3>1, <3>2, DistinctTail
    <3> HIDE DEF q
    <3>5. /\ r.execQ = [s.execQ EXCEPT ![k] = Tail(q)] /\ r.coreQ = s.coreQ /\ q = s.execQ[k]
      BY <3>1 DEF q
    <3>6. E(s, k) = ToSet(q) /\ E(r, k) = ToSet(q) \ {t} /\ \A j \in Keys(setup) \ {k} : E(r, j) = E(s, j)
      BY <1>1, <3>4, <3>5
    <3>7. r.execQ \in [Keys(setup) -> Distinct(Tile)] BY <1>1, <3>4, <3>5
    <3>8. /\ t \notin X /\ \A j \in Keys(setup) \ {k} : t \notin E(s, j)
          /\ \A c \in Cores : t \notin C(s, c)
      BY <1>2, <3>3, <3>6 DEF Apart
    <3> QED BY <1>1, <3>3, <3>5, <3>6, <3>7, <3>8
  <2>2. CASE \E c \in Cores : /\ s.coreQ[c] # <<>> /\ t = Head(s.coreQ[c])
                               /\ r.coreQ = [s.coreQ EXCEPT ![c] = Tail(s.coreQ[c])]
                               /\ r.execQ = s.execQ
    <3>1. PICK c \in Cores : /\ s.coreQ[c] # <<>> /\ t = Head(s.coreQ[c])
                             /\ r.coreQ = [s.coreQ EXCEPT ![c] = Tail(s.coreQ[c])]
                             /\ r.execQ = s.execQ
      BY <2>2
    <3> DEFINE q == s.coreQ[c]
    <3>2. q \in Distinct(Tile) /\ q # <<>> BY <1>1, <3>1
    <3>3. t \in ToSet(q) /\ t \in Tile
      BY <3>1, <3>2, MembersOf DEF Distinct
    <3>4. Tail(q) \in Distinct(Tile) /\ ToSet(Tail(q)) = ToSet(q) \ {t}
      BY <3>1, <3>2, DistinctTail
    <3> HIDE DEF q
    <3>5. /\ r.coreQ = [s.coreQ EXCEPT ![c] = Tail(q)] /\ r.execQ = s.execQ /\ q = s.coreQ[c]
      BY <3>1 DEF q
    <3>6. C(s, c) = ToSet(q) /\ C(r, c) = ToSet(q) \ {t} /\ \A d \in Cores \ {c} : C(r, d) = C(s, d)
      BY <1>1, <3>4, <3>5
    <3>7. r.coreQ \in [Cores -> Distinct(Tile)] BY <1>1, <3>4, <3>5
    <3>8. /\ t \notin X /\ \A d \in Cores \ {c} : t \notin C(s, d)
          /\ \A k \in Keys(setup) : t \notin E(s, k)
      BY <1>2, <3>3, <3>6 DEF Apart
    <3> QED BY <1>1, <3>3, <3>5, <3>6, <3>7, <3>8
  <2> QED BY <2>1, <2>2 DEF Taken
<1> HIDE DEF E, C, Y
<1>4. Typed(setup, r) BY <1>3 DEF Sound, Typed
<1>5. DOMAIN r.execQ = Keys(setup) BY <1>3
<1>6. Apart(r, Y)
  <2>1. \A k, j \in Keys(setup) : k # j => \A x \in E(r, k) : x \notin E(r, j)
    BY <1>2, <1>3 DEF Apart, E
  <2>2. \A c, d \in Cores : c # d => \A x \in C(r, c) : x \notin C(r, d)
    BY <1>2, <1>3 DEF Apart, C
  <2>3. \A k \in Keys(setup), c \in Cores : \A x \in E(r, k) : x \notin C(r, c)
    <3>1. \A k \in Keys(setup), c \in Cores : \A x \in E(s, k) : x \notin C(s, c)
      BY <1>2 DEF Apart, E, C
    <3>2. TAKE k \in Keys(setup), c \in Cores
    <3>3. E(r, k) \subseteq E(s, k) /\ C(r, c) \subseteq C(s, c) BY <1>3
    <3> QED BY <3>1, <3>3
  <2>4. \A k \in Keys(setup) : \A x \in E(r, k) : x \notin Y
    <3>1. \A k \in Keys(setup) : \A x \in E(s, k) : x \notin X BY <1>2 DEF Apart, E
    <3>2. TAKE k \in Keys(setup)
    <3>3. E(r, k) \subseteq E(s, k) /\ t \notin E(r, k) BY <1>3
    <3> QED BY <3>1, <3>3 DEF Y
  <2>5. \A c \in Cores : \A x \in C(r, c) : x \notin Y BY <1>2, <1>3 DEF Apart, C, Y
  <2> QED BY <1>5, <2>1, <2>2, <2>3, <2>4, <2>5 DEF Apart, E, C
<1>7. Flying(r, Y) = Flying(s, X)
  <2> SUFFICES ASSUME NEW x PROVE x \in Flying(r, Y) <=> x \in Flying(s, X) OBVIOUS
  <2>1. x \in Flying(r, Y) <=> \/ x \in Y
                               \/ \E k \in Keys(setup) : x \in E(r, k)
                               \/ \E c \in Cores : x \in C(r, c)
    BY <1>5, InFlying DEF E, C
  <2>2. x \in Flying(s, X) <=> \/ x \in X
                               \/ \E k \in Keys(setup) : x \in E(s, k)
                               \/ \E c \in Cores : x \in C(s, c)
    BY <1>2, InFlying DEF E, C
  <2>3. x \in Y <=> x \in X \/ x = t BY DEF Y
  <2>4. x # t => /\ (\E k \in Keys(setup) : x \in E(r, k)) <=> (\E k \in Keys(setup) : x \in E(s, k))
                 /\ (\E c \in Cores : x \in C(r, c)) <=> (\E c \in Cores : x \in C(s, c))
    BY <1>3
  <2>5. x = t => (\E k \in Keys(setup) : x \in E(s, k)) \/ (\E c \in Cores : x \in C(s, c))
    BY <1>3
  <2> QED BY <2>1, <2>2, <2>3, <2>4, <2>5
<1>8. Counted(r, Y)
  <2>1. Y \subseteq Tile BY <1>2, <1>3 DEF Y
  <2> QED BY <1>7, <2>1, SameFlight DEF Sound
<1>9. Ordered(setup, r) /\ Outside(r, W) /\ Active(r) = Active(s) BY SameGraph DEF Sound
<1>10. PolicyOwn(setup, r)
  <2>1. PolicyOwn(setup, s) BY DEF Sound
  <2>2. setup.policy = "spatial_split" => \A m \in Models : \A x \in ToSet(r.execQ[m]) : ModelOf[x.layer] = m
    BY <1>3, <2>1 DEF PolicyOwn, E, Keys
  <2> QED BY <1>9, <2>1, <2>2 DEF PolicyOwn
<1> QED BY <1>3, <1>4, <1>6, <1>8, <1>9, <1>10 DEF Sound, Y

\* get_tile: what the core is given leaves its queue; without a tile the
\* state is refreshed.
LEMMA GetTileSound ==
    ASSUME setup \in Setups, NEW s, NEW X, NEW W, Sound(setup, s, X, W), W \subseteq Models,
           NEW c \in Cores, s.queue # <<>>
    PROVE  /\ QueueFor(s, c) = <<>> => Sound(setup, GetTile(s, c), X, W)
           /\ QueueFor(s, c) # <<>> =>
                /\ Sound(setup, GetTile(s, c), X \cup {Head(QueueFor(s, c))}, W)
                /\ Head(QueueFor(s, c)) \in Tile /\ Head(QueueFor(s, c)) \notin X
<1>1. CASE QueueFor(s, c) = <<>>
  <2>1. GetTile(s, c) = IF Policy = "spatial_split" THEN s ELSE Refresh(s) BY <1>1 DEF GetTile
  <2> QED BY <1>1, <2>1, RefreshSound
<1>2. CASE QueueFor(s, c) # <<>> /\ Policy = "spatial_split"
  <2> DEFINE m == s.queue[(c % Len(s.queue)) + 1]
             r == [s EXCEPT !.execQ[m] = Tail(@)]
             t == Head(s.execQ[m])
  <2>1. m \in Models
    <3> DEFINE n == Len(s.queue)
    <3>1. s.queue \in Seq(Models) BY DEF Sound, Typed, Distinct
    <3>2. n \in Nat \ {0} BY <3>1, LenProperties, EmptySeq
    <3>3. c \in Nat BY TileSchedulerAssumption DEF Cores
    <3>4. m = s.queue[(c % n) + 1] OBVIOUS
    <3>5. \A i \in 1 .. n : s.queue[i] \in Models BY <3>1
    <3> HIDE DEF n, m, r, t
    <3>6. (c % n) + 1 \in 1 .. n BY <3>2, <3>3
    <3> QED BY <3>4, <3>5, <3>6
  <2>2. m \in Keys(setup) BY <1>2, <2>1, SetupFacts
  <2>3. QueueFor(s, c) = s.execQ[m] /\ GetTile(s, c) = r BY <1>2 DEF QueueFor, GetTile
  <2> HIDE DEF m
  <2>4. /\ r = [f \in SchedFields |-> r[f]]
        /\ r.execQ = [s.execQ EXCEPT ![m] = Tail(s.execQ[m])] /\ r.coreQ = s.coreQ
        /\ r.queue = s.queue /\ r.exec = s.exec /\ r.done = s.done /\ r.active = s.active
        /\ r.rr = s.rr /\ r.nrLayer = s.nrLayer /\ r.reqRr = s.reqRr
        /\ r.passes = s.passes /\ r.again = s.again
    BY DEF Sound, Typed, SchedFields
  <2>5. s.execQ[m] # <<>> BY <1>2, <2>3
  <2>6. Taken(setup, s, r, t)
    <3> HIDE DEF r
    <3> QED BY <2>2, <2>4, <2>5 DEF Taken
  <2> HIDE DEF r, t
  <2>7. Sound(setup, r, X \cup {t}, W) /\ t \in Tile /\ t \notin X BY <2>4, <2>6, HeadTaken
  <2> QED BY <1>2, <2>3, <2>7 DEF t
<1>3. CASE QueueFor(s, c) # <<>> /\ Policy # "spatial_split"
  <2> DEFINE r == [s EXCEPT !.coreQ[c] = Tail(@)]
             t == Head(s.coreQ[c])
  <2>3. QueueFor(s, c) = s.coreQ[c] /\ GetTile(s, c) = r BY <1>3 DEF QueueFor, GetTile
  <2>4. /\ r = [f \in SchedFields |-> r[f]]
        /\ r.coreQ = [s.coreQ EXCEPT ![c] = Tail(s.coreQ[c])] /\ r.execQ = s.execQ
        /\ r.queue = s.queue /\ r.exec = s.exec /\ r.done = s.done /\ r.active = s.active
        /\ r.rr = s.rr /\ r.nrLayer = s.nrLayer /\ r.reqRr = s.reqRr
        /\ r.passes = s.passes /\ r.again = s.again
    BY DEF Sound, Typed, SchedFields
  <2>5. s.coreQ[c] # <<>> BY <1>3, <2>3
  <2>6. Taken(setup, s, r, t)
    <3> HIDE DEF r
    <3> QED BY <2>4, <2>5 DEF Taken
  <2> HIDE DEF r, t
  <2>7. Sound(setup, r, X \cup {t}, W) /\ t \in Tile /\ t \notin X BY <2>4, <2>6, HeadTaken
  <2> QED BY <1>3, <2>3, <2>7 DEF t
<1> QED BY <1>1, <1>2, <1>3

\* The models that registered again are to be launched (register_model).
LEMMA Reregistered ==
    ASSUME NEW u, NEW s, NEW X, NEW W, Sound(u, s, X, W)
    PROVE  Sound(u, [s EXCEPT !.again = {}], X, W \cup s.again)
<1> DEFINE r == [s EXCEPT !.again = {}]
<1>1. /\ r = [f \in SchedFields |-> r[f]] /\ r.again = {}
      /\ r.queue = s.queue /\ r.exec = s.exec /\ r.done = s.done /\ r.active = s.active
      /\ r.execQ = s.execQ /\ r.coreQ = s.coreQ /\ r.rr = s.rr /\ r.nrLayer = s.nrLayer
      /\ r.reqRr = s.reqRr /\ r.passes = s.passes
  BY DEF Sound, Typed, SchedFields
<1> HIDE DEF r
<1>2. Typed(u, r) BY <1>1 DEF Sound, Typed
<1>3. Apart(r, X) BY <1>1 DEF Sound, Apart
<1>4. Counted(r, X)
  <2>1. r.execQ = s.execQ /\ r.coreQ = s.coreQ /\ r.active = s.active BY <1>1
  <2>2. Flying(r, X) = Flying(s, X) BY <2>1, Zenon DEF Flying
  <2>3. X \subseteq Tile BY DEF Sound, Counted
  <2> QED BY <2>1, <2>2, <2>3, SameFlight DEF Sound
<1>5. Active(r) = Active(s) BY <1>1 DEF Active
<1>6. Ordered(u, r) BY <1>1, <1>5 DEF Sound, Ordered
<1>7. Outside(r, W \cup s.again) BY <1>1 DEF Sound, Outside
<1>8. PolicyOwn(u, r) BY <1>1, <1>5 DEF Sound, PolicyOwn
<1> QED BY <1>2, <1>3, <1>4, <1>6, <1>7, <1>8 DEF Sound, r
-----------------------------------------------------------------------------
(* The cores.                                                              *)

\* col with tile t finished on core c, and run with t on c.
Kept(col, c, t) == [col EXCEPT ![c] = Append(col[c], t)]
Given(run, c, t) == [run EXCEPT ![c] = run[c] \cup {t}]

\* A tile is at the cores when one of them runs it or keeps it finished.
LEMMA InCores ==
    ASSUME NEW run, NEW col, NEW t
    PROVE  t \in AtCores(run, col) <=> \E c \in Cores : t \in run[c] \/ t \in ToSet(col[c])
BY DEF AtCores

\* The loop takes the tile that finished first on a core (get_finished_tile).
LEMMA CollectOK ==
    ASSUME NEW run, NEW col, CoresOK(run, col), NEW c \in Cores, col[c] # <<>>
    PROVE  /\ CoresOK(run, [col EXCEPT ![c] = Tail(col[c])])
           /\ Head(col[c]) \in AtCores(run, col)
           /\ AtCores(run, [col EXCEPT ![c] = Tail(col[c])]) = AtCores(run, col) \ {Head(col[c])}
<1> DEFINE q == col[c]
           h == Head(q)
           k == [col EXCEPT ![c] = Tail(q)]
<1>1. q \in Distinct(Tile) /\ q # <<>> BY DEF CoresOK
<1>2. h \in ToSet(q) BY <1>1, MembersOf DEF Distinct
<1>3. Tail(q) \in Distinct(Tile) /\ ToSet(Tail(q)) = ToSet(q) \ {h} BY <1>1, DistinctTail
<1>4. k \in [Cores -> Distinct(Tile)] BY <1>3 DEF CoresOK
<1>5. k[c] = Tail(q) /\ \A d \in Cores \ {c} : k[d] = col[d] BY DEF CoresOK
<1> HIDE DEF h, k
<1>6. ToSet(k[c]) = ToSet(col[c]) \ {h} /\ \A d \in Cores \ {c} : ToSet(k[d]) = ToSet(col[d])
  BY <1>3, <1>5
<1>7. \A d \in Cores : ToSet(k[d]) \subseteq ToSet(col[d]) BY <1>6
<1>8. CoresOK(run, k)
  <2>1. \A b, d \in Cores : run[b] \cap ToSet(k[d]) = {} BY <1>7 DEF CoresOK
  <2>2. \A b, d \in Cores : b # d => run[b] \cap run[d] = {} /\ ToSet(k[b]) \cap ToSet(k[d]) = {}
    BY <1>7 DEF CoresOK
  <2> QED BY <1>4, <2>1, <2>2 DEF CoresOK
<1>9. h \in AtCores(run, col) BY <1>2, InCores
<1>10. ASSUME NEW t PROVE t \in AtCores(run, k) <=> t \in AtCores(run, col) /\ t # h
  <2>1. t = h => t \notin AtCores(run, k)
    <3>1. \A d \in Cores : h \notin run[d] BY <1>2 DEF CoresOK
    <3>2. \A d \in Cores : h \notin ToSet(k[d]) BY <1>2, <1>6 DEF CoresOK
    <3> QED BY <3>1, <3>2, InCores
  <2>2. t # h => \A d \in Cores : t \in ToSet(k[d]) <=> t \in ToSet(col[d]) BY <1>6
  <2> QED BY <2>1, <2>2, InCores
<1> QED BY <1>8, <1>9, <1>10 DEF h, k

\* A tile that computes nothing is finished at once (Core::issue).
LEMMA SkipOK ==
    ASSUME NEW run, NEW col, CoresOK(run, col), NEW c \in Cores,
           NEW t \in Tile, t \notin AtCores(run, col)
    PROVE  /\ CoresOK(run, Kept(col, c, t))
           /\ AtCores(run, Kept(col, c, t)) = AtCores(run, col) \cup {t}
<1> DEFINE k == Kept(col, c, t)
<1>1. \A d \in Cores : t \notin run[d] /\ t \notin ToSet(col[d]) BY InCores
<1>2. col[c] \in Distinct(Tile) BY DEF CoresOK
<1>3. Append(col[c], t) \in Distinct(Tile) /\ ToSet(Append(col[c], t)) = ToSet(col[c]) \cup {t}
  BY <1>1, <1>2, DistinctAppend
<1>4. k \in [Cores -> Distinct(Tile)] BY <1>3 DEF CoresOK, Kept
<1>5. k[c] = Append(col[c], t) /\ \A d \in Cores \ {c} : k[d] = col[d] BY DEF CoresOK, Kept
<1> HIDE DEF k
<1>6. ToSet(k[c]) = ToSet(col[c]) \cup {t} /\ \A d \in Cores \ {c} : ToSet(k[d]) = ToSet(col[d])
  BY <1>3, <1>5
<1>7. CoresOK(run, k)
  <2>1. \A b, d \in Cores : run[b] \cap ToSet(k[d]) = {} BY <1>1, <1>6 DEF CoresOK
  <2>2. \A b, d \in Cores : b # d => ToSet(k[b]) \cap ToSet(k[d]) = {}
    BY <1>1, <1>6 DEF CoresOK
  <2> QED BY <1>4, <2>1, <2>2 DEF CoresOK
<1>8. ASSUME NEW x PROVE x \in AtCores(run, k) <=> x \in AtCores(run, col) \/ x = t
  <2>1. x \in ToSet(k[c]) <=> x \in ToSet(col[c]) \/ x = t BY <1>6
  <2>2. \A d \in Cores \ {c} : x \in ToSet(k[d]) <=> x \in ToSet(col[d]) BY <1>6
  <2> QED BY <2>1, <2>2, InCores
<1> QED BY <1>7, <1>8 DEF k

\* A tile is issued to a core (Core::issue).
LEMMA RunOK ==
    ASSUME NEW run, NEW col, CoresOK(run, col), NEW c \in Cores,
           NEW t \in Tile, t \notin AtCores(run, col)
    PROVE  /\ CoresOK(Given(run, c, t), col)
           /\ AtCores(Given(run, c, t), col) = AtCores(run, col) \cup {t}
<1> DEFINE j == Given(run, c, t)
<1>1. \A d \in Cores : t \notin run[d] /\ t \notin ToSet(col[d]) BY InCores
<1>2. IsFiniteSet(run[c] \cup {t}) BY FS_AddElement DEF CoresOK
<1>3. j \in [Cores -> SUBSET Tile] BY DEF CoresOK, Given
<1>4. j[c] = run[c] \cup {t} /\ \A d \in Cores \ {c} : j[d] = run[d] BY DEF CoresOK, Given
<1> HIDE DEF j
<1>5. CoresOK(j, col)
  <2>1. \A b, d \in Cores : j[b] \cap ToSet(col[d]) = {} BY <1>1, <1>4 DEF CoresOK
  <2>2. \A b, d \in Cores : b # d => j[b] \cap j[d] = {} BY <1>1, <1>4 DEF CoresOK
  <2>3. \A d \in Cores : IsFiniteSet(j[d]) BY <1>2, <1>4 DEF CoresOK
  <2> QED BY <1>3, <2>1, <2>2, <2>3 DEF CoresOK
<1>6. ASSUME NEW x PROVE x \in AtCores(j, col) <=> x \in AtCores(run, col) \/ x = t
  <2>1. x \in j[c] <=> x \in run[c] \/ x = t BY <1>4
  <2>2. \A d \in Cores \ {c} : x \in j[d] <=> x \in run[d] BY <1>4
  <2> QED BY <2>1, <2>2, InCores
<1> QED BY <1>5, <1>6 DEF j

\* A core completes a tile, which then waits to be collected (Core::cycle).
LEMMA CompleteOK ==
    ASSUME NEW run, NEW col, CoresOK(run, col), NEW c \in Cores, NEW t \in run[c]
    PROVE  LET j == [run EXCEPT ![c] = run[c] \ {t}]
               k == [col EXCEPT ![c] = Append(col[c], t)]
           IN  CoresOK(j, k) /\ AtCores(j, k) = AtCores(run, col)
<1> DEFINE j == [run EXCEPT ![c] = run[c] \ {t}]
           k == [col EXCEPT ![c] = Append(col[c], t)]
<1>1. t \in Tile /\ t \in AtCores(run, col) BY InCores DEF CoresOK
<1>2. IsFiniteSet(run[c] \ {t})
  <2>1. run[c] \ {t} \subseteq run[c] OBVIOUS
  <2> QED BY <2>1, FS_Subset DEF CoresOK
<1>3. j \in [Cores -> SUBSET Tile] BY DEF CoresOK
<1>4. j[c] = run[c] \ {t} /\ \A d \in Cores \ {c} : j[d] = run[d] BY DEF CoresOK
<1> HIDE DEF j
<1>5. \A d \in Cores : j[d] \subseteq run[d] BY <1>4
<1>6. CoresOK(j, col)
  <2>1. \A b, d \in Cores : j[b] \cap ToSet(col[d]) = {} BY <1>5 DEF CoresOK
  <2>2. \A b, d \in Cores : b # d => j[b] \cap j[d] = {} BY <1>5 DEF CoresOK
  <2>3. \A d \in Cores : IsFiniteSet(j[d]) BY <1>2, <1>4 DEF CoresOK
  <2> QED BY <1>3, <2>1, <2>2, <2>3 DEF CoresOK
<1>7. ASSUME NEW x PROVE x \in AtCores(j, col) <=> x \in AtCores(run, col) /\ x # t
  <2>1. x = t => x \notin AtCores(j, col)
    <3>1. \A d \in Cores : t \notin ToSet(col[d]) BY DEF CoresOK
    <3>2. \A d \in Cores : t \notin j[d] BY <1>4 DEF CoresOK
    <3> QED BY <3>1, <3>2, InCores
  <2>2. x # t => \A d \in Cores : x \in j[d] <=> x \in run[d] BY <1>4
  <2> QED BY <2>1, <2>2, InCores
<1>8. CoresOK(j, k) /\ AtCores(j, k) = AtCores(j, col) \cup {t}
  <2>1. t \in Tile /\ t \notin AtCores(j, col) BY <1>1, <1>7
  <2>2. k = Kept(col, c, t) BY DEF Kept
  <2> HIDE DEF k
  <2> QED BY <1>6, <2>1, <2>2, SkipOK
<1> HIDE DEF k
<1> QED BY <1>1, <1>7, <1>8 DEF j, k

-----------------------------------------------------------------------------
(* The invariant holds in every state.                                     *)

\* Before a model is launched the scheduler and the cores are empty.
LEMMA TileStarts == SchedInit => TileInv
<1> SUFFICES ASSUME SchedInit PROVE TileInv OBVIOUS
<1> DEFINE s == sched
           X == AtCores(running, collected)
<1>1. \A T : <<>> \in Distinct(T) /\ ToSet(<<>>) = {}
  <2> TAKE T
  <2>1. <<>> \in Seq(T) /\ IsInjective(<<>>) BY DEF IsInjective
  <2> QED BY <2>1 DEF Distinct, ToSet
<1>2. setup \in Setups /\ pending = Models /\ turn = 0 /\ sched = FreshSched
      /\ running = [c \in Cores |-> {}] /\ collected = [c \in Cores |-> <<>>]
  BY DEF SchedInit
<1>3. turn \in Cores BY <1>2, TileSchedulerAssumption DEF Cores
<1>4. CoresOK(running, collected)
  <2>1. \A c \in Cores : running[c] = {} /\ collected[c] = <<>> /\ ToSet(collected[c]) = {}
    BY <1>1, <1>2
  <2>2. running \in [Cores -> SUBSET Tile] BY <1>2
  <2>3. collected \in [Cores -> Distinct(Tile)] BY <1>1, <1>2
  <2> QED BY <2>1, <2>2, <2>3, FS_EmptySet DEF CoresOK
<1>5. X = {}
  <2> SUFFICES ASSUME NEW x PROVE x \notin X OBVIOUS
  <2>1. \A c \in Cores : running[c] = {} /\ ToSet(collected[c]) = {} BY <1>1, <1>2
  <2> QED BY <2>1, InCores
<1>6. QueueKeys = Keys(setup) BY <1>2, SetupFacts
<1>7. /\ s = [f \in SchedFields |-> s[f]]
      /\ s.queue = <<>> /\ s.exec = [m \in Models |-> <<>>] /\ s.done = {}
      /\ s.active = [l \in Layers |-> NoStat]
      /\ s.execQ = [k \in Keys(setup) |-> <<>>] /\ s.coreQ = [c \in Cores |-> <<>>]
      /\ s.rr = 0 /\ s.nrLayer = 0 /\ s.reqRr = 0 /\ s.passes = Passes /\ s.again = {}
  BY <1>2, <1>6 DEF FreshSched, SchedFields
<1> HIDE DEF s, X
<1>8. Typed(setup, s)
  <2>1. s.passes \in [Models -> Int]
    <3>1. Passes \in [Models -> Nat \ {0}] BY TileSchedulerAssumption
    <3>2. \A m \in Models : Passes[m] \in Int BY <3>1
    <3>3. Passes \in [Models -> Int] BY <3>1, <3>2
    <3> QED BY <1>7, <3>3
  <2>2. s.active \in [Layers -> Stat] BY <1>7 DEF Stat
  <2>3. s.execQ \in [Keys(setup) -> Distinct(Tile)] /\ s.coreQ \in [Cores -> Distinct(Tile)]
    BY <1>1, <1>7
  <2>4. s.queue \in Distinct(Models) /\ s.exec \in [Models -> Distinct(Layers)] BY <1>1, <1>7
  <2>5. /\ s.done \subseteq Layers /\ s.again \subseteq Models
        /\ s.rr \in Nat /\ s.nrLayer \in Nat /\ s.reqRr \in Nat
    <3>1. s.done = {} /\ s.again = {} BY <1>7, Zenon
    <3>2. s.rr = 0 /\ s.nrLayer = 0 /\ s.reqRr = 0 BY <1>7, Zenon
    <3> QED BY <3>1, <3>2
  <2>6. s = [f \in SchedFields |-> s[f]] BY <1>7
  <2> QED BY <2>1, <2>2, <2>3, <2>4, <2>5, <2>6 DEF Typed
<1>9. /\ \A k \in DOMAIN s.execQ : ToSet(s.execQ[k]) = {}
      /\ \A c \in Cores : ToSet(s.coreQ[c]) = {}
  BY <1>1, <1>7
<1>10. Apart(s, X) BY <1>9 DEF Apart
<1>11. Counted(s, X)
  <2>1. \A x : x \notin Flying(s, X) BY <1>5, <1>9, InFlying
  <2>2. Flying(s, X) = {} BY <2>1
  <2>3. \A l \in Layers : FlyingOf(s, X, l) = {} BY <2>2 DEF FlyingOf
  <2>4. \A l \in Layers : s.active[l].remain = 0 BY <1>7 DEF NoStat
  <2> QED BY <1>5, <2>2, <2>3, <2>4, FS_EmptySet DEF Counted
<1>12. Active(s) = {} BY <1>7 DEF Active
<1>13. Ordered(setup, s)
  <2>1. \A m \in Models : ToSet(s.exec[m]) = {} BY <1>1, <1>7
  <2> QED BY <1>7, <1>12, <2>1 DEF Ordered
<1>14. Outside(s, pending) BY <1>1, <1>7 DEF Outside
<1>15. PolicyOwn(setup, s)
  <2>1. setup.policy = "spatial_split" => Keys(setup) = Models BY DEF Keys
  <2> QED BY <1>7, <1>9, <1>12, <2>1 DEF PolicyOwn
<1> QED
  BY <1>2, <1>3, <1>4, <1>8, <1>10, <1>11, <1>13, <1>14, <1>15 DEF TileInv, Sound, s, X

\* A turn of the loop: a finished tile is counted, a new one is issued
\* (the core loop of Simulator::cycle).
LEMMA CoreTurnKeeps ==
    ASSUME TileInv, SplitUnbranched, NEW c \in Cores, CoreTurn(c)
    PROVE  TileInv'
<1> DEFINE X == AtCores(running, collected)
           has == collected[c] # <<>>
           s1 == IF collected[c] = <<>> THEN sched ELSE FinishTile(sched, Head(collected[c]))
           rest == IF collected[c] = <<>> THEN <<>> ELSE Tail(collected[c])
           asks == Asks(s1, c)
           q == IF asks THEN QueueFor(s1, c) ELSE <<>>
           s2 == IF asks THEN GetTile(s1, c) ELSE s1
           t == Head(q)
           k == [collected EXCEPT ![c] = rest]
           X1 == AtCores(running, k)
<1>1. /\ setup \in Setups /\ pending \subseteq Models /\ CoresOK(running, collected)
      /\ Sound(setup, sched, X, pending)
  BY DEF TileInv
<1>2. Policy = "spatial_split" => Unbranched(setup) BY <1>1 DEF SplitUnbranched, Policy
<1>3. /\ turn' = (c + 1) % CoreCount /\ setup' = setup
      /\ sched' = [s2 EXCEPT !.again = {}]
      /\ pending' = pending \cup s2.again
      /\ \/ q = <<>> /\ running' = running /\ collected' = [collected EXCEPT ![c] = rest]
         \/ /\ q # <<>> /\ running' = running
            /\ collected' = [collected EXCEPT ![c] = Append(rest, Head(q))]
         \/ /\ q # <<>> /\ running' = [running EXCEPT ![c] = @ \cup {Head(q)}]
            /\ collected' = [collected EXCEPT ![c] = rest]
  <2> DEFINE Turn(r, p, b) ==
               /\ sched' = [b EXCEPT !.again = {}]
               /\ pending' = pending \cup b.again
               /\ \/ p = <<>> /\ running' = running /\ collected' = [collected EXCEPT ![c] = r]
                  \/ /\ p # <<>> /\ Head(p).layer \in Skipped
                     /\ collected' = [collected EXCEPT ![c] = Append(r, Head(p))]
                     /\ running' = running
                  \/ /\ p # <<>> /\ Head(p).layer \notin Skipped
                     /\ running' = [running EXCEPT ![c] = @ \cup {Head(p)}]
                     /\ collected' = [collected EXCEPT ![c] = r]
             S2(a) == IF Asks(a, c) THEN GetTile(a, c) ELSE a
             Q(a) == IF Asks(a, c) THEN QueueFor(a, c) ELSE <<>>
  <2>1. \E a \in {s1} : \E r \in {rest} : \E p \in {Q(a)} : \E b \in {S2(a)} : Turn(r, p, b)
    BY DEF CoreTurn
  <2>2. q = Q(s1) /\ s2 = S2(s1) OBVIOUS
  <2>3. Turn(rest, Q(s1), S2(s1))
    <3> HIDE DEF s1, rest, Q, S2, Turn
    <3> QED BY <2>1
  <2>4. turn' = (c + 1) % CoreCount /\ setup' = setup BY DEF CoreTurn
  <2>5. Turn(rest, q, s2)
    <3> HIDE DEF s1, rest, Q, S2, Turn, q, s2
    <3> QED BY <2>2, <2>3
  <2> HIDE DEF s1, rest, q, s2
  <2> QED BY <2>4, <2>5
<1>4. CoresOK(running, k) /\ k[c] = rest /\ Sound(setup, s1, X1, pending)
  <2>0. collected \in [Cores -> Distinct(Tile)] BY <1>1 DEF CoresOK
  <2>1. CASE collected[c] = <<>>
    <3>1. k = collected BY <2>0, <2>1
    <3>2. s1 = sched BY <2>1
    <3> HIDE DEF k, s1
    <3> QED BY <1>1, <2>1, <3>1, <3>2
  <2>2. CASE collected[c] # <<>>
    <3> DEFINE h == Head(collected[c])
               j == [collected EXCEPT ![c] = Tail(collected[c])]
    <3>1. CoresOK(running, j) /\ h \in X /\ AtCores(running, j) = X \ {h}
      BY <1>1, <2>2, CollectOK
    <3>2. k = j /\ s1 = FinishTile(sched, h) /\ k[c] = rest BY <2>0, <2>2
    <3> HIDE DEF X, h, j, k, s1, rest
    <3>3. Sound(setup, FinishTile(sched, h), X \ {h}, pending)
      BY <1>1, <1>2, <3>1, FinishTileSound
    <3> QED BY <3>1, <3>2, <3>3
  <2> QED BY <2>1, <2>2
<1> HIDE DEF X, s1, rest
<1>5. /\ q = <<>> => Sound(setup, s2, X1, pending)
      /\ q # <<>> => Sound(setup, s2, X1 \cup {t}, pending) /\ t \in Tile /\ t \notin X1
  <2>1. CASE asks
    <3>1. q = QueueFor(s1, c) /\ s2 = GetTile(s1, c) /\ s1.queue # <<>> BY <2>1 DEF Asks
    <3> HIDE DEF X1, q, s2
    <3>2. /\ QueueFor(s1, c) = <<>> => Sound(setup, GetTile(s1, c), X1, pending)
          /\ QueueFor(s1, c) # <<>> =>
               /\ Sound(setup, GetTile(s1, c), X1 \cup {Head(QueueFor(s1, c))}, pending)
               /\ Head(QueueFor(s1, c)) \in Tile /\ Head(QueueFor(s1, c)) \notin X1
      BY <1>1, <1>4, <3>1, GetTileSound
    <3> QED BY <3>1, <3>2
  <2>2. CASE ~asks
    <3>1. q = <<>> /\ s2 = s1 BY <2>2
    <3> QED BY <1>4, <3>1
  <2> QED BY <2>1, <2>2
<1> HIDE DEF q, s2, t, X1
<1>6. ASSUME NEW Y, Sound(setup, s2, Y, pending)
      PROVE  Sound(setup', sched', Y, pending') /\ pending' \subseteq Models
  <2>1. s2.again \subseteq Models BY <1>6 DEF Sound, Typed
  <2>2. Sound(setup, [s2 EXCEPT !.again = {}], Y, pending \cup s2.again)
    BY <1>6, Reregistered
  <2> QED BY <1>1, <1>3, <2>1, <2>2
<1>7. turn' \in Cores
  <2>1. c \in Nat /\ CoreCount \in Nat \ {0} BY TileSchedulerAssumption DEF Cores
  <2> QED BY <1>3, <2>1 DEF Cores
<1>8. collected \in [Cores -> Distinct(Tile)] BY <1>1 DEF CoresOK
<1>9. CoresOK(running', collected')
      /\ Sound(setup', sched', AtCores(running', collected'), pending') /\ pending' \subseteq Models
  <2>1. CASE q = <<>> /\ running' = running /\ collected' = [collected EXCEPT ![c] = rest]
    <3>1. Sound(setup, s2, X1, pending) BY <1>5, <2>1
    <3>2. Sound(setup', sched', X1, pending') /\ pending' \subseteq Models BY <1>6, <3>1
    <3>3. running' = running /\ collected' = k BY <2>1
    <3> HIDE DEF k
    <3> QED BY <1>4, <3>2, <3>3 DEF X1
  <2>2. CASE /\ q # <<>> /\ running' = running
             /\ collected' = [collected EXCEPT ![c] = Append(rest, Head(q))]
    <3>1. Sound(setup, s2, X1 \cup {t}, pending) /\ t \in Tile /\ t \notin X1 BY <1>5, <2>2
    <3>2. Sound(setup', sched', X1 \cup {t}, pending') /\ pending' \subseteq Models BY <1>6, <3>1
    <3>3. collected' = Kept(k, c, t) BY <1>4, <1>8, <2>2 DEF t, Kept
    <3> HIDE DEF k
    <3>4. t \notin AtCores(running, k) BY <3>1 DEF X1
    <3>5. CoresOK(running, collected') /\ AtCores(running, collected') = AtCores(running, k) \cup {t}
      BY <1>4, <3>1, <3>3, <3>4, SkipOK
    <3> QED BY <2>2, <3>2, <3>5 DEF X1
  <2>3. CASE /\ q # <<>> /\ running' = [running EXCEPT ![c] = @ \cup {Head(q)}]
             /\ collected' = [collected EXCEPT ![c] = rest]
    <3>1. Sound(setup, s2, X1 \cup {t}, pending) /\ t \in Tile /\ t \notin X1 BY <1>5, <2>3
    <3>2. Sound(setup', sched', X1 \cup {t}, pending') /\ pending' \subseteq Models BY <1>6, <3>1
    <3>3. running' = Given(running, c, t) /\ collected' = k BY <2>3 DEF t, Given
    <3> HIDE DEF k
    <3>4. t \notin AtCores(running, k) BY <3>1 DEF X1
    <3>5. CoresOK(running', k) /\ AtCores(running', k) = AtCores(running, k) \cup {t}
      BY <1>4, <3>1, <3>3, <3>4, RunOK
    <3> QED BY <3>2, <3>3, <3>5 DEF X1
  <2> QED BY <1>3, <2>1, <2>2, <2>3
<1> QED BY <1>1, <1>3, <1>7, <1>9 DEF TileInv

\* Every step keeps the invariant.
LEMMA TileSteps ==
    ASSUME TileInv, SplitUnbranched, [SchedNext]_schedVars
    PROVE  TileInv'
<1>1. /\ setup \in Setups /\ pending \subseteq Models /\ CoresOK(running, collected)
      /\ turn \in Cores
      /\ Sound(setup, sched, AtCores(running, collected), pending)
  BY DEF TileInv
<1>2. CASE Launch
  <2>1. PICK m \in pending : pending' = pending \ {m} /\ sched' = ScheduleModel(sched, m)
    BY <1>2 DEF Launch
  <2>2. Sound(setup, ScheduleModel(sched, m), AtCores(running, collected), pending \ {m})
    BY <1>1, ScheduleModelSound
  <2>3. setup' = setup /\ running' = running /\ collected' = collected /\ turn' = turn
    BY <1>2 DEF Launch
  <2>4. Sound(setup', sched', AtCores(running', collected'), pending')
    BY <2>1, <2>2, <2>3
  <2> QED BY <1>1, <2>1, <2>3, <2>4 DEF TileInv
<1>3. CASE \E c \in Cores : CoreTurn(c)
  BY <1>3, CoreTurnKeeps
<1>4. CASE \E c \in Cores : \E t \in running[c] : Complete(c, t)
  <2>0. PICK c \in Cores : \E t \in running[c] : Complete(c, t) BY <1>4
  <2>1. PICK t \in running[c] : Complete(c, t) BY <2>0
  <2>2. /\ running' = [running EXCEPT ![c] = running[c] \ {t}]
        /\ collected' = [collected EXCEPT ![c] = Append(collected[c], t)]
        /\ setup' = setup /\ pending' = pending /\ sched' = sched /\ turn' = turn
    BY <2>1 DEF Complete
  <2>3. /\ CoresOK([running EXCEPT ![c] = running[c] \ {t}],
                   [collected EXCEPT ![c] = Append(collected[c], t)])
        /\ AtCores([running EXCEPT ![c] = running[c] \ {t}],
                   [collected EXCEPT ![c] = Append(collected[c], t)]) = AtCores(running, collected)
    BY <1>1, CompleteOK
  <2>4. CoresOK(running', collected') /\ AtCores(running', collected') = AtCores(running, collected)
    BY <2>2, <2>3
  <2>5. Sound(setup', sched', AtCores(running', collected'), pending') BY <1>1, <2>2, <2>4
  <2> QED BY <1>1, <2>2, <2>4, <2>5 DEF TileInv
<1>5. CASE UNCHANGED schedVars
  BY <1>5 DEF TileInv, schedVars
<1> QED BY <1>2, <1>3, <1>4, <1>5 DEF SchedNext

\* In every state every tile that is not done is in one place, and the graph
\* of every model runs in order.
THEOREM TileInvHolds ==
    ASSUME SplitUnbranched
    PROVE  SchedSpec => []TileInv
<1>1. SchedInit => TileInv BY TileStarts
<1>2. TileInv /\ [SchedNext]_schedVars => TileInv' BY TileSteps
<1> QED BY <1>1, <1>2, PTL DEF SchedSpec

-----------------------------------------------------------------------------
(* The properties.                                                         *)

\* In a queue without repetitions a layer has as many places as tiles.
LEMMA PlacesOf ==
    ASSUME NEW q \in Distinct(Tile), NEW l
    PROVE  /\ IsFiniteSet({t \in ToSet(q) : t.layer = l})
           /\ Cardinality({i \in DOMAIN q : q[i].layer = l}) = Cardinality({t \in ToSet(q) : t.layer = l})
<1> DEFINE D == {i \in DOMAIN q : q[i].layer = l}
           T == {t \in ToSet(q) : t.layer = l}
           f == [i \in D |-> q[i]]
<1>1. q \in Seq(Tile) /\ Len(q) \in Nat /\ DOMAIN q = 1 .. Len(q) BY LenProperties DEF Distinct
<1>2. \A i, j \in DOMAIN q : q[i] = q[j] => i = j BY DEF Distinct, IsInjective
<1>3. IsFiniteSet(D)
  <2>1. D \subseteq 1 .. Len(q) BY <1>1
  <2>2. IsFiniteSet(1 .. Len(q)) BY <1>1, FS_Interval
  <2> QED BY <2>1, <2>2, FS_Subset
<1>4. ToSet(q) = {q[i] : i \in DOMAIN q} BY DEF ToSet
<1>5. f \in [D -> T] BY <1>4
<1>6. \A i \in D : i \in DOMAIN q /\ f[i] = q[i] OBVIOUS
<1>7. \A t \in T : \E i \in D : f[i] = t BY <1>4
<1> HIDE DEF D, T, f
<1>8. \A i, j \in D : f[i] = f[j] => i = j BY <1>2, <1>6
<1>9. f \in Bijection(D, T)
  <2>1. IsInjective(f) BY <1>5, <1>8 DEF IsInjective
  <2> QED BY <1>5, <1>7, <2>1 DEF Bijection, Injection, Surjection
<1>10. IsFiniteSet(T) /\ Cardinality(T) = Cardinality(D)
  <2>1. ExistsBijection(D, T) BY <1>9 DEF ExistsBijection
  <2> QED BY <1>3, <2>1, FS_Bijection
<1> QED BY <1>10 DEF D, T

\* The keys of the tile queues and the cores are finitely many.
LEMMA FiniteKeys ==
    ASSUME setup \in Setups
    PROVE  IsFiniteSet(Keys(setup)) /\ IsFiniteSet(Cores)
<1>1. IsFiniteSet(Cores)
  <2>1. CoreCount \in Nat BY TileSchedulerAssumption
  <2>2. 0 \in Int /\ CoreCount - 1 \in Int BY <2>1
  <2> QED BY <2>2, FS_Interval DEF Cores
<1>2. CASE setup.policy = "spatial_split"
  BY <1>1, <1>2, TileSchedulerAssumption DEF Keys
<1>3. CASE setup.policy # "spatial_split"
  <2> DEFINE P == {setup.partitionOf[c] : c \in Cores}
  <2>1. setup.partitionOf \in [Cores -> Nat] BY TileSchedulerAssumption
  <2>2. setup.partitionOf \in Surjection(Cores, P) BY <2>1 DEF Surjection
  <2>3. IsFiniteSet(P)
    <3> HIDE DEF P
    <3> QED BY <1>1, <2>2, FS_Surjection
  <2> QED BY <1>1, <1>3, <2>3 DEF Keys
<1> QED BY <1>2, <1>3

\* The count of the tiles place by place is the number of tiles in flight.
LEMMA InFlightIs ==
    ASSUME TileInv, NEW l \in Layers
    PROVE  /\ InFlight(l) = Cardinality(FlyingOf(sched, AtCores(running, collected), l))
           /\ InFlight(l) = sched.active[l].remain /\ InFlight(l) \in Nat
<1> DEFINE K == Keys(setup)
           X == AtCores(running, collected)
           Of(T) == {t \in T : t.layer = l}
           Size(q) == Cardinality({i \in DOMAIN q : q[i].layer = l})
           E == [k \in K |-> Of(ToSet(sched.execQ[k]))]
           C == [c \in Cores |-> Of(ToSet(sched.coreQ[c]) \cup ToSet(collected[c]) \cup running[c])]
           UE == UnionOf(E, K)
           UC == UnionOf(C, Cores)
<1>1. /\ setup \in Setups /\ CoresOK(running, collected) /\ Sound(setup, sched, X, pending)
      /\ QueueKeys = K
  BY SetupFacts DEF TileInv
<1>2. /\ sched.execQ \in [K -> Distinct(Tile)] /\ sched.coreQ \in [Cores -> Distinct(Tile)]
      /\ collected \in [Cores -> Distinct(Tile)] /\ \A c \in Cores : IsFiniteSet(running[c])
  BY <1>1 DEF Sound, Typed, CoresOK
<1>3. InFlight(l) = SumOver([k \in K |-> Size(sched.execQ[k])], K)
                    + SumOver([c \in Cores |-> Size(sched.coreQ[c]) + Size(collected[c])
                                               + Cardinality(Of(running[c]))], Cores)
  <2>1. MapThenSumSet(LAMBDA k : Size(sched.execQ[k]), K)
          = SumOver([k \in K |-> Size(sched.execQ[k])], K)
    <3> HIDE DEF K
    <3> QED BY ZenonT(30) DEF MapThenSumSet, MapThenFoldSet, SumOver, Partial, Solves, Elem
  <2>2. MapThenSumSet(LAMBDA c : Size(sched.coreQ[c]) + Size(collected[c])
                                 + Cardinality(Of(running[c])), Cores)
          = SumOver([c \in Cores |-> Size(sched.coreQ[c]) + Size(collected[c])
                                     + Cardinality(Of(running[c]))], Cores)
    BY ZenonT(30) DEF MapThenSumSet, MapThenFoldSet, SumOver, Partial, Solves, Elem
  <2> QED BY <1>1, <2>1, <2>2, ZenonT(30) DEF InFlight
<1>4. IsFiniteSet(K) /\ IsFiniteSet(Cores) BY <1>1, FiniteKeys
<1>5. \A q \in Distinct(Tile) : IsFiniteSet(Of(ToSet(q))) /\ Size(q) = Cardinality(Of(ToSet(q)))
  BY PlacesOf
<1> HIDE DEF K
<1>6. \A k \in K : IsFiniteSet(E[k]) /\ Size(sched.execQ[k]) = Cardinality(E[k]) BY <1>2, <1>5
<1>7. \A c \in Cores : /\ IsFiniteSet(C[c])
                       /\ Size(sched.coreQ[c]) + Size(collected[c]) + Cardinality(Of(running[c]))
                            = Cardinality(C[c])
  <2> TAKE c \in Cores
  <2> DEFINE Q == Of(ToSet(sched.coreQ[c]))
             F == Of(ToSet(collected[c]))
             R == Of(running[c])
  <2>1. /\ IsFiniteSet(Q) /\ Size(sched.coreQ[c]) = Cardinality(Q)
        /\ IsFiniteSet(F) /\ Size(collected[c]) = Cardinality(F)
    BY <1>2, <1>5
  <2>2. IsFiniteSet(R)
    <3>1. R \subseteq running[c] OBVIOUS
    <3> QED BY <1>2, <3>1, FS_Subset
  <2>3. C[c] = (Q \cup F) \cup R OBVIOUS
  <2>4. Q \cap F = {} /\ (Q \cup F) \cap R = {}
    <3>1. \A t \in ToSet(sched.coreQ[c]) : t \notin X BY <1>1 DEF Sound, Apart
    <3>2. ToSet(collected[c]) \subseteq X /\ running[c] \subseteq X BY InCores
    <3>3. running[c] \cap ToSet(collected[c]) = {} BY <1>1 DEF CoresOK
    <3> QED BY <3>1, <3>2, <3>3
  <2> HIDE DEF Q, F, R, Size, C
  <2>5. Cardinality(Q) \in Nat /\ Cardinality(F) \in Nat /\ Cardinality(R) \in Nat
    BY <2>1, <2>2, FS_CardinalityType
  <2>6. IsFiniteSet(Q \cup F) /\ Cardinality(Q \cup F) = Cardinality(Q) + Cardinality(F)
    <3>1. /\ IsFiniteSet(Q \cup F)
          /\ Cardinality(Q \cup F) = Cardinality(Q) + Cardinality(F) - Cardinality(Q \cap F)
      BY <2>1, FS_Union
    <3>2. Cardinality(Q \cap F) = 0 BY <2>4, FS_EmptySet
    <3> QED BY <2>5, <3>1, <3>2
  <2>7. IsFiniteSet((Q \cup F) \cup R)
        /\ Cardinality((Q \cup F) \cup R) = Cardinality(Q \cup F) + Cardinality(R)
    <3> DEFINE G == Q \cup F
    <3>1. Cardinality(G \cap R) = 0 BY <2>4, FS_EmptySet
    <3>2. IsFiniteSet(G) /\ Cardinality(G) \in Nat BY <2>6, FS_CardinalityType
    <3> HIDE DEF G
    <3>3. /\ IsFiniteSet(G \cup R)
          /\ Cardinality(G \cup R) = Cardinality(G) + Cardinality(R) - Cardinality(G \cap R)
      BY <2>2, <3>2, FS_Union
    <3>4. IsFiniteSet(G \cup R) /\ Cardinality(G \cup R) = Cardinality(G) + Cardinality(R)
      BY <2>5, <3>1, <3>2, <3>3
    <3> QED BY <3>4 DEF G
  <2>8. Cardinality(C[c]) = Cardinality(Q) + Cardinality(F) + Cardinality(R)
    BY <2>3, <2>5, <2>6, <2>7
  <2> QED BY <2>1, <2>3, <2>7, <2>8 DEF R
<1>8. \A k, j \in K : k # j => E[k] \cap E[j] = {} BY <1>1, <1>2 DEF Sound, Apart
<1>9. \A c, d \in Cores : c # d => C[c] \cap C[d] = {}
  <2> TAKE c, d \in Cores
  <2> HAVE c # d
  <2>1. \A t \in ToSet(sched.coreQ[c]) : t \notin ToSet(sched.coreQ[d]) /\ t \notin X
    BY <1>1 DEF Sound, Apart
  <2>2. \A t \in ToSet(sched.coreQ[d]) : t \notin X BY <1>1 DEF Sound, Apart
  <2>3. /\ ToSet(collected[c]) \subseteq X /\ running[c] \subseteq X
        /\ ToSet(collected[d]) \subseteq X /\ running[d] \subseteq X
    BY InCores
  <2>4. /\ running[c] \cap ToSet(collected[d]) = {} /\ running[d] \cap ToSet(collected[c]) = {}
        /\ running[c] \cap running[d] = {} /\ ToSet(collected[c]) \cap ToSet(collected[d]) = {}
    BY <1>1 DEF CoresOK
  <2> HIDE DEF X
  <2>5. ASSUME NEW t \in C[c], t \in C[d] PROVE FALSE
    <3>1. /\ t \in ToSet(sched.coreQ[c]) \/ t \in ToSet(collected[c]) \/ t \in running[c]
          /\ t \in ToSet(sched.coreQ[d]) \/ t \in ToSet(collected[d]) \/ t \in running[d]
      BY <2>5
    <3> HIDE DEF C
    <3> QED BY <2>1, <2>2, <2>3, <2>4, <3>1
  <2> QED BY <2>5
<1>10. UE \cap UC = {}
  <2> USE DEF UnionOf
  <2> SUFFICES ASSUME NEW t \in UE, t \in UC PROVE FALSE OBVIOUS
  <2>1. PICK k \in K : t \in ToSet(sched.execQ[k]) OBVIOUS
  <2>2. PICK c \in Cores : \/ t \in ToSet(sched.coreQ[c]) \/ t \in ToSet(collected[c])
                           \/ t \in running[c]
    OBVIOUS
  <2>3. t \notin ToSet(sched.coreQ[c]) /\ t \notin X BY <1>1, <1>2, <2>1 DEF Sound, Apart
  <2>4. t \in ToSet(collected[c]) \/ t \in running[c] => t \in X BY InCores
  <2> QED BY <2>2, <2>3, <2>4
<1>11. FlyingOf(sched, X, l) = UE \cup UC
  <2> USE DEF UnionOf
  <2> SUFFICES ASSUME NEW t PROVE t \in FlyingOf(sched, X, l) <=> t \in UE \/ t \in UC OBVIOUS
  <2>1. t \in FlyingOf(sched, X, l) <=>
          /\ t.layer = l
          /\ \/ t \in X \/ \E k \in K : t \in ToSet(sched.execQ[k])
             \/ \E c \in Cores : t \in ToSet(sched.coreQ[c])
    BY <1>2, InFlying DEF FlyingOf
  <2>2. t \in UE <=> t.layer = l /\ \E k \in K : t \in ToSet(sched.execQ[k]) OBVIOUS
  <2>3. t \in UC <=> t.layer = l /\ \E c \in Cores : \/ t \in ToSet(sched.coreQ[c])
                                                   \/ t \in running[c] \/ t \in ToSet(collected[c])
    OBVIOUS
  <2>4. t \in X <=> \E c \in Cores : t \in running[c] \/ t \in ToSet(collected[c]) BY InCores
  <2> QED BY <2>1, <2>2, <2>3, <2>4
<1>12. SumOver([k \in K |-> Size(sched.execQ[k])], K) = Cardinality(UE) /\ IsFiniteSet(UE)
  <2>1. [k \in K |-> Size(sched.execQ[k])] = SizesOf(E, K) BY <1>6 DEF SizesOf
  <2> HIDE DEF E, Size
  <2> QED BY <1>4, <1>6, <1>8, <2>1, SumOfSizes
<1>13. /\ SumOver([c \in Cores |-> Size(sched.coreQ[c]) + Size(collected[c])
                                   + Cardinality(Of(running[c]))], Cores) = Cardinality(UC)
       /\ IsFiniteSet(UC)
  <2>1. [c \in Cores |-> Size(sched.coreQ[c]) + Size(collected[c]) + Cardinality(Of(running[c]))]
          = SizesOf(C, Cores)
    <3> HIDE DEF C, Size, Of
    <3> QED BY <1>7 DEF SizesOf
  <2> HIDE DEF C, Size, Of
  <2> QED BY <1>4, <1>7, <1>9, <2>1, SumOfSizes
<1>14. InFlight(l) = Cardinality(UE) + Cardinality(UC)
  <2> HIDE DEF UE, UC, Size, Of
  <2> QED BY <1>3, <1>12, <1>13
<1>15. Cardinality(UE \cup UC) = Cardinality(UE) + Cardinality(UC)
       /\ Cardinality(UE) \in Nat /\ Cardinality(UC) \in Nat
  <2> HIDE DEF UE, UC
  <2>1. Cardinality(UE \cup UC) = Cardinality(UE) + Cardinality(UC) - Cardinality(UE \cap UC)
    BY <1>12, <1>13, FS_Union
  <2>2. Cardinality(UE \cap UC) = 0 BY <1>10, FS_EmptySet
  <2>3. Cardinality(UE) \in Nat /\ Cardinality(UC) \in Nat BY <1>12, <1>13, FS_CardinalityType
  <2> QED BY <2>1, <2>2, <2>3
<1>16. sched.active[l].remain = Cardinality(FlyingOf(sched, X, l)) BY <1>1 DEF Sound, Counted
<1> HIDE DEF UE, UC, X
<1> QED BY <1>11, <1>14, <1>15, <1>16 DEF X

\* Only an active layer has tiles in flight.
LEMMA FlightActive ==
    ASSUME TileInv, NEW l \in Layers
    PROVE  l \notin Active(sched) => InFlight(l) = 0
<1>1. InFlight(l) = sched.active[l].remain BY InFlightIs
<1> QED BY <1>1 DEF Active, NoStat

\* What the two properties say of a state follows from the invariant.
LEMMA InvSafe == TileInv => LayersInOrder /\ RetiredClean
<1> SUFFICES ASSUME TileInv PROVE LayersInOrder /\ RetiredClean OBVIOUS
<1>1. Typed(setup, sched) /\ Ordered(setup, sched) /\ PolicyOwn(setup, sched)
  BY DEF TileInv, Sound
<1>2. \A q, x : Contains(q, x) <=> \E i \in 1 .. Len(q) : q[i] = x BY DEF Contains
<1>3. \A S : \A q \in Distinct(S) : DOMAIN q = 1 .. Len(q) /\ IsInjective(q)
  BY LenProperties DEF Distinct
<1>4. \A S : \A q \in Distinct(S) : \A x : Contains(q, x) <=> x \in ToSet(q)
  BY <1>2, <1>3 DEF ToSet
<1>5. RemainCounts BY InFlightIs DEF RemainCounts
<1>6. ASSUME NEW l \in Layers, InFlight(l) > 0 PROVE Needs[l] \subseteq sched.done
  <2>1. l \in Active(sched)
    <3>1. l \notin Active(sched) => InFlight(l) = 0 BY FlightActive
    <3> QED BY <1>6, <3>1
  <2> QED BY <1>1, <2>1 DEF Ordered, Needs
<1>7. ASSUME NEW l \in sched.done
      PROVE  InFlight(l) = 0 /\ ~Contains(sched.exec[ModelOf[l]], l)
  <2>1. l \in Layers /\ ModelOf[l] \in Models BY <1>1, TileSchedulerAssumption DEF Typed
  <2>2. l \notin Active(sched) BY <1>1 DEF Ordered
  <2>3. InFlight(l) = 0 BY <2>1, <2>2, FlightActive
  <2>4. l \notin ToSet(sched.exec[ModelOf[l]]) BY <1>1, <2>1 DEF Ordered
  <2>5. sched.exec[ModelOf[l]] \in Distinct(Layers) BY <1>1, <2>1 DEF Typed
  <2> QED BY <1>4, <2>3, <2>4, <2>5
<1>8. \A m \in Models : IsInjective(sched.exec[m]) BY <1>1, <1>3 DEF Typed
<1>9. LayersInOrder BY <1>5, <1>6, <1>7, <1>8 DEF LayersInOrder
<1>10. ASSUME NEW m \in Models, ~Contains(sched.queue, m), NEW l \in LayersOf(m)
       PROVE  InFlight(l) = 0 /\ l \notin Active(sched)
  <2>1. l \in Layers /\ ModelOf[l] = m BY DEF LayersOf
  <2>2. m \notin ToSet(sched.queue) BY <1>1, <1>4, <1>10 DEF Typed
  <2>3. l \notin Active(sched) BY <1>1, <2>1, <2>2 DEF Ordered
  <2> QED BY <2>1, <2>3, FlightActive
<1>11. FrontOwnsActive
  <2> SUFFICES ASSUME Policy = "simple", NEW l \in Active(sched)
               PROVE  sched.queue # <<>> /\ ModelOf[l] = Head(sched.queue)
    BY DEF FrontOwnsActive
  <2> QED BY <1>1 DEF PolicyOwn, Policy
<1> QED BY <1>9, <1>10, <1>11 DEF RetiredClean

\* A layer's count of remaining tiles is always the number of its tiles that
\* are queued, running or waiting to be collected, it is queued only after
\* every layer it reads from has finished, and it never runs a second time
\* (refresh_status, finish_tile, Model::set_layer_finish).
THEOREM LayersInOrderHolds ==
    ASSUME SplitUnbranched
    PROVE  SchedSpec => []LayersInOrder
<1>1. SchedSpec => []TileInv BY TileInvHolds
<1>2. TileInv => LayersInOrder BY InvSafe
<1> QED BY <1>1, <1>2, PTL

\* A model that left the request queue took all its tiles with it, and the
\* simple scheduler works on the front request only (refresh_status,
\* finish_tile).
THEOREM RetiredCleanHolds ==
    ASSUME SplitUnbranched
    PROVE  SchedSpec => []RetiredClean
<1>1. SchedSpec => []TileInv BY TileInvHolds
<1>2. TileInv => RetiredClean BY InvSafe
<1> QED BY <1>1, <1>2, PTL

=============================================================================
