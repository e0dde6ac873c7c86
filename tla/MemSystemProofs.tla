-------------------------- MODULE MemSystemProofs --------------------------
(***************************************************************************)
(* Proofs about MemSystem: for any number of cores, any channels, delays   *)
(* and clock ratios and any program, every answer is the one asked for,    *)
(* once and at its core, the simple memory answers each channel in order,  *)
(* and no node of the interconnect loses more turns than there are others. *)
(*                                                                         *)
(* An access passes eight queues; Flat lays the transport out as these,    *)
(* with `Stops' numbered from the answers (1) back to the requests (8).    *)
(* The invariant MemInv says of each queue that its accesses belong there  *)
(* (Routed) and were asked for (Known), and of each core and channel that  *)
(* the numbers of its accesses, read along the way, are all different and  *)
(* with the simple memory rise (Ordered): the order of the answers cannot  *)
(* be kept without that of everything behind them.  Every handler moves at *)
(* most one access of a queue to the next one (Steps), which keeps both    *)
(* (FlatStep).  TurnsOK bounds the turns lost by those still to come.      *)
(***************************************************************************)
EXTENDS MemSystem, DataFacts

-----------------------------------------------------------------------------
(* Numbers on their way through eight queues.                              *)

\* Eight queues in a row, the first one at the end of the way.  Numbers pass
\* in order, each once; zeros do not count.
Stops == 1 .. 8
Before(k, i, l, j) == k < l \/ (k = l /\ i < j)
Ordered(W, simple) ==
    \A k, l \in Stops : \A i \in 1 .. Len(W[k]), j \in 1 .. Len(W[l]) :
        Before(k, i, l, j) /\ W[k][i] # 0 /\ W[l][j] # 0 =>
            W[k][i] # W[l][j] /\ (simple => W[k][i] < W[l][j])

Rest(q, d) == IF d = 0 THEN Len(q) ELSE Len(q) - 1
Old(d, i) == IF d = 0 \/ i < d THEN i ELSE i + 1

WayMoves(W, V, d, simple) ==
    \A k \in Stops :
      /\ W[k] \in Seq(Nat) /\ V[k] \in Seq(Nat) /\ d[k] \in 0 .. Len(W[k])
      /\ simple => d[k] \in {0, 1}
      /\ Len(V[k]) \in {Rest(W[k], d[k]), Rest(W[k], d[k]) + 1}
      /\ \A i \in 1 .. Rest(W[k], d[k]) : V[k][i] = W[k][Old(d[k], i)]
      /\ Len(V[k]) = Rest(W[k], d[k]) + 1 /\ V[k][Len(V[k])] # 0 =>
           k < 8 /\ d[k + 1] # 0 /\ V[k][Len(V[k])] = W[k + 1][d[k + 1]]

\* Every queue may lose its d-th element and gain one that its successor
\* lost (or one that does not count).
LEMMA WayStep ==
    ASSUME NEW W, NEW V, NEW d, NEW simple, WayMoves(W, V, d, simple),
           Ordered(W, simple)
    PROVE  Ordered(V, simple)
<1> DEFINE N(k) == Len(W[k])
           M(k) == Len(V[k])
           R(k) == Rest(W[k], d[k])
           PK(k, i) == IF i <= R(k) THEN k ELSE k + 1
           PI(k, i) == IF i <= R(k) THEN Old(d[k], i) ELSE d[k + 1]
<1> USE DEF WayMoves
<1>1. \A k \in Stops : /\ N(k) \in Nat /\ M(k) \in Nat /\ R(k) \in Nat /\ R(k) <= N(k)
                       /\ M(k) \in {R(k), R(k) + 1} /\ d[k] \in 0 .. N(k)
                       /\ R(k) = (IF d[k] = 0 THEN N(k) ELSE N(k) - 1)
                       /\ simple => d[k] \in {0, 1}
  <2> TAKE k \in Stops
  <2>1. N(k) \in Nat /\ M(k) \in Nat
    BY LenProperties
  <2>2. R(k) = (IF d[k] = 0 THEN N(k) ELSE N(k) - 1) /\ d[k] \in 0 .. N(k) /\ M(k) \in {R(k), R(k) + 1}
        /\ (simple => d[k] \in {0, 1})
    BY DEF Rest
  <2> HIDE DEF N, M, R
  <2> QED
    BY <2>1, <2>2
<1>2. ASSUME NEW k \in Stops, NEW i \in 1 .. M(k), V[k][i] # 0
      PROVE  PK(k, i) \in Stops /\ PI(k, i) \in 1 .. N(PK(k, i)) /\ W[PK(k, i)][PI(k, i)] = V[k][i]
  <2>1. CASE i <= R(k)
    <3>1. V[k][i] = W[k][Old(d[k], i)]
      BY <1>1, <2>1
    <3>2. Old(d[k], i) \in 1 .. N(k)
      <4> HIDE DEF N, M, R
      <4> QED
        BY <1>1, <2>1 DEF Old
    <3> QED
      BY <2>1, <3>1, <3>2
  <2>2. CASE ~(i <= R(k))
    <3>1. i = M(k) /\ M(k) = R(k) + 1
      <4> HIDE DEF N, M, R
      <4> QED
        BY <1>1, <2>2
    <3>2. k < 8 /\ d[k + 1] # 0 /\ V[k][i] = W[k + 1][d[k + 1]]
      BY <1>2, <3>1
    <3>3. k + 1 \in Stops
      BY <3>2 DEF Stops
    <3>4. d[k + 1] \in 1 .. N(k + 1)
      <4>1. d[k + 1] \in 0 .. N(k + 1) /\ N(k + 1) \in Nat
        BY <1>1, <3>3
      <4> HIDE DEF N, M, R
      <4> QED
        BY <3>2, <4>1
    <3> QED
      BY <2>2, <3>2, <3>3, <3>4
  <2> QED
    BY <2>1, <2>2
<1>3. ASSUME NEW k \in Stops, NEW i \in 1 .. M(k), NEW l \in Stops, NEW j \in 1 .. M(l),
             Before(k, i, l, j), V[k][i] # 0, V[l][j] # 0
      PROVE  \/ Before(PK(k, i), PI(k, i), PK(l, j), PI(l, j))
             \/ ~simple /\ Before(PK(l, j), PI(l, j), PK(k, i), PI(k, i))
  <2>1. /\ PK(k, i) \in Stops /\ PI(k, i) \in Nat /\ PK(l, j) \in Stops /\ PI(l, j) \in Nat
    <3>1. PK(k, i) \in Stops /\ PI(k, i) \in 1 .. N(PK(k, i)) /\ PK(l, j) \in Stops /\ PI(l, j) \in 1 .. N(PK(l, j))
      BY <1>2, <1>3
    <3> HIDE DEF PK, PI, N
    <3> QED
      BY <3>1
  <2>2. /\ k \in Int /\ l \in Int /\ i \in Int /\ j \in Int
        /\ R(k) \in Nat /\ R(l) \in Nat /\ M(k) \in {R(k), R(k) + 1} /\ M(l) \in {R(l), R(l) + 1}
        /\ d[k] \in Nat /\ d[l] \in Nat /\ (simple => d[k] \in {0, 1} /\ d[l] \in {0, 1})
        /\ i <= M(k) /\ j <= M(l) /\ 1 <= i /\ 1 <= j
    <3>1. R(k) \in Nat /\ R(l) \in Nat /\ M(k) \in {R(k), R(k) + 1} /\ M(l) \in {R(l), R(l) + 1}
          /\ d[k] \in Nat /\ d[l] \in Nat /\ (simple => d[k] \in {0, 1} /\ d[l] \in {0, 1})
      BY <1>1, SMTT(30)
    <3> HIDE DEF R, M
    <3> QED
      BY <3>1 DEF Stops
  <2> HIDE DEF N, M, R
  <2>3. CASE i <= R(k) /\ j <= R(l)
    BY <1>3, <2>2, <2>3 DEF Before, Old
  <2>4. CASE i <= R(k) /\ ~(j <= R(l))
    BY <1>3, <2>2, <2>4 DEF Before
  <2>5. CASE ~(i <= R(k)) /\ j <= R(l)
    <3>1. k < l /\ PK(k, i) = k + 1 /\ PI(k, i) = d[k + 1] /\ PK(l, j) = l /\ PI(l, j) = Old(d[l], j)
      BY <1>3, <2>2, <2>5 DEF Before
    <3>2. CASE k + 1 < l
      BY <3>1, <3>2 DEF Before
    <3>3. CASE k + 1 = l
      <4>1. d[l] # 0
        <5>1. i = M(k) /\ M(k) = R(k) + 1
          BY <2>2, <2>5
        <5>2. d[k + 1] # 0
          BY <1>3, <5>1 DEF M, R
        <5> QED
          BY <3>3, <5>2
      <4> QED
        BY <2>2, <3>1, <3>3, <4>1 DEF Before, Old
    <3> QED
      BY <2>2, <3>1, <3>2, <3>3
  <2>6. CASE ~(i <= R(k)) /\ ~(j <= R(l))
    BY <1>3, <2>2, <2>6 DEF Before
  <2> QED
    BY <2>3, <2>4, <2>5, <2>6
<1>4. ASSUME NEW k \in Stops, NEW l \in Stops, NEW i \in 1 .. M(k), NEW j \in 1 .. M(l),
             Before(k, i, l, j), V[k][i] # 0, V[l][j] # 0
      PROVE  V[k][i] # V[l][j] /\ (simple => V[k][i] < V[l][j])
  <2> DEFINE a == PK(k, i)
             b == PI(k, i)
             e == PK(l, j)
             f == PI(l, j)
  <2>1. a \in Stops /\ b \in 1 .. N(a) /\ W[a][b] = V[k][i] /\ e \in Stops /\ f \in 1 .. N(e) /\ W[e][f] = V[l][j]
    BY <1>2, <1>4
  <2>2. Before(a, b, e, f) \/ (~simple /\ Before(e, f, a, b))
    BY <1>3, <1>4
  <2> HIDE DEF a, b, e, f
  <2> DEFINE u == W[a][b]
             v == W[e][f]
  <2>6. a \in Stops /\ b \in 1 .. Len(W[a]) /\ e \in Stops /\ f \in 1 .. Len(W[e]) /\ u # 0 /\ v # 0
    BY <1>4, <2>1
  <2>3. ASSUME Before(a, b, e, f) PROVE W[a][b] # W[e][f] /\ (simple => W[a][b] < W[e][f])
    BY <2>6, <2>3 DEF Ordered
  <2>4. ASSUME Before(e, f, a, b) PROVE W[e][f] # W[a][b]
    BY <2>6, <2>4 DEF Ordered
  <2>5. W[a][b] # W[e][f] /\ (simple => W[a][b] < W[e][f])
    BY <2>2, <2>3, <2>4
  <2> HIDE DEF M, N
  <2> QED
    BY <2>1, <2>5
<1> QED
  BY <1>4 DEF Ordered

-----------------------------------------------------------------------------
(* The queues an access passes, and one step of all of them.               *)

Accesses == [addr : SUBSET Nat, write : BOOLEAN, core : Nat, nr : Nat, request : BOOLEAN]
ChannelOf(a) == get_channel_id(a.addr)
InOrderMemory == mem.dram = "simple"

\* The queues an access passes, from the last to the first: answers of a
\* core, its node's output, the channel's input, responses, the memory, the
\* channel node's output, the core's input and its requests.
Side(k) == IF k \in {1, 2, 7, 8} THEN MemCores ELSE Channels
Spots == {p \in Stops \X Int : p[2] \in Side(p[1])}
End(k, c, ch) == IF k \in {1, 2, 7, 8} THEN c ELSE ch

Routed(a, k, x) ==
    /\ x = End(k, a.core, ChannelOf(a)) /\ a.request = (k >= 6)
    /\ a.core \in MemCores /\ (k < 7 => ChannelOf(a) \in Channels)
Known(a, n) ==
    a.core \in MemCores /\ a.nr \in 1 .. n[a.core] /\ a.addr = mem.program[a.core + 1][a.nr].addr

KeyOf(a, c, ch) == IF a.core = c /\ ChannelOf(a) = ch THEN a.nr ELSE 0
Keys(q, c, ch) == [i \in 1 .. Len(q) |-> KeyOf(q[i], c, ch)]
Way(Q, c, ch) == [k \in Stops |-> Keys(Q[<<k, End(k, c, ch)>>], c, ch)]

AllRouted(Q, n) ==
    \A p \in Spots : /\ Q[p] \in Seq(Accesses)
                     /\ \A i \in 1 .. Len(Q[p]) : Routed(Q[p][i], p[1], p[2]) /\ Known(Q[p][i], n)
AllOrdered(Q) == \A c \in MemCores, ch \in Channels : Ordered(Way(Q, c, ch), InOrderMemory)
FlatOK(Q, n) == AllRouted(Q, n) /\ AllOrdered(Q)

\* The same access, but for the direction it goes.
Same(a, b) == a.core = b.core /\ a.nr = b.nr /\ a.addr = b.addr
Source(a, k) == <<k + 1, End(k + 1, a.core, ChannelOf(a))>>
Arrives(a, p, Q, lost) ==
    /\ p[1] < 8 /\ Source(a, p[1]) \in Spots /\ lost[Source(a, p[1])] # 0
    /\ Same(a, Q[Source(a, p[1])][lost[Source(a, p[1])]])
    /\ Routed(a, p[1], p[2])
Steps(Q, R, lost) ==
    \A p \in Spots :
      /\ R[p] \in Seq(Accesses) /\ lost[p] \in 0 .. Len(Q[p]) /\ (InOrderMemory => lost[p] \in {0, 1})
      /\ Len(R[p]) \in {Rest(Q[p], lost[p]), Rest(Q[p], lost[p]) + 1}
      /\ \A i \in 1 .. Rest(Q[p], lost[p]) : R[p][i] = Q[p][Old(lost[p], i)]
      /\ Len(R[p]) = Rest(Q[p], lost[p]) + 1 => Arrives(R[p][Len(R[p])], p, Q, lost)

\* The numbers of accesses as a queue of numbers.
LEMMA KeysAre ==
    ASSUME NEW q \in Seq(Accesses), NEW c, NEW ch
    PROVE  /\ Keys(q, c, ch) \in Seq(Nat) /\ Len(Keys(q, c, ch)) = Len(q)
           /\ \A i \in 1 .. Len(q) : Keys(q, c, ch)[i] = KeyOf(q[i], c, ch)
<1>1. Len(q) \in Nat
  BY LenProperties
<1>2. \A i \in 1 .. Len(q) : KeyOf(q[i], c, ch) \in Nat
  <2> TAKE i \in 1 .. Len(q)
  <2>1. q[i] \in Accesses
    BY ElementOfSeq
  <2>2. q[i].nr \in Nat
    BY <2>1 DEF Accesses
  <2> QED
    BY <2>2 DEF KeyOf
<1> DEFINE n == Len(q)
           f == [i \in 1 .. n |-> KeyOf(q[i], c, ch)]
<1>3. f \in [1 .. n -> Nat]
  BY <1>2
<1>4. f \in Seq(Nat) /\ Len(f) = n
  <2> HIDE DEF f, n
  <2>1. n \in Nat
    BY <1>1 DEF n
  <2> QED
    BY <1>3, <2>1, IsASeq, LenProperties
<1> QED
  BY <1>4 DEF Keys

\* What steps of single accesses from queue to queue leave true.
LEMMA FlatStep ==
    ASSUME NEW Q, NEW R, NEW lost, NEW n, FlatOK(Q, n), Steps(Q, R, lost)
    PROVE  FlatOK(R, n)
<1>1. AllRouted(R, n)
  <2> SUFFICES ASSUME NEW p \in Spots, NEW i \in 1 .. Len(R[p])
               PROVE  Routed(R[p][i], p[1], p[2]) /\ Known(R[p][i], n)
    BY DEF AllRouted, Steps
  <2> DEFINE m == Rest(Q[p], lost[p])
  <2>1. /\ Q[p] \in Seq(Accesses) /\ R[p] \in Seq(Accesses) /\ lost[p] \in 0 .. Len(Q[p])
        /\ Len(R[p]) \in {m, m + 1}
        /\ \A j \in 1 .. m : R[p][j] = Q[p][Old(lost[p], j)]
        /\ Len(R[p]) = m + 1 => Arrives(R[p][Len(R[p])], p, Q, lost)
        /\ \A j \in 1 .. Len(Q[p]) : Routed(Q[p][j], p[1], p[2]) /\ Known(Q[p][j], n)
    BY DEF FlatOK, AllRouted, Steps
  <2>2. Len(Q[p]) \in Nat /\ m \in Nat /\ m = (IF lost[p] = 0 THEN Len(Q[p]) ELSE Len(Q[p]) - 1)
    <3>1. Len(Q[p]) \in Nat
      BY <2>1, LenProperties
    <3> QED
      BY <2>1, <3>1 DEF Rest
  <2> HIDE DEF m
  <2>3. CASE i <= m
    <3>1. Old(lost[p], i) \in 1 .. Len(Q[p]) /\ i \in 1 .. m
      BY <2>1, <2>2, <2>3 DEF Old
    <3> QED
      BY <2>1, <3>1
  <2>4. CASE ~(i <= m)
    <3>1. i = Len(R[p]) /\ Len(R[p]) = m + 1
      BY <2>1, <2>2, <2>4
    <3> DEFINE a == R[p][i]
               r == Source(a, p[1])
               b == Q[r][lost[r]]
    <3>2. r \in Spots /\ lost[r] # 0 /\ Same(a, b) /\ Routed(a, p[1], p[2])
      BY <2>1, <3>1 DEF Arrives
    <3>3. lost[r] \in 1 .. Len(Q[r])
      <4>1. lost[r] \in 0 .. Len(Q[r]) /\ Q[r] \in Seq(Accesses)
        BY <3>2 DEF FlatOK, AllRouted, Steps
      <4> HIDE DEF r
      <4>2. Len(Q[r]) \in Nat
        BY <4>1, LenProperties
      <4> QED
        BY <3>2, <4>1, <4>2
    <3>4. Known(b, n)
      BY <3>2, <3>3 DEF FlatOK, AllRouted
    <3> HIDE DEF a, b, r
    <3>5. Known(a, n)
      BY <3>2, <3>4 DEF Known, Same
    <3> QED
      BY <3>2, <3>5 DEF a
  <2> QED
    BY <2>3, <2>4
<1>2. ASSUME NEW c \in MemCores, NEW ch \in Channels PROVE Ordered(Way(R, c, ch), InOrderMemory)
  <2> DEFINE P(k) == <<k, End(k, c, ch)>>
             W == Way(Q, c, ch)
             V == Way(R, c, ch)
             d == [k \in Stops |-> lost[P(k)]]
  <2>1. \A k \in Stops : P(k) \in Spots /\ P(k)[1] = k /\ P(k)[2] = End(k, c, ch)
    BY <1>2 DEF Spots, Side, End, MemCores, Channels
  <2>2. ASSUME NEW k \in Stops
        PROVE  /\ Q[P(k)] \in Seq(Accesses) /\ R[P(k)] \in Seq(Accesses) /\ d[k] = lost[P(k)]
               /\ W[k] = Keys(Q[P(k)], c, ch) /\ V[k] = Keys(R[P(k)], c, ch)
               /\ W[k] \in Seq(Nat) /\ V[k] \in Seq(Nat) /\ Len(W[k]) = Len(Q[P(k)]) /\ Len(V[k]) = Len(R[P(k)])
               /\ Len(Q[P(k)]) \in Nat /\ Len(R[P(k)]) \in Nat
               /\ \A i \in 1 .. Len(W[k]) : W[k][i] = KeyOf(Q[P(k)][i], c, ch)
               /\ \A i \in 1 .. Len(V[k]) : V[k][i] = KeyOf(R[P(k)][i], c, ch)
    <3>1. Q[P(k)] \in Seq(Accesses) /\ R[P(k)] \in Seq(Accesses)
      BY <2>1 DEF FlatOK, AllRouted, Steps
    <3>2. W[k] = Keys(Q[P(k)], c, ch) /\ V[k] = Keys(R[P(k)], c, ch) /\ d[k] = lost[P(k)]
      BY DEF Way
    <3> HIDE DEF P, W, V, d
    <3> DEFINE q == Q[P(k)]
               s == R[P(k)]
    <3> HIDE DEF q, s
    <3>3. /\ Keys(q, c, ch) \in Seq(Nat) /\ Len(Keys(q, c, ch)) = Len(q) /\ Len(q) \in Nat
          /\ \A i \in 1 .. Len(q) : Keys(q, c, ch)[i] = KeyOf(q[i], c, ch)
          /\ Keys(s, c, ch) \in Seq(Nat) /\ Len(Keys(s, c, ch)) = Len(s) /\ Len(s) \in Nat
          /\ \A i \in 1 .. Len(s) : Keys(s, c, ch)[i] = KeyOf(s[i], c, ch)
      BY <3>1, KeysAre, LenProperties DEF q, s
    <3> QED
      BY <3>1, <3>2, <3>3 DEF q, s
  <2>3. ASSUME NEW k \in Stops
        PROVE  /\ lost[P(k)] \in 0 .. Len(Q[P(k)]) /\ (InOrderMemory => lost[P(k)] \in {0, 1})
               /\ Len(R[P(k)]) \in {Rest(Q[P(k)], lost[P(k)]), Rest(Q[P(k)], lost[P(k)]) + 1}
               /\ \A i \in 1 .. Rest(Q[P(k)], lost[P(k)]) : R[P(k)][i] = Q[P(k)][Old(lost[P(k)], i)]
               /\ Len(R[P(k)]) = Rest(Q[P(k)], lost[P(k)]) + 1 =>
                    Arrives(R[P(k)][Len(R[P(k)])], P(k), Q, lost)
    BY <2>1 DEF Steps
  <2>4. Ordered(W, InOrderMemory)
    BY <1>2 DEF FlatOK, AllOrdered
  <2>5. \A k \in Stops : Rest(W[k], d[k]) = Rest(Q[P(k)], lost[P(k)])
    BY <2>2 DEF Rest
  <2> HIDE DEF P, W, V, d
  <2>6. \A k \in Stops : /\ W[k] \in Seq(Nat) /\ V[k] \in Seq(Nat) /\ d[k] \in 0 .. Len(W[k])
                         /\ InOrderMemory => d[k] \in {0, 1}
    BY <2>2, <2>3
  <2>7. \A k \in Stops : /\ Len(V[k]) \in {Rest(W[k], d[k]), Rest(W[k], d[k]) + 1}
                         /\ \A i \in 1 .. Rest(W[k], d[k]) : V[k][i] = W[k][Old(d[k], i)]
    <3> TAKE k \in Stops
    <3>1. Len(V[k]) \in {Rest(W[k], d[k]), Rest(W[k], d[k]) + 1}
      BY <2>2, <2>3, <2>5
    <3>2. ASSUME NEW i \in 1 .. Rest(W[k], d[k]) PROVE V[k][i] = W[k][Old(d[k], i)]
      <4>1. R[P(k)][i] = Q[P(k)][Old(d[k], i)]
        BY <2>2, <2>3, <2>5, <3>2
      <4> DEFINE w == Len(W[k])
                 v == Len(V[k])
                 z == Rest(W[k], d[k])
                 e == d[k]
      <4>2. /\ w \in Nat /\ e \in 0 .. w /\ z = (IF e = 0 THEN w ELSE w - 1) /\ v \in {z, z + 1} /\ i \in 1 .. z
        BY <2>2, <2>6, <3>1, <3>2 DEF Rest
      <4> HIDE DEF w, v, z, e
      <4>3. i \in 1 .. v /\ Old(e, i) \in 1 .. w
        BY <4>2 DEF Old
      <4>4. V[k][i] = KeyOf(R[P(k)][i], c, ch) /\ W[k][Old(e, i)] = KeyOf(Q[P(k)][Old(e, i)], c, ch)
        BY <2>2, <4>3 DEF w, v
      <4> QED
        BY <4>1, <4>4 DEF e
    <3> QED
      BY <3>1, <3>2
  <2>8. ASSUME NEW k \in Stops, Len(V[k]) = Rest(W[k], d[k]) + 1, V[k][Len(V[k])] # 0
        PROVE  k < 8 /\ d[k + 1] # 0 /\ V[k][Len(V[k])] = W[k + 1][d[k + 1]]
    <3> DEFINE a == R[P(k)][Len(R[P(k)])]
               r == Source(a, k)
    <3>1. Arrives(a, P(k), Q, lost)
      BY <2>2, <2>3, <2>5, <2>8
    <3>2. V[k][Len(V[k])] = KeyOf(a, c, ch)
      <4>1. Len(V[k]) \in 1 .. Len(V[k])
        <5> DEFINE v == Len(V[k])
                   z == Rest(W[k], d[k])
        <5>1. v \in Nat /\ v = z + 1
          BY <2>2, <2>8
        <5>2. z \in Nat
          <6>1. Len(W[k]) \in Nat /\ d[k] \in 0 .. Len(W[k])
            BY <2>2, <2>6
          <6> QED
            BY <6>1 DEF Rest
        <5> HIDE DEF v, z
        <5>3. v \in 1 .. v
          BY <5>1, <5>2
        <5> QED
          BY <5>3 DEF v
      <4> QED
        BY <2>2, <4>1
    <3> HIDE DEF a
    <3>3. a.core = c /\ ChannelOf(a) = ch /\ KeyOf(a, c, ch) = a.nr
      BY <2>8, <3>2 DEF KeyOf
    <3>4. k < 8 /\ r = P(k + 1) /\ k + 1 \in Stops
      <4>1. P(k)[1] = k
        BY <2>1
      <4>2. k < 8
        BY <3>1, <4>1 DEF Arrives
      <4> QED
        BY <3>3, <4>2 DEF Source, P, Stops
    <3>5. d[k + 1] = lost[r] /\ lost[r] # 0 /\ Same(a, Q[r][lost[r]])
      <4>1. P(k)[1] = k
        BY <2>1
      <4> QED
        BY <2>2, <3>1, <3>4, <4>1 DEF Arrives
    <3>6. W[k + 1][d[k + 1]] = KeyOf(Q[r][lost[r]], c, ch)
      <4> DEFINE w == Len(W[k + 1])
                 e == d[k + 1]
      <4>1. e \in 0 .. w /\ w \in Nat /\ e # 0
        BY <2>2, <2>6, <3>4, <3>5
      <4> HIDE DEF w, e
      <4>2. e \in 1 .. w
        BY <4>1
      <4> QED
        BY <2>2, <3>4, <3>5, <4>2 DEF w, e
    <3>7. KeyOf(Q[r][lost[r]], c, ch) = KeyOf(a, c, ch)
      BY <3>5 DEF Same, KeyOf, ChannelOf
    <3> QED
      BY <3>2, <3>4, <3>5, <3>6, <3>7
  <2>9. Ordered(V, InOrderMemory)
    <3> DEFINE simple == InOrderMemory
    <3>1. WayMoves(W, V, d, simple)
      BY <2>6, <2>7, <2>8 DEF WayMoves
    <3>3. Ordered(W, simple)
      BY <2>4
    <3> HIDE DEF simple
    <3>4. Ordered(V, simple)
      BY <3>1, <3>3, WayStep
    <3> QED
      BY <3>4 DEF simple
  <2> QED
    BY <2>9 DEF V
<1> QED
  BY <1>1, <1>2 DEF FlatOK, AllOrdered

-----------------------------------------------------------------------------
(* A core asks for more.                                                   *)

\* The nr-th access of a core, and a queue that gains those from x + 1 to y.
Asked(c, nr) ==
    [addr |-> mem.program[c + 1][nr].addr, write |-> mem.program[c + 1][nr].write,
     core |-> c, nr |-> nr, request |-> TRUE]

MoreAt(q, r, c, x, y) ==
    /\ r \in Seq(Accesses) /\ Len(r) = Len(q) + (y - x)
    /\ \A i \in 1 .. Len(q) : r[i] = q[i]
    /\ \A i \in 1 .. y - x : r[Len(q) + i] = Asked(c, x + i)
AsksMore(Q, R, n, m) ==
    /\ \A c \in MemCores : n[c] <= m[c]
    /\ \A c \in MemCores : \A nr \in n[c] + 1 .. m[c] : Asked(c, nr) \in Accesses
    /\ \A p \in Spots : p[1] # 8 => R[p] = Q[p]
    /\ \A c \in MemCores : MoreAt(Q[<<8, c>>], R[<<8, c>>], c, n[c], m[c])

\* What is asked for in addition comes behind everything on its way.
LEMMA AskOK ==
    ASSUME NEW Q, NEW R, NEW n \in [MemCores -> Nat], NEW m \in [MemCores -> Nat], FlatOK(Q, n),
           mem.cores \in Nat, mem.channels \in Nat,
           AsksMore(Q, R, n, m)
    PROVE  FlatOK(R, m)
<1>0. /\ \A c \in MemCores : n[c] <= m[c]
      /\ \A c \in MemCores : \A nr \in n[c] + 1 .. m[c] : Asked(c, nr) \in Accesses
      /\ \A p \in Spots : p[1] # 8 => R[p] = Q[p]
      /\ \A c \in MemCores : MoreAt(Q[<<8, c>>], R[<<8, c>>], c, n[c], m[c])
  BY DEF AsksMore
<1>00. \A c \in MemCores : /\ R[<<8, c>>] \in Seq(Accesses)
                           /\ Len(R[<<8, c>>]) = Len(Q[<<8, c>>]) + (m[c] - n[c])
                           /\ \A i \in 1 .. Len(Q[<<8, c>>]) : R[<<8, c>>][i] = Q[<<8, c>>][i]
  BY <1>0 DEF MoreAt
<1> USE <1>0, <1>00
<1>1. \A p \in Spots : /\ Q[p] \in Seq(Accesses) /\ Len(Q[p]) \in Nat
                       /\ \A i \in 1 .. Len(Q[p]) : Routed(Q[p][i], p[1], p[2]) /\ Known(Q[p][i], n)
  BY LenProperties DEF FlatOK, AllRouted
<1>2. \A a : Known(a, n) => Known(a, m)
  <2> SUFFICES ASSUME NEW a, Known(a, n) PROVE Known(a, m)
    OBVIOUS
  <2>1. a.core \in MemCores /\ a.nr \in 1 .. n[a.core] /\ n[a.core] <= m[a.core]
        /\ n[a.core] \in Nat /\ m[a.core] \in Nat
    BY DEF Known
  <2> DEFINE x == a.nr
             y == n[a.core]
             z == m[a.core]
  <2> HIDE DEF x, y, z
  <2>2. x \in 1 .. z
    <3>1. x \in 1 .. y /\ y <= z /\ y \in Nat /\ z \in Nat
      BY <2>1 DEF x, y, z
    <3> QED
      BY <3>1
  <2> QED
    BY <2>1, <2>2 DEF Known, x, z
<1>3. \A c \in MemCores : \A nr \in n[c] + 1 .. m[c] :
        Routed(Asked(c, nr), 8, c) /\ Known(Asked(c, nr), m)
  <2> TAKE c \in MemCores
  <2> TAKE nr \in n[c] + 1 .. m[c]
  <2>1. n[c] \in Nat /\ m[c] \in Nat
    OBVIOUS
  <2>2. nr \in 1 .. m[c]
    BY <2>1
  <2> DEFINE a == Asked(c, nr)
  <2>3. a.core = c /\ a.nr = nr /\ a.request = TRUE /\ a.addr = mem.program[c + 1][nr].addr
    BY DEF Asked
  <2> HIDE DEF a
  <2>4. Routed(a, 8, c)
    <3>1. End(8, a.core, ChannelOf(a)) = c
      BY <2>3 DEF End
    <3>2. (8 >= 6) = TRUE /\ (8 < 7) = FALSE
      OBVIOUS
    <3> QED
      BY <2>3, <3>1, <3>2, Zenon DEF Routed
  <2>5. Known(a, m)
    BY <2>2, <2>3 DEF Known
  <2> QED
    BY <2>4, <2>5 DEF a
<1>4. \A c \in MemCores : <<8, c>> \in Spots
  <2> TAKE c \in MemCores
  <2>1. c \in Int /\ 8 \in Stops
    BY DEF MemCores, Stops
  <2> DEFINE p == <<8, c>>
  <2>2. p \in Stops \X Int /\ p[1] = 8 /\ p[2] = c
    BY <2>1
  <2>3. c \in Side(8)
    BY DEF Side
  <2> HIDE DEF p
  <2>4. p \in Spots
    BY <2>2, <2>3 DEF Spots
  <2> QED
    BY <2>4 DEF p
<1>5. \A p \in Spots : p[1] = 8 => p[2] \in MemCores /\ p = <<8, p[2]>>
  BY DEF Spots, Side
<1>6. AllRouted(R, m)
  <2> SUFFICES ASSUME NEW p \in Spots
               PROVE  /\ R[p] \in Seq(Accesses)
                      /\ \A i \in 1 .. Len(R[p]) : Routed(R[p][i], p[1], p[2]) /\ Known(R[p][i], m)
    BY DEF AllRouted
  <2>1. CASE p[1] # 8
    BY <1>1, <1>2, <2>1
  <2>2. CASE p[1] = 8
    <3> DEFINE c == p[2]
               q == Q[p]
               r == R[p]
    <3>1. c \in MemCores /\ p = <<8, c>> /\ p[1] = 8 /\ n[c] \in Nat /\ m[c] \in Nat /\ n[c] <= m[c]
      BY <1>5, <2>2
    <3>2. /\ r \in Seq(Accesses) /\ Len(r) = Len(q) + (m[c] - n[c]) /\ Len(q) \in Nat
          /\ \A i \in 1 .. Len(q) : r[i] = q[i]
          /\ \A i \in 1 .. m[c] - n[c] : r[Len(q) + i] = Asked(c, n[c] + i)
          /\ \A i \in 1 .. Len(q) : Routed(q[i], p[1], p[2]) /\ Known(q[i], n)
      <4>1. Len(q) \in Nat /\ \A i \in 1 .. Len(q) : Routed(q[i], p[1], p[2]) /\ Known(q[i], n)
        BY <1>1
      <4> DEFINE z == <<8, c>>
                 j == n[c]
                 k == m[c]
      <4>2. MoreAt(Q[z], R[z], c, j, k)
        BY <1>0, <3>1
      <4>3. p = z
        BY <3>1
      <4> HIDE DEF z, c
      <4>4. /\ r \in Seq(Accesses) /\ Len(r) = Len(q) + (k - j)
            /\ \A i \in 1 .. Len(q) : r[i] = q[i]
            /\ \A i \in 1 .. k - j : r[Len(q) + i] = Asked(c, j + i)
        BY <4>2, <4>3 DEF MoreAt
      <4> QED
        BY <4>1, <4>4
    <3> HIDE DEF c, q, r
    <3>3. ASSUME NEW i \in 1 .. Len(r) PROVE Routed(r[i], 8, c) /\ Known(r[i], m)
      <4>1. CASE i <= Len(q)
        <5>1. i \in 1 .. Len(q)
          BY <3>1, <3>2, <4>1
        <5>2. p[2] = c
          BY DEF c
        <5> QED
          BY <1>2, <3>1, <3>2, <5>1, <5>2
      <4>2. CASE ~(i <= Len(q))
        <5> DEFINE j == i - Len(q)
        <5>1. j \in 1 .. m[c] - n[c] /\ i = Len(q) + j
          BY <3>1, <3>2, <4>2
        <5>2. r[i] = Asked(c, n[c] + j)
          BY <3>2, <5>1
        <5>3. n[c] + j \in n[c] + 1 .. m[c]
          BY <3>1, <5>1, SMTT(30)
        <5> QED
          BY <1>3, <3>1, <5>2, <5>3
      <4> QED
        BY <4>1, <4>2
    <3> QED
      BY <2>2, <3>2, <3>3 DEF r, c
  <2> QED
    BY <2>1, <2>2
<1>7. ASSUME NEW c \in MemCores, NEW ch \in Channels PROVE Ordered(Way(R, c, ch), InOrderMemory)
  <2> DEFINE P(k) == <<k, End(k, c, ch)>>
             W == Way(Q, c, ch)
             V == Way(R, c, ch)
             L == Len(Q[<<8, c>>])
             N(k) == Len(W[k])
             M(k) == Len(V[k])
  <2>1. \A k \in Stops : P(k) \in Spots /\ P(k)[1] = k /\ P(k)[2] = End(k, c, ch)
    BY <1>7 DEF Spots, Side, End, MemCores, Channels
  <2>2. P(8) = <<8, c>> /\ 8 \in Stops
    BY DEF End, Stops
  <2>3. Ordered(W, InOrderMemory)
    BY <1>7 DEF FlatOK, AllOrdered
  <2>4. \A k \in Stops : W[k] = Keys(Q[P(k)], c, ch) /\ V[k] = Keys(R[P(k)], c, ch)
    BY DEF Way
  <2>5. \A k \in Stops : /\ Q[P(k)] \in Seq(Accesses) /\ R[P(k)] \in Seq(Accesses)
                         /\ \A i \in 1 .. Len(Q[P(k)]) : Known(Q[P(k)][i], n)
    BY <1>1, <1>6, <2>1 DEF AllRouted
  <2>6. \A k \in Stops : /\ N(k) = Len(Q[P(k)]) /\ M(k) = Len(R[P(k)]) /\ N(k) \in Nat /\ M(k) \in Nat
                         /\ \A i \in 1 .. N(k) : W[k][i] = KeyOf(Q[P(k)][i], c, ch)
                         /\ \A i \in 1 .. M(k) : V[k][i] = KeyOf(R[P(k)][i], c, ch)
    <3> TAKE k \in Stops
    <3> DEFINE q == Q[P(k)]
               s == R[P(k)]
    <3>1. q \in Seq(Accesses) /\ s \in Seq(Accesses) /\ W[k] = Keys(q, c, ch) /\ V[k] = Keys(s, c, ch)
      BY <2>4, <2>5
    <3> HIDE DEF q, s, W, V
    <3>2. /\ Len(Keys(q, c, ch)) = Len(q) /\ Len(q) \in Nat
          /\ \A i \in 1 .. Len(q) : Keys(q, c, ch)[i] = KeyOf(q[i], c, ch)
          /\ Len(Keys(s, c, ch)) = Len(s) /\ Len(s) \in Nat
          /\ \A i \in 1 .. Len(s) : Keys(s, c, ch)[i] = KeyOf(s[i], c, ch)
      BY <3>1, KeysAre, LenProperties, SMTT(30)
    <3> QED
      BY <3>1, <3>2 DEF q, s
  <2>7. \A k \in Stops : k # 8 => M(k) = N(k) /\ \A i \in 1 .. N(k) : V[k][i] = W[k][i]
    <3>1. \A k \in Stops : k # 8 => R[P(k)] = Q[P(k)]
      BY <2>1
    <3> HIDE DEF P, W, V
    <3> QED
      BY <2>6, <3>1, SMTT(30)
  <2>8. N(8) = L /\ n[c] \in Nat /\ m[c] \in Nat /\ n[c] <= m[c] /\ M(8) = L + (m[c] - n[c]) /\ L \in Nat
        /\ \A i \in 1 .. L : V[8][i] = W[8][i]
    <3>1. \A i \in 1 .. L : R[P(8)][i] = Q[P(8)][i]
      BY <2>2
    <3>2. N(8) = L /\ L \in Nat /\ M(8) = L + (m[c] - n[c]) /\ n[c] \in Nat /\ m[c] \in Nat /\ n[c] <= m[c]
      BY <2>2, <2>6
    <3>3. \A i \in 1 .. L : i \in 1 .. M(8)
      <4> HIDE DEF L, M
      <4> QED
        BY <3>2
    <3> HIDE DEF P, L, W, V
    <3> QED
      BY <2>2, <2>6, <3>1, <3>2, <3>3
  <2>9. \A i \in 1 .. m[c] - n[c] : V[8][L + i] \in {0, n[c] + i}
    <3> TAKE i \in 1 .. m[c] - n[c]
    <3>1. R[P(8)][L + i] = Asked(c, n[c] + i)
      <4> DEFINE j == n[c]
                 k == m[c]
      <4>1. \A o \in 1 .. k - j : R[<<8, c>>][L + o] = Asked(c, j + o)
        <5>1. MoreAt(Q[<<8, c>>], R[<<8, c>>], c, j, k)
          BY <1>0
        <5> HIDE DEF j, k
        <5> QED
          BY <5>1 DEF MoreAt
      <4>2. i \in 1 .. k - j
        OBVIOUS
      <4> HIDE DEF L, j, k
      <4>3. R[<<8, c>>][L + i] = Asked(c, j + i)
        BY <4>1, <4>2
      <4> HIDE DEF P
      <4> QED
        BY <2>2, <4>3 DEF j
    <3>2. KeyOf(Asked(c, n[c] + i), c, ch) \in {0, n[c] + i}
      BY DEF KeyOf, Asked
    <3>3. L + i \in 1 .. M(8)
      <4> HIDE DEF L, M
      <4> QED
        BY <2>8
    <3> HIDE DEF P, L, W, V
    <3> QED
      BY <2>2, <2>6, <3>1, <3>2, <3>3, SMTT(30)
  <2>10. \A k \in Stops : \A i \in 1 .. N(k) : W[k][i] \in Nat /\ W[k][i] <= n[c]
    <3> TAKE k \in Stops
    <3> TAKE i \in 1 .. N(k)
    <3> DEFINE a == Q[P(k)][i]
    <3>1. W[k][i] = KeyOf(a, c, ch) /\ Known(a, n)
      BY <2>5, <2>6
    <3> HIDE DEF a, W
    <3>2. CASE a.core = c
      <4> DEFINE x == a.nr
                 y == n[c]
      <4>1. x \in 1 .. y /\ y \in Nat /\ KeyOf(a, c, ch) \in {0, x}
        BY <3>1, <3>2 DEF Known, KeyOf
      <4> HIDE DEF x, y
      <4>2. KeyOf(a, c, ch) \in Nat /\ KeyOf(a, c, ch) <= y
        BY <4>1
      <4> QED
        BY <3>1, <4>2 DEF y
    <3>3. CASE a.core # c
      <4>1. KeyOf(a, c, ch) = 0 /\ n[c] \in Nat
        BY <3>3 DEF KeyOf
      <4> QED
        BY <3>1, <4>1
    <3> QED
      BY <3>2, <3>3
  <2> DEFINE u == n[c]
             v == m[c]
  <2> HIDE DEF P, W, V, L, u, v
  <2>11. ASSUME NEW k \in Stops, NEW l \in Stops, NEW i \in 1 .. Len(V[k]), NEW j \in 1 .. Len(V[l]),
                Before(k, i, l, j), V[k][i] # 0, V[l][j] # 0
         PROVE  V[k][i] # V[l][j] /\ (InOrderMemory => V[k][i] < V[l][j])
    <3>1. /\ i \in 1 .. M(k) /\ j \in 1 .. M(l) /\ M(k) \in Nat /\ M(l) \in Nat /\ N(k) \in Nat /\ N(l) \in Nat
      BY <2>6
    <3>4. \A h \in Stops : \A o \in 1 .. N(h) : V[h][o] = W[h][o]
      <4> HIDE DEF N, M
      <4> QED
        BY <2>7, <2>8
    <3>5. /\ 1 <= i /\ i <= M(k) /\ i \in Int /\ 1 <= j /\ j <= M(l) /\ j \in Int
      <4> HIDE DEF N, M
      <4> QED
        BY <3>1
    <3>2. CASE j <= N(l)
      <4>1. j \in 1 .. N(l) /\ V[l][j] = W[l][j]
        <5>1. j \in 1 .. N(l)
          <6> HIDE DEF N, M
          <6> QED
            BY <3>1, <3>2
        <5> QED
          BY <3>4, <5>1
      <4>2. i \in 1 .. N(k)
        <5>1. CASE k # 8
          BY <2>7, <3>1, <5>1
        <5>2. CASE k = 8
          <6>1. l = 8 /\ i < j
            BY <2>11, <5>2, SMTT(30) DEF Before, Stops
          <6> HIDE DEF N, M
          <6> QED
            BY <3>1, <3>2, <5>2, <6>1
        <5> QED
          BY <5>1, <5>2
      <4>3. V[k][i] = W[k][i]
        BY <2>7, <2>8, <4>2
      <4> QED
        BY <2>3, <2>11, <4>1, <4>2, <4>3 DEF Ordered
    <3>3. CASE ~(j <= N(l))
      <4>1. l = 8 /\ N(l) = L
        BY <2>7, <2>8, <3>1, <3>3, SMTT(30)
      <4> DEFINE e == j - L
      <4>2. e \in 1 .. v - u /\ j = L + e /\ u \in Nat /\ v \in Nat
        BY <2>8, <3>1, <3>3, <4>1, SMTT(30) DEF u, v
      <4>3. V[l][j] = u + e
        BY <2>9, <2>11, <4>1, <4>2 DEF u, v
      <4>4. CASE i <= N(k)
        <5>1. i \in 1 .. N(k) /\ V[k][i] = W[k][i]
          <6>1. i \in 1 .. N(k)
            <7> HIDE DEF N, M
            <7> QED
              BY <3>1, <4>4
          <6> QED
            BY <3>4, <6>1
        <5>2. V[k][i] \in Nat /\ V[k][i] <= u
          BY <2>10, <5>1 DEF u
        <5> DEFINE x == V[k][i]
                   y == V[l][j]
        <5>3. x \in Nat /\ x <= u /\ y = u + e /\ e \in 1 .. v - u /\ u \in Nat /\ v \in Nat
          BY <4>2, <4>3, <5>2
        <5> HIDE DEF x, y, e
        <5>4. x # y /\ x < y
          BY <5>3, SMTT(30)
        <5> QED
          BY <5>4 DEF x, y
      <4>5. CASE ~(i <= N(k))
        <5>1. k = 8 /\ N(k) = L
          BY <2>7, <2>8, <3>1, <4>5, SMTT(30)
        <5> DEFINE f == i - L
        <5>2. f \in 1 .. v - u /\ i = L + f
          BY <2>8, <3>1, <4>5, <5>1, SMTT(30) DEF u, v
        <5>3. V[k][i] = u + f
          BY <2>9, <2>11, <5>1, <5>2 DEF u, v
        <5>4. i < j /\ L \in Nat
          BY <2>8, <2>11, <4>1, <5>1 DEF Before
        <5> QED
          BY <4>2, <4>3, <5>2, <5>3, <5>4
      <4> QED
        BY <4>4, <4>5
    <3> QED
      BY <3>2, <3>3
  <2>12. Ordered(V, InOrderMemory)
    BY <2>11 DEF Ordered
  <2> QED
    BY <2>12 DEF V
<1> QED
  BY <1>6, <1>7 DEF FlatOK, AllOrdered

-----------------------------------------------------------------------------
(* The channel of an address.                                              *)

\* The digits of a channel, and a sum of numbers one after another.
HashFrom(addr, n, g) ==
    g = [i \in 0 .. Len(Taps(n)) |->
          IF i = 0 THEN 0
          ELSE g[i - 1] + (IF Cardinality(Taps(n)[i] \cap addr) % 2 = 1 THEN 2^(i - 1) ELSE 0)]

\* The running sum of the bits of the hash, to any number of them.
SumsTo(k, w, g) == g = [i \in 0 .. k |-> IF i = 0 THEN 0 ELSE g[i - 1] + w[i]]

\* A sum over the first k numbers exists for every k.
LEMMA SumsExist ==
    ASSUME NEW w
    PROVE  \A k \in Nat : \E g : SumsTo(k, w, g)
<1> DEFINE P == {k \in Nat : \E g : SumsTo(k, w, g)}
<1>1. 0 \in P
  <2> DEFINE g == [i \in 0 .. 0 |-> 0]
  <2>1. SumsTo(0, w, g)
    BY DEF SumsTo
  <2> QED
    BY <2>1
<1>2. ASSUME NEW k \in Nat, k \in P PROVE k + 1 \in P
  <2>1. PICK g : SumsTo(k, w, g)
    BY <1>2
  <2> DEFINE h == [i \in 0 .. k + 1 |-> IF i <= k THEN g[i] ELSE g[k] + w[k + 1]]
  <2>2. \A i \in 0 .. k : g[i] = IF i = 0 THEN 0 ELSE g[i - 1] + w[i]
    BY <2>1 DEF SumsTo
  <2>3. ASSUME NEW i \in 0 .. k + 1
        PROVE  h[i] = IF i = 0 THEN 0 ELSE h[i - 1] + w[i]
    <3>1. CASE i = 0
      BY <2>2, <3>1
    <3>2. CASE i \in 1 .. k
      <4>1. i - 1 \in 0 .. k /\ i - 1 \in 0 .. k + 1 /\ i \in 0 .. k
        BY <3>2
      <4>2. h[i] = g[i] /\ h[i - 1] = g[i - 1]
        BY <4>1
      <4> QED
        BY <2>2, <3>2, <4>1, <4>2
    <3>3. CASE i = k + 1
      <4>1. h[i] = g[k] + w[i] /\ h[i - 1] = g[k] /\ i # 0
        BY <3>3
      <4> QED
        BY <4>1
    <3> QED
      BY <3>1, <3>2, <3>3
  <2>4. h = [i \in 0 .. k + 1 |-> h[i]]
    OBVIOUS
  <2> HIDE DEF h
  <2>5. SumsTo(k + 1, w, h)
    BY <2>3, <2>4 DEF SumsTo
  <2> QED
    BY <2>5
<1> HIDE DEF P
<1>3. \A k \in Nat : k \in P
  BY <1>1, <1>2, NatSetInduction
<1> QED
  BY <1>3 DEF P

\* It is a natural number when what is summed is.
LEMMA SumsNat ==
    ASSUME NEW k \in Nat, NEW w \in [1 .. k -> Nat], NEW g, SumsTo(k, w, g)
    PROVE  g[k] \in Nat
<1> DEFINE P == {i \in Nat : i <= k => g[i] \in Nat}
<1>1. \A i \in 0 .. k : g[i] = IF i = 0 THEN 0 ELSE g[i - 1] + w[i]
  BY DEF SumsTo
<1>2. 0 \in P
  BY <1>1
<1>3. ASSUME NEW i \in Nat, i \in P PROVE i + 1 \in P
  <2> SUFFICES ASSUME i + 1 <= k PROVE g[i + 1] \in Nat
    OBVIOUS
  <2>1. g[i] \in Nat
    BY <1>3
  <2>2. i + 1 \in 0 .. k /\ i + 1 # 0 /\ (i + 1) - 1 = i /\ i + 1 \in 1 .. k
    OBVIOUS
  <2>3. g[i + 1] = g[i] + w[i + 1]
    BY <1>1, <2>2
  <2> QED
    BY <2>1, <2>2, <2>3
<1> HIDE DEF P
<1>4. \A i \in Nat : i \in P
  BY <1>2, <1>3, NatSetInduction
<1> QED
  BY <1>4 DEF P

\* The hash is a number, whatever the address (ipoly_hash_function).
LEMMA HashNat ==
    ASSUME NEW addr, NEW n \in {16, 32, 64}
    PROVE  ipoly_hash_function(addr, n) \in Nat
<1> DEFINE k == Len(Taps(n))
           w == [i \in 1 .. k |-> IF Cardinality(Taps(n)[i] \cap addr) % 2 = 1 THEN 2^(i - 1) ELSE 0]
           g == CHOOSE h : HashFrom(addr, n, h)
<1>1. k \in Nat
  <2>1. CASE n = 16
    BY <2>1 DEF Taps
  <2>2. CASE n = 32
    BY <2>2 DEF Taps
  <2>3. CASE n = 64
    BY <2>3 DEF Taps
  <2> QED
    BY <2>1, <2>2, <2>3
<1>2. w \in [1 .. k -> Nat]
  <2>1. ASSUME NEW i \in 1 .. k PROVE w[i] \in Nat
    <3>1. i - 1 \in Nat
      BY <1>1
    <3>2. 2^(i - 1) \in Nat
      BY <3>1, PowerOfTwo
    <3> HIDE DEF k
    <3> QED
      BY <3>2
  <2> HIDE DEF k
  <2> QED
    BY <2>1
<1>3. \A h : HashFrom(addr, n, h) <=> SumsTo(k, w, h)
  <2> TAKE h
  <2> DEFINE a == [i \in 0 .. k |-> IF i = 0 THEN 0
                     ELSE h[i - 1] + (IF Cardinality(Taps(n)[i] \cap addr) % 2 = 1 THEN 2^(i - 1) ELSE 0)]
             b == [i \in 0 .. k |-> IF i = 0 THEN 0 ELSE h[i - 1] + w[i]]
  <2>1. ASSUME NEW i \in 0 .. k PROVE a[i] = b[i]
    <3>1. CASE i = 0
      BY <3>1
    <3>2. CASE i # 0
      <4>1. i \in 1 .. k
        <5> HIDE DEF k
        <5> QED
          BY <1>1, <3>2
      <4> HIDE DEF k
      <4> QED
        BY <3>2, <4>1
    <3> QED
      BY <3>1, <3>2
  <2>2. a = b
    <3> HIDE DEF k
    <3>1. a = [i \in 0 .. k |-> a[i]] /\ b = [i \in 0 .. k |-> b[i]]
      OBVIOUS
    <3> HIDE DEF a, b
    <3> QED
      BY <2>1, <3>1
  <2> QED
    BY <2>2 DEF HashFrom, SumsTo
<1>4. \E h : HashFrom(addr, n, h)
  <2> HIDE DEF k, w
  <2> QED
    BY <1>1, <1>3, SumsExist
<1>5. HashFrom(addr, n, g)
  BY <1>4
<1>6. ipoly_hash_function(addr, n) = g[k]
  BY DEF ipoly_hash_function, HashFrom
<1> HIDE DEF k, w, g
<1>7. g[k] \in Nat
  BY <1>1, <1>2, <1>3, <1>5, SumsNat
<1> QED
  BY <1>6, <1>7

\* The channel of an address is a number.
LEMMA ChannelNat ==
    ASSUME NEW addr, mem \in MemSetups
    PROVE  get_channel_id(addr) \in Nat
<1>1. mem.channels \in 1 .. 16 \cup {32, 64}
  BY MemSystemAssumption
<1>2. CASE mem.channels >= 16
  <2>1. mem.channels \in {16, 32, 64}
    BY <1>1, <1>2
  <2> QED
    BY <1>2, <2>1, HashNat DEF get_channel_id
<1>3. CASE ~(mem.channels >= 16)
  <2>1. ipoly_hash_function(addr, 16) \in Nat
    BY HashNat
  <2> DEFINE h == ipoly_hash_function(addr, 16)
             n == mem.channels
  <2> HIDE DEF h, n
  <2>2. h \in Nat /\ n \in 1 .. 64
    BY <1>1, <2>1 DEF h, n
  <2>3. h % n \in Nat
    BY <2>2
  <2> QED
    BY <1>3, <2>3 DEF get_channel_id, h, n
<1> QED
  BY <1>2, <1>3

-----------------------------------------------------------------------------
(* One queue: what it carries, loses and gains.                            *)

\* The accesses a queue carries; one queue without its d-th element, and
\* with one more at its end.
Carried(q) == [i \in 1 .. Len(q) |-> q[i].access]

Loses(q, r, d) ==
    /\ r \in Seq(Accesses) /\ d \in 1 .. Len(q) /\ Len(r) = Len(q) - 1
    /\ \A i \in 1 .. Len(r) : r[i] = q[Old(d, i)]
Gains(q, r, a) ==
    /\ r \in Seq(Accesses) /\ Len(r) = Len(q) + 1 /\ r[Len(r)] = a
    /\ \A i \in 1 .. Len(q) : r[i] = q[i]

\* A queue without its head lost the first element.
LEMMA TailLoses ==
    ASSUME NEW q \in Seq(Accesses), q # <<>>
    PROVE  /\ Loses(q, Tail(q), 1) /\ Head(q) = q[1] /\ Head(q) \in Accesses /\ 1 \in 1 .. Len(q)
           /\ Tail(q) \in Seq(Accesses)
<1>1. Len(q) \in Nat \ {0} /\ Tail(q) \in Seq(Accesses) /\ Len(Tail(q)) = Len(q) - 1 /\ Head(q) = q[1]
      /\ Head(q) \in Accesses /\ \A i \in 1 .. Len(q) - 1 : Tail(q)[i] = q[i + 1]
  BY HeadTailProperties, EmptySeq, LenProperties
<1>2. 1 \in 1 .. Len(q)
  BY <1>1
<1>3. \A i \in 1 .. Len(q) - 1 : Old(1, i) = i + 1
  BY <1>1 DEF Old
<1> QED
  BY <1>1, <1>2, <1>3 DEF Loses

\* A queue with one more element gained it.
LEMMA AppendGains ==
    ASSUME NEW q \in Seq(Accesses), NEW a \in Accesses
    PROVE  Gains(q, Append(q, a), a) /\ Append(q, a) \in Seq(Accesses)
BY AppendProperties DEF Gains

\* What a queue of entries carries is a queue of accesses, as long.
LEMMA CarriedIs ==
    ASSUME NEW S, \A e \in S : e.access \in Accesses, NEW q \in Seq(S)
    PROVE  /\ Carried(q) \in Seq(Accesses) /\ Len(Carried(q)) = Len(q) /\ Len(q) \in Nat
           /\ \A i \in 1 .. Len(q) : q[i] \in S /\ Carried(q)[i] = q[i].access
<1>1. Len(q) \in Nat /\ \A i \in 1 .. Len(q) : q[i] \in S
  BY LenProperties, ElementOfSeq
<1> DEFINE n == Len(q)
           f == [i \in 1 .. n |-> q[i].access]
<1>2. n \in Nat /\ f \in [1 .. n -> Accesses]
  BY <1>1
<1>3. f \in Seq(Accesses) /\ Len(f) = n
  <2> HIDE DEF f, n
  <2> QED
    BY <1>2, IsASeq, LenProperties
<1> QED
  BY <1>1, <1>3 DEF Carried

\* Dropping the head drops the first access carried.
LEMMA CarriedTail ==
    ASSUME NEW S, \A e \in S : e.access \in Accesses, NEW q \in Seq(S), q # <<>>
    PROVE  /\ Tail(q) \in Seq(S) /\ Head(q) \in S
           /\ Loses(Carried(q), Carried(Tail(q)), 1) /\ Carried(q)[1] = Head(q).access
<1>1. Len(q) \in Nat \ {0} /\ Tail(q) \in Seq(S) /\ Len(Tail(q)) = Len(q) - 1 /\ Head(q) = q[1]
      /\ Head(q) \in S /\ \A i \in 1 .. Len(q) - 1 : Tail(q)[i] = q[i + 1]
  BY HeadTailProperties, EmptySeq, LenProperties
<1> DEFINE t == Tail(q)
           u == Carried(q)
           v == Carried(t)
<1> HIDE DEF t, u, v
<1>2. /\ u \in Seq(Accesses) /\ Len(u) = Len(q) /\ \A i \in 1 .. Len(q) : u[i] = q[i].access
  BY CarriedIs, SMTT(30) DEF u
<1>3. /\ v \in Seq(Accesses) /\ Len(v) = Len(t) /\ \A i \in 1 .. Len(t) : v[i] = t[i].access
  BY <1>1, CarriedIs DEF v, t
<1>4. ASSUME NEW i \in 1 .. Len(v) PROVE v[i] = u[Old(1, i)]
  <2>1. i \in 1 .. Len(q) - 1 /\ i + 1 \in 1 .. Len(q) /\ Old(1, i) = i + 1
    BY <1>1, <1>3 DEF Old, t
  <2> QED
    BY <1>1, <1>2, <1>3, <2>1 DEF t
<1>5. Len(v) = Len(u) - 1 /\ 1 \in 1 .. Len(u)
  BY <1>1, <1>2, <1>3 DEF t
<1>6. Loses(u, v, 1)
  BY <1>3, <1>4, <1>5 DEF Loses
<1> QED
  BY <1>1, <1>2, <1>5, <1>6 DEF u, v, t

\* Appending an entry appends its access.
LEMMA CarriedAppend ==
    ASSUME NEW S, \A e \in S : e.access \in Accesses, NEW q \in Seq(S), NEW e \in S
    PROVE  Append(q, e) \in Seq(S) /\ Gains(Carried(q), Carried(Append(q, e)), e.access)
<1>1. /\ Len(q) \in Nat /\ Append(q, e) \in Seq(S) /\ Len(Append(q, e)) = Len(q) + 1
      /\ Append(q, e)[Len(q) + 1] = e /\ \A i \in 1 .. Len(q) : Append(q, e)[i] = q[i]
  BY AppendProperties, LenProperties
<1> DEFINE t == Append(q, e)
           u == Carried(q)
           v == Carried(t)
<1> HIDE DEF t, u, v
<1>2. /\ u \in Seq(Accesses) /\ Len(u) = Len(q) /\ \A i \in 1 .. Len(q) : u[i] = q[i].access
  BY CarriedIs DEF u
<1>3. /\ v \in Seq(Accesses) /\ Len(v) = Len(t) /\ \A i \in 1 .. Len(t) : v[i] = t[i].access
  BY <1>1, CarriedIs DEF v, t
<1>4. Len(v) = Len(u) + 1 /\ Len(v) = Len(q) + 1 /\ Len(t) = Len(q) + 1
  BY <1>1, <1>2, <1>3 DEF t
<1>5. v[Len(v)] = e.access
  BY <1>1, <1>3, <1>4 DEF t
<1>6. \A i \in 1 .. Len(u) : v[i] = u[i]
  <2> TAKE i \in 1 .. Len(u)
  <2>1. i \in 1 .. Len(q) /\ i \in 1 .. Len(t)
    BY <1>1, <1>2, <1>4
  <2> QED
    BY <1>1, <1>2, <1>3, <2>1 DEF t
<1>7. Gains(u, v, e.access)
  BY <1>3, <1>4, <1>5, <1>6 DEF Gains
<1> QED
  BY <1>1, <1>7 DEF u, v, t

\* Removing an entry removes its access.
LEMMA CarriedRemove ==
    ASSUME NEW S, \A e \in S : e.access \in Accesses, NEW q \in Seq(S), NEW k \in 1 .. Len(q)
    PROVE  /\ RemoveAt(q, k) \in Seq(S) /\ q[k] \in S
           /\ Loses(Carried(q), Carried(RemoveAt(q, k)), k) /\ Carried(q)[k] = q[k].access
<1> DEFINE n == Len(q)
           x == SubSeq(q, 1, k - 1)
           y == SubSeq(q, k + 1, n)
           t == x \o y
           u == Carried(q)
           v == Carried(t)
<1>1. n \in Nat /\ q[k] \in S /\ \A i \in 1 .. n : q[i] \in S
  BY LenProperties, ElementOfSeq
<1>2. RemoveAt(q, k) = t
  BY DEF RemoveAt
<1>3. /\ x \in Seq(S) /\ Len(x) = k - 1 /\ \A i \in 1 .. k - 1 : x[i] = q[i]
      /\ y \in Seq(S) /\ Len(y) = n - k /\ \A i \in 1 .. n - k : y[i] = q[k + i]
  <2>1. k \in Int /\ 1 <= k /\ k <= n
    BY <1>1
  <2>2. \A i \in 1 .. k - 1 : q[i] \in S
    BY <1>1, <2>1
  <2>3. \A i \in k + 1 .. n : q[i] \in S
    BY <1>1, <2>1
  <2>4. x \in Seq(S) /\ Len(x) = k - 1 /\ \A i \in 1 .. k - 1 : x[i] = q[i]
    BY <1>1, <2>1, <2>2, SubSeqProperties
  <2>5. y \in Seq(S) /\ Len(y) = n - k /\ \A i \in 1 .. n - k : y[i] = q[k + i]
    BY <1>1, <2>1, <2>3, SubSeqProperties
  <2> QED
    BY <2>4, <2>5
<1> HIDE DEF x, y, n
<1>4. /\ t \in Seq(S) /\ Len(t) = n - 1
      /\ \A i \in 1 .. n - 1 : t[i] = q[Old(k, i)] /\ Old(k, i) \in 1 .. n
  <2>1. t \in Seq(S) /\ Len(t) = Len(x) + Len(y)
        /\ \A i \in 1 .. Len(x) + Len(y) : t[i] = IF i <= Len(x) THEN x[i] ELSE y[i - Len(x)]
    BY <1>3, ConcatProperties
  <2>2. k \in Int /\ 1 <= k /\ k <= n
    BY <1>1 DEF n
  <2>3. ASSUME NEW i \in 1 .. n - 1 PROVE t[i] = q[Old(k, i)] /\ Old(k, i) \in 1 .. n
    <3>1. CASE i < k
      <4>1. i \in 1 .. k - 1 /\ i <= Len(x) /\ i \in 1 .. Len(x) + Len(y) /\ Old(k, i) = i /\ i \in 1 .. n
        BY <1>1, <1>3, <2>2, <3>1 DEF Old
      <4> HIDE DEF t
      <4> QED
        BY <1>3, <2>1, <4>1
    <3>2. CASE ~(i < k)
      <4> DEFINE j == i - (k - 1)
      <4>1. j \in 1 .. n - k /\ ~(i <= Len(x)) /\ i \in 1 .. Len(x) + Len(y) /\ Old(k, i) = i + 1
            /\ i + 1 \in 1 .. n /\ k + j = i + 1 /\ i - Len(x) = j
        BY <1>1, <1>3, <2>2, <3>2 DEF Old
      <4> HIDE DEF t, j
      <4> QED
        BY <1>3, <2>1, <4>1, SMTT(30)
    <3> QED
      BY <3>1, <3>2
  <2>4. Len(t) = n - 1
    BY <1>1, <1>3, <2>1, <2>2
  <2> QED
    BY <2>1, <2>3, <2>4
<1> HIDE DEF t, u, v
<1>5. /\ u \in Seq(Accesses) /\ Len(u) = n /\ \A i \in 1 .. n : u[i] = q[i].access
  BY CarriedIs DEF u, n
<1>6. /\ v \in Seq(Accesses) /\ Len(v) = Len(t) /\ \A i \in 1 .. Len(t) : v[i] = t[i].access
  BY <1>4, CarriedIs DEF v
<1>7. \A i \in 1 .. Len(v) : v[i] = u[Old(k, i)]
  BY <1>4, <1>5, <1>6
<1>8. Len(v) = Len(u) - 1 /\ k \in 1 .. Len(u)
  BY <1>4, <1>5, <1>6 DEF n
<1>9. Loses(u, v, k)
  BY <1>6, <1>7, <1>8 DEF Loses
<1> QED
  BY <1>1, <1>2, <1>4, <1>5, <1>8, <1>9 DEF u, v, n

\* Entries may age without carrying anything else.
LEMMA CarriedSame ==
    ASSUME NEW S, \A e \in S : e.access \in Accesses, NEW q \in Seq(S), NEW r \in Seq(S),
           Len(r) = Len(q), \A i \in 1 .. Len(q) : r[i].access = q[i].access
    PROVE  Carried(r) = Carried(q)
<1> DEFINE n == Len(q)
<1>1. Carried(q) = [i \in 1 .. n |-> q[i].access] /\ Carried(r) = [i \in 1 .. n |-> r[i].access]
  BY DEF Carried
<1> HIDE DEF n
<1> QED
  BY <1>1 DEF n

\* A step that moves single accesses, spot by spot.
Moves(Q, R, lost, p) ==
    \/ lost[p] = 0 /\ R[p] = Q[p]
    \/ lost[p] # 0 /\ Loses(Q[p], R[p], lost[p]) /\ (InOrderMemory => lost[p] = 1)
    \/ lost[p] = 0 /\ \E a : Gains(Q[p], R[p], a) /\ Arrives(a, p, Q, lost)

\* Spots that each move at most one access on make a step of the whole way.
LEMMA MovesAreSteps ==
    ASSUME NEW Q, NEW R, NEW lost, NEW n, FlatOK(Q, n), \A p \in Spots : Moves(Q, R, lost, p)
    PROVE  FlatOK(R, n)
<1>1. Steps(Q, R, lost)
  <2> SUFFICES ASSUME NEW p \in Spots
               PROVE  /\ R[p] \in Seq(Accesses) /\ lost[p] \in 0 .. Len(Q[p]) /\ (InOrderMemory => lost[p] \in {0, 1})
                      /\ Len(R[p]) \in {Rest(Q[p], lost[p]), Rest(Q[p], lost[p]) + 1}
                      /\ \A i \in 1 .. Rest(Q[p], lost[p]) : R[p][i] = Q[p][Old(lost[p], i)]
                      /\ Len(R[p]) = Rest(Q[p], lost[p]) + 1 => Arrives(R[p][Len(R[p])], p, Q, lost)
    BY DEF Steps
  <2> DEFINE q == Q[p]
             r == R[p]
             d == lost[p]
  <2>1. q \in Seq(Accesses) /\ Len(q) \in Nat
    BY LenProperties DEF FlatOK, AllRouted
  <2>2. CASE d = 0 /\ r = q
    BY <2>1, <2>2 DEF Rest, Old
  <2>3. CASE d # 0 /\ Loses(q, r, d) /\ (InOrderMemory => d = 1)
    BY <2>1, <2>3 DEF Rest, Loses
  <2>4. CASE d = 0 /\ \E a : Gains(q, r, a) /\ Arrives(a, p, Q, lost)
    <3>1. PICK a : Gains(q, r, a) /\ Arrives(a, p, Q, lost)
      BY <2>4
    <3> QED
      BY <2>1, <2>4, <3>1 DEF Rest, Gains, Old
  <2> QED
    BY <2>2, <2>3, <2>4 DEF Moves
<1> QED
  BY <1>1, FlatStep

-----------------------------------------------------------------------------
(* The state of the transport, and one push or pop of it.                  *)

\* The shapes of the queues, and the transport as a function of its stops.
Entries == {e \in [access : Accesses, dest : Int, left : Int] : e.dest = get_dest_node(e.access)}
Stored == [access : Accesses, left : Int]
Icnts == [in : [Nodes -> Seq(Entries)], out : [Nodes -> Seq(Accesses)], rr : Nodes, waited : [Nodes -> Nat]]
Drams == [waiting : [Channels -> Seq(Stored)], response : [Channels -> Seq(Accesses)], last : Nat]
Transports == [requests : [MemCores -> Seq(Accesses)], icnt : Icnts, dram : Drams,
               answered : [MemCores -> Seq(Accesses)]]

Queue(s, k, x) ==
    CASE k = 1 -> s.answered[x]
      [] k = 2 -> s.icnt.out[x]
      [] k = 3 -> Carried(s.icnt.in[NodeOf(x)])
      [] k = 4 -> s.dram.response[x]
      [] k = 5 -> Carried(s.dram.waiting[x])
      [] k = 6 -> s.icnt.out[NodeOf(x)]
      [] k = 7 -> Carried(s.icnt.in[x])
      [] k = 8 -> s.requests[x]
Flat(s) == [p \in Spots |-> Queue(s, p[1], p[2])]

\* The nodes of a setup: the cores, then one for each channel.
LEMMA SetupIs ==
    ASSUME mem \in MemSetups
    PROVE  /\ mem.cores \in Nat \ {0} /\ mem.channels \in Nat \ {0}
           /\ mem.latency \in Nat /\ mem.dram_latency \in Nat
           /\ MemCores \subseteq Int /\ Channels \subseteq Int
           /\ \A c \in MemCores : c \in Nodes
           /\ \A ch \in Channels : NodeOf(ch) \in Nodes /\ NodeOf(ch) \notin MemCores
                                   /\ NodeOf(ch) - mem.cores = ch
           /\ \A ch, x \in Channels : NodeOf(x) = NodeOf(ch) => x = ch
           /\ \A node \in Nodes : node \in MemCores \/ (node - mem.cores \in Channels /\ NodeOf(node - mem.cores) = node)
           /\ Nodes \subseteq Nat
<1>1. mem.cores \in Nat \ {0} /\ mem.channels \in Nat \ {0} /\ mem.latency \in Nat /\ mem.dram_latency \in Nat
  <2>1. mem.cores \in Nat \ {0} /\ mem.latency \in Nat /\ mem.dram_latency \in Nat
    BY MemSystemAssumption, Zenon
  <2>2. mem.channels \in 1 .. 16 \cup {32, 64}
    BY MemSystemAssumption, Zenon
  <2> DEFINE n == mem.channels
  <2> HIDE DEF n
  <2>3. n \in Nat \ {0}
    BY <2>2 DEF n
  <2> QED
    BY <2>1, <2>3 DEF n
<1> DEFINE m == mem.cores
           n == mem.channels
<1>2. MemCores = 0 .. m - 1 /\ Channels = 0 .. n - 1 /\ Nodes = 0 .. m + n - 1 /\ \A ch : NodeOf(ch) = m + ch
  BY DEF MemCores, Channels, Nodes, NodeOf
<1>3. m \in Nat \ {0} /\ n \in Nat \ {0}
  BY <1>1
<1> HIDE DEF m, n
<1>4. /\ MemCores \subseteq Int /\ Channels \subseteq Int
      /\ \A c \in MemCores : c \in Nodes
      /\ \A ch \in Channels : NodeOf(ch) \in Nodes /\ NodeOf(ch) \notin MemCores /\ NodeOf(ch) - m = ch
      /\ \A ch, x \in Channels : NodeOf(x) = NodeOf(ch) => x = ch
      /\ \A node \in Nodes : node \in MemCores \/ (node - m \in Channels /\ NodeOf(node - m) = node)
      /\ Nodes \subseteq Nat
  BY <1>2, <1>3
<1> QED
  BY <1>1, <1>4 DEF m

\* A destination is a number.
LEMMA DestIs ==
    ASSUME mem \in MemSetups, NEW a \in Accesses
    PROVE  get_dest_node(a) \in Int
<1>1. get_channel_id(a.addr) \in Nat /\ mem.cores \in Nat
  BY ChannelNat, SetupIs
<1>2. a.core \in Nat
  BY DEF Accesses
<1> QED
  BY <1>1, <1>2 DEF get_dest_node, NodeOf

\* Entries of the interconnect and of the memory carry accesses.
LEMMA CarryAccess ==
    (\A e \in Entries : e.access \in Accesses /\ e.dest = get_dest_node(e.access))
    /\ (\A e \in Stored : e.access \in Accesses)
BY DEF Entries, Stored

\* A spot is a stop and the core or channel it belongs to.
LEMMA SpotIs ==
    ASSUME mem \in MemSetups
    PROVE  /\ \A k \in Stops : \A x \in Side(k) : <<k, x>> \in Spots
           /\ \A p \in Spots : p[1] \in Stops /\ p[2] \in Side(p[1]) /\ p = <<p[1], p[2]>>
<1>1. \A k \in Stops : Side(k) \subseteq Int
  BY SetupIs DEF Side
<1>2. ASSUME NEW k \in Stops, NEW x \in Side(k) PROVE <<k, x>> \in Spots
  <2> DEFINE p == <<k, x>>
  <2>1. p \in Stops \X Int /\ p[1] = k /\ p[2] = x
    BY <1>1
  <2> HIDE DEF p
  <2>2. p \in Spots
    BY <2>1 DEF Spots
  <2> QED
    BY <2>2 DEF p
<1>3. \A p \in Spots : p[1] \in Stops /\ p[2] \in Side(p[1]) /\ p = <<p[1], p[2]>>
  BY DEF Spots
<1> QED
  BY <1>2, <1>3

\* SimpleInterconnect::push adds one entry to one input buffer.
LEMMA PushIs ==
    ASSUME mem \in MemSetups, NEW n \in Icnts, NEW src \in Nodes, NEW a \in Accesses
    PROVE  LET m == icnt_push(n, src, get_dest_node(a), a)
           IN /\ m \in Icnts /\ m.out = n.out /\ m.rr = n.rr /\ m.waited = n.waited
              /\ \A x \in Nodes \ {src} : m.in[x] = n.in[x]
              /\ Gains(Carried(n.in[src]), Carried(m.in[src]), a)
<1> DEFINE queue == n.in[src]
           left == IF queue = <<>> THEN mem.latency ELSE Last(queue).left + 1
           e == [access |-> a, dest |-> get_dest_node(a), left |-> left]
           m == icnt_push(n, src, get_dest_node(a), a)
           I == [n.in EXCEPT ![src] = Append(queue, e)]
<1>1. n.in \in [Nodes -> Seq(Entries)] /\ n.out \in [Nodes -> Seq(Accesses)] /\ n.rr \in Nodes /\ n.waited \in [Nodes -> Nat]
      /\ n = [in |-> n.in, out |-> n.out, rr |-> n.rr, waited |-> n.waited]
  BY DEF Icnts
<1>2. queue \in Seq(Entries)
  BY <1>1
<1>3. left \in Int
  <2>1. CASE queue = <<>>
    BY <2>1, SetupIs
  <2>2. CASE queue # <<>>
    <3> DEFINE k == Len(queue)
    <3>1. k \in Nat \ {0}
      BY <1>2, <2>2, LenProperties, EmptySeq
    <3>2. k \in 1 .. k
      <4> HIDE DEF k
      <4> QED
        BY <3>1
    <3>3. queue[k] \in Entries
      BY <1>2, <3>2, ElementOfSeq
    <3>4. queue[k].left \in Int
      BY <3>3 DEF Entries
    <3> QED
      BY <2>2, <3>4 DEF Last
  <2> QED
    BY <2>1, <2>2
<1>4. e \in Entries /\ e.access = a
  <2>1. get_dest_node(a) \in Int
    BY DestIs
  <2> HIDE DEF left
  <2> QED
    BY <1>3, <2>1 DEF Entries
<1>5. m = [in |-> I, out |-> n.out, rr |-> n.rr, waited |-> n.waited]
  <2>1. m = [n EXCEPT !.in[src] = Append(queue, e)]
    BY DEF icnt_push
  <2> DEFINE z == Append(queue, e)
  <2> HIDE DEF z, m
  <2>2. m = [n EXCEPT !.in[src] = z]
    BY <2>1 DEF z
  <2>3. m = [in |-> [n.in EXCEPT ![src] = z], out |-> n.out, rr |-> n.rr, waited |-> n.waited]
    BY <1>1, <2>2
  <2> QED
    BY <2>3 DEF z
<1> HIDE DEF queue, e, m
<1>6. Append(queue, e) \in Seq(Entries) /\ Gains(Carried(queue), Carried(Append(queue, e)), a)
  BY <1>2, <1>4, CarryAccess, CarriedAppend
<1>7. I \in [Nodes -> Seq(Entries)] /\ I[src] = Append(queue, e) /\ \A x \in Nodes \ {src} : I[x] = n.in[x]
  BY <1>1, <1>6
<1> HIDE DEF I
<1>8. m \in Icnts /\ m.in = I /\ m.out = n.out /\ m.rr = n.rr /\ m.waited = n.waited
  BY <1>1, <1>5, <1>7 DEF Icnts
<1>9. Gains(Carried(n.in[src]), Carried(m.in[src]), a)
  BY <1>6, <1>7, <1>8 DEF queue
<1> QED
  BY <1>7, <1>8, <1>9 DEF m

\* SimpleInterconnect::pop takes the head of one output buffer.
LEMMA PopIs ==
    ASSUME mem \in MemSetups, NEW n \in Icnts, NEW node \in Nodes, n.out[node] # <<>>
    PROVE  LET m == icnt_pop(n, node)
           IN /\ m \in Icnts /\ m.in = n.in /\ m.rr = n.rr /\ m.waited = n.waited
              /\ \A x \in Nodes \ {node} : m.out[x] = n.out[x]
              /\ Loses(n.out[node], m.out[node], 1)
              /\ Head(n.out[node]) = n.out[node][1] /\ Head(n.out[node]) \in Accesses
              /\ 1 \in 1 .. Len(n.out[node])
<1> DEFINE queue == n.out[node]
           m == icnt_pop(n, node)
           O == [n.out EXCEPT ![node] = Tail(queue)]
<1>1. n.in \in [Nodes -> Seq(Entries)] /\ n.out \in [Nodes -> Seq(Accesses)] /\ n.rr \in Nodes /\ n.waited \in [Nodes -> Nat]
      /\ n = [in |-> n.in, out |-> n.out, rr |-> n.rr, waited |-> n.waited]
  BY DEF Icnts
<1>2. queue \in Seq(Accesses) /\ queue # <<>>
  BY <1>1
<1>3. m = [in |-> n.in, out |-> O, rr |-> n.rr, waited |-> n.waited]
  <2>1. m = [n EXCEPT !.out[node] = Tail(queue)]
    BY DEF icnt_pop
  <2> DEFINE z == Tail(queue)
  <2> HIDE DEF z, m
  <2>2. m = [n EXCEPT !.out[node] = z]
    BY <2>1 DEF z
  <2>3. m = [in |-> n.in, out |-> [n.out EXCEPT ![node] = z], rr |-> n.rr, waited |-> n.waited]
    BY <1>1, <2>2
  <2> QED
    BY <2>3 DEF z
<1> HIDE DEF queue, m
<1>4. Loses(queue, Tail(queue), 1) /\ Head(queue) = queue[1] /\ Head(queue) \in Accesses /\ Tail(queue) \in Seq(Accesses)
      /\ 1 \in 1 .. Len(queue)
  BY <1>2, TailLoses
<1>5. O \in [Nodes -> Seq(Accesses)] /\ O[node] = Tail(queue) /\ \A x \in Nodes \ {node} : O[x] = n.out[x]
  BY <1>1, <1>4
<1> HIDE DEF O
<1>6. m \in Icnts /\ m.in = n.in /\ m.out = O /\ m.rr = n.rr /\ m.waited = n.waited
  BY <1>1, <1>3, <1>5 DEF Icnts
<1> QED
  BY <1>4, <1>5, <1>6 DEF m, queue

\* SimpleDram::push adds one access to one channel and turns it into an answer.
LEMMA DramPushIs ==
    ASSUME mem \in MemSetups, NEW n \in Drams, NEW ch \in Channels, NEW a \in Accesses
    PROVE  LET m == dram_push(n, ch, a)
           IN /\ m \in Drams /\ m.response = n.response
              /\ \A x \in Channels \ {ch} : m.waiting[x] = n.waiting[x]
              /\ Gains(Carried(n.waiting[ch]), Carried(m.waiting[ch]), [a EXCEPT !.request = FALSE])
<1> DEFINE queue == n.waiting[ch]
           left == Max({mem.dram_latency, n.last})
           b == [a EXCEPT !.request = FALSE]
           e == [access |-> b, left |-> left]
           m == dram_push(n, ch, a)
           I == [n.waiting EXCEPT ![ch] = Append(queue, e)]
<1>1. n.waiting \in [Channels -> Seq(Stored)] /\ n.response \in [Channels -> Seq(Accesses)] /\ n.last \in Nat
      /\ n = [waiting |-> n.waiting, response |-> n.response, last |-> n.last]
  BY DEF Drams
<1>2. queue \in Seq(Stored)
  BY <1>1
<1>3. left \in Nat
  <2> DEFINE x == mem.dram_latency
             y == n.last
             S == {x, y}
             z == IF x <= y THEN y ELSE x
  <2>1. x \in Nat /\ y \in Nat
    BY <1>1, SetupIs
  <2> HIDE DEF x, y
  <2>2. S \in SUBSET Nat /\ S # {} /\ z \in Nat /\ \A u \in S : u <= z
    BY <2>1
  <2> HIDE DEF S, z
  <2>3. Max(S) \in S
    BY <2>2, MaxIs
  <2> QED
    BY <2>2, <2>3 DEF S, x, y
<1>4. b \in Accesses
  BY DEF Accesses
<1> HIDE DEF b, left
<1>5. e \in Stored /\ e.access = b
  BY <1>3, <1>4 DEF Stored
<1>6. m = [waiting |-> I, response |-> n.response, last |-> left]
  <2>1. m = [n EXCEPT !.waiting[ch] = Append(queue, e), !.last = left]
    BY DEF dram_push, b, left
  <2> DEFINE z == Append(queue, e)
  <2> HIDE DEF z, m
  <2>2. m = [n EXCEPT !.waiting[ch] = z, !.last = left]
    BY <2>1 DEF z
  <2>3. m = [waiting |-> [n.waiting EXCEPT ![ch] = z], response |-> n.response, last |-> left]
    BY <1>1, <2>2
  <2> QED
    BY <2>3 DEF z
<1> HIDE DEF queue, e, m
<1>7. Append(queue, e) \in Seq(Stored) /\ Gains(Carried(queue), Carried(Append(queue, e)), b)
  BY <1>2, <1>5, CarryAccess, CarriedAppend
<1>8. I \in [Channels -> Seq(Stored)] /\ I[ch] = Append(queue, e) /\ \A x \in Channels \ {ch} : I[x] = n.waiting[x]
  BY <1>1, <1>7
<1> HIDE DEF I
<1>9. m \in Drams /\ m.waiting = I /\ m.response = n.response
  BY <1>1, <1>3, <1>6, <1>8 DEF Drams
<1>10. Gains(Carried(n.waiting[ch]), Carried(m.waiting[ch]), b)
  BY <1>7, <1>8, <1>9 DEF queue
<1> QED
  BY <1>8, <1>9, <1>10 DEF m, b

-----------------------------------------------------------------------------
(* The port of a core.                                                     *)

\* A sound transport, and two with the same turns.
FlatSound(s, n) == s \in Transports /\ FlatOK(Flat(s), n)
SameTurns(s, t) == t.icnt.rr = s.icnt.rr /\ t.icnt.waited = s.icnt.waited

\* A transport is the record of its four parts.
LEMMA FieldsOf ==
    ASSUME NEW s \in Transports
    PROVE  /\ s.requests \in [MemCores -> Seq(Accesses)] /\ s.answered \in [MemCores -> Seq(Accesses)]
           /\ s.icnt \in Icnts /\ s.dram \in Drams
           /\ s = [requests |-> s.requests, icnt |-> s.icnt, dram |-> s.dram, answered |-> s.answered]
           /\ s.icnt.in \in [Nodes -> Seq(Entries)] /\ s.icnt.out \in [Nodes -> Seq(Accesses)]
           /\ s.icnt.rr \in Nodes /\ s.icnt.waited \in [Nodes -> Nat]
           /\ s.dram.waiting \in [Channels -> Seq(Stored)] /\ s.dram.response \in [Channels -> Seq(Accesses)]
           /\ s.dram.last \in Nat
BY DEF Transports, Icnts, Drams

\* The queue at a spot.
LEMMA FlatIs ==
    ASSUME mem \in MemSetups, NEW s
    PROVE  /\ \A k \in Stops : \A x \in Side(k) : Flat(s)[<<k, x>>] = Queue(s, k, x)
           /\ \A x : /\ Queue(s, 1, x) = s.answered[x] /\ Queue(s, 2, x) = s.icnt.out[x]
                     /\ Queue(s, 3, x) = Carried(s.icnt.in[NodeOf(x)])
                     /\ Queue(s, 4, x) = s.dram.response[x]
                     /\ Queue(s, 5, x) = Carried(s.dram.waiting[x])
                     /\ Queue(s, 6, x) = s.icnt.out[NodeOf(x)]
                     /\ Queue(s, 7, x) = Carried(s.icnt.in[x])
                     /\ Queue(s, 8, x) = s.requests[x]
<1>1. ASSUME NEW k \in Stops, NEW x \in Side(k) PROVE Flat(s)[<<k, x>>] = Queue(s, k, x)
  <2> DEFINE p == <<k, x>>
  <2>1. p \in Spots /\ p[1] = k /\ p[2] = x
    BY SpotIs
  <2> HIDE DEF p
  <2>2. Flat(s)[p] = Queue(s, k, x)
    BY <2>1 DEF Flat
  <2> QED
    BY <2>2 DEF p
<1>2. ASSUME NEW x
      PROVE  /\ Queue(s, 1, x) = s.answered[x] /\ Queue(s, 2, x) = s.icnt.out[x]
             /\ Queue(s, 3, x) = Carried(s.icnt.in[NodeOf(x)])
             /\ Queue(s, 4, x) = s.dram.response[x]
             /\ Queue(s, 5, x) = Carried(s.dram.waiting[x])
             /\ Queue(s, 6, x) = s.icnt.out[NodeOf(x)]
             /\ Queue(s, 7, x) = Carried(s.icnt.in[x])
             /\ Queue(s, 8, x) = s.requests[x]
  <2>1. Queue(s, 1, x) = s.answered[x] /\ Queue(s, 2, x) = s.icnt.out[x]
    BY DEF Queue
  <2>2. Queue(s, 3, x) = Carried(s.icnt.in[NodeOf(x)]) /\ Queue(s, 4, x) = s.dram.response[x]
    BY DEF Queue
  <2>3. Queue(s, 5, x) = Carried(s.dram.waiting[x]) /\ Queue(s, 6, x) = s.icnt.out[NodeOf(x)]
    BY DEF Queue
  <2>4. Queue(s, 7, x) = Carried(s.icnt.in[x]) /\ Queue(s, 8, x) = s.requests[x]
    BY DEF Queue
  <2> QED
    BY <2>1, <2>2, <2>3, <2>4
<1> QED
  BY <1>1, <1>2

\* Its first access may leave a spot for the one before it.
LEMMA FirstArrives ==
    ASSUME mem \in MemSetups, NEW Q, NEW lost, NEW k \in 1 .. 7, NEW x \in Side(k), NEW y \in Side(k + 1),
           NEW a, lost[<<k + 1, y>>] # 0, Same(a, Q[<<k + 1, y>>][lost[<<k + 1, y>>]]),
           Routed(a, k, x), y = End(k + 1, a.core, ChannelOf(a))
    PROVE  Arrives(a, <<k, x>>, Q, lost)
<1> DEFINE p == <<k, x>>
           r == <<k + 1, y>>
<1>1. k + 1 \in Stops /\ k < 8
  BY DEF Stops
<1>2. r \in Spots
  BY <1>1, SpotIs
<1>3. p[1] = k /\ p[2] = x
  OBVIOUS
<1>4. Source(a, k) = r
  BY DEF Source
<1> HIDE DEF p, r
<1>5. lost[r] # 0 /\ Same(a, Q[r][lost[r]])
  BY DEF r
<1>6. Arrives(a, p, Q, lost)
  BY <1>1, <1>2, <1>3, <1>4, <1>5 DEF Arrives
<1> QED
  BY <1>6 DEF p

\* The port of a core keeps the transport sound (Simulator::cycle).
LEMMA CorePortOK ==
    ASSUME mem \in MemSetups, NEW s, NEW n, FlatSound(s, n), NEW c \in MemCores
    PROVE  LET t == CorePort(s, c) IN FlatSound(t, n) /\ SameTurns(s, t)
<1> DEFINE t == CorePort(s, c)
           q == s.requests[c]
           o == s.icnt.out[c]
           a == Head(q)
           b == Head(o)
           u == IF q = <<>> THEN s.icnt ELSE icnt_push(s.icnt, c, get_dest_node(a), a)
           v == IF u.out[c] = <<>> THEN u ELSE icnt_pop(u, c)
           G == IF q = <<>> THEN q ELSE Tail(q)
           H == IF o = <<>> THEN s.answered[c] ELSE Append(s.answered[c], b)
           X == [s.requests EXCEPT ![c] = G]
           Z == [s.answered EXCEPT ![c] = H]
<1>1. s \in Transports /\ FlatOK(Flat(s), n)
  BY DEF FlatSound
<1>2. c \in Nodes
  BY SetupIs
<1>3. q \in Seq(Accesses) /\ o \in Seq(Accesses) /\ s.answered[c] \in Seq(Accesses) /\ s.icnt \in Icnts
  BY <1>1, <1>2, FieldsOf
<1>4. q # <<>> => Loses(q, G, 1) /\ a = q[1] /\ a \in Accesses /\ 1 \in 1 .. Len(q) /\ G \in Seq(Accesses)
  BY <1>3, TailLoses
<1>5. u \in Icnts /\ u.out = s.icnt.out /\ u.rr = s.icnt.rr /\ u.waited = s.icnt.waited
      /\ (\A x \in Nodes \ {c} : u.in[x] = s.icnt.in[x])
      /\ (q = <<>> => u.in = s.icnt.in)
      /\ (q # <<>> => Gains(Carried(s.icnt.in[c]), Carried(u.in[c]), a))
  <2>1. CASE q = <<>>
    BY <1>3, <2>1
  <2>2. CASE q # <<>>
    <3> DEFINE m == icnt_push(s.icnt, c, get_dest_node(a), a)
    <3>1. u = m
      BY <2>2
    <3> HIDE DEF a, q
    <3>2. /\ m \in Icnts /\ m.out = s.icnt.out /\ m.rr = s.icnt.rr /\ m.waited = s.icnt.waited
          /\ \A x \in Nodes \ {c} : m.in[x] = s.icnt.in[x]
          /\ Gains(Carried(s.icnt.in[c]), Carried(m.in[c]), a)
      BY <1>2, <1>3, <1>4, <2>2, PushIs
    <3> HIDE DEF m, u
    <3> QED
      BY <2>2, <3>1, <3>2
  <2> QED
    BY <2>1, <2>2
<1> HIDE DEF u
<1>6. v \in Icnts /\ v.in = u.in /\ v.rr = s.icnt.rr /\ v.waited = s.icnt.waited
      /\ (\A x \in Nodes \ {c} : v.out[x] = s.icnt.out[x])
      /\ (o = <<>> => v.out = s.icnt.out)
      /\ (o # <<>> => Loses(o, v.out[c], 1) /\ b = o[1] /\ b \in Accesses /\ 1 \in 1 .. Len(o))
  <2>1. CASE o = <<>>
    BY <1>5, <2>1
  <2>2. CASE o # <<>>
    <3> DEFINE m == icnt_pop(u, c)
    <3>1. v = m /\ u.out[c] = o
      BY <1>5, <2>2
    <3>2. /\ m \in Icnts /\ m.in = u.in /\ m.rr = u.rr /\ m.waited = u.waited
          /\ \A x \in Nodes \ {c} : m.out[x] = u.out[x]
          /\ Loses(u.out[c], m.out[c], 1)
          /\ Head(u.out[c]) = u.out[c][1] /\ Head(u.out[c]) \in Accesses /\ 1 \in 1 .. Len(u.out[c])
      BY <1>2, <1>5, <2>2, <3>1, PopIs
    <3> HIDE DEF m, v, o
    <3> QED
      BY <1>5, <2>2, <3>1, <3>2 DEF b
  <2> QED
    BY <2>1, <2>2
<1>7. o # <<>> => Gains(s.answered[c], H, b) /\ H \in Seq(Accesses)
  BY <1>3, <1>6, AppendGains
<1>8. t = [requests |-> X, icnt |-> v, dram |-> s.dram, answered |-> Z]
  <2>1. t = [s EXCEPT !.requests[c] = G, !.icnt = v, !.answered[c] = H]
    <3> DEFINE I == IF u.out[c] = <<>> THEN s.answered[c] ELSE Append(s.answered[c], Head(u.out[c]))
    <3>1. u.out[c] = o
      BY <1>5
    <3>2. I = H
      BY <3>1
    <3>3. t = [s EXCEPT !.requests[c] = G, !.icnt = v, !.answered[c] = I]
      BY DEF CorePort, u
    <3> HIDE DEF I, H, G, v, t
    <3> QED
      BY <3>2, <3>3
  <2> HIDE DEF t, G, v, H
  <2>2. s = [requests |-> s.requests, icnt |-> s.icnt, dram |-> s.dram, answered |-> s.answered]
    BY <1>1, FieldsOf
  <2> QED
    BY <2>1, <2>2
<1> HIDE DEF v, t
<1>9. /\ X \in [MemCores -> Seq(Accesses)] /\ X[c] = G /\ \A x \in MemCores \ {c} : X[x] = s.requests[x]
      /\ Z \in [MemCores -> Seq(Accesses)] /\ Z[c] = H /\ \A x \in MemCores \ {c} : Z[x] = s.answered[x]
  <2>1. G \in Seq(Accesses) /\ H \in Seq(Accesses)
    BY <1>3, <1>4, <1>7
  <2> HIDE DEF G, H
  <2> QED
    BY <1>1, <2>1, FieldsOf
<1> HIDE DEF X, Z
<1>10. t \in Transports /\ t.requests = X /\ t.icnt = v /\ t.dram = s.dram /\ t.answered = Z
  BY <1>1, <1>6, <1>8, <1>9, FieldsOf DEF Transports
<1> DEFINE Q == Flat(s)
           R == Flat(t)
           lost == [p \in Spots |-> IF (p = <<8, c>> /\ q # <<>>) \/ (p = <<2, c>> /\ o # <<>>) THEN 1 ELSE 0]
<1>11. 1 \in Stops /\ 2 \in Stops /\ 3 \in Stops /\ 4 \in Stops /\ 5 \in Stops /\ 6 \in Stops /\ 7 \in Stops /\ 8 \in Stops
  BY DEF Stops
<1>12. Side(1) = MemCores /\ Side(2) = MemCores /\ Side(7) = MemCores /\ Side(8) = MemCores
       /\ Side(3) = Channels /\ Side(4) = Channels /\ Side(5) = Channels /\ Side(6) = Channels
  BY DEF Side
<1>13. \A k \in Stops : \A x \in Side(k) :
         /\ <<k, x>> \in Spots /\ Q[<<k, x>>] = Queue(s, k, x) /\ R[<<k, x>>] = Queue(t, k, x)
         /\ lost[<<k, x>>] = (IF (k = 8 /\ x = c /\ q # <<>>) \/ (k = 2 /\ x = c /\ o # <<>>) THEN 1 ELSE 0)
  <2> TAKE k \in Stops
  <2> TAKE x \in Side(k)
  <2>1. <<k, x>> \in Spots
    BY SpotIs
  <2>2. Q[<<k, x>>] = Queue(s, k, x) /\ R[<<k, x>>] = Queue(t, k, x)
    BY FlatIs
  <2> HIDE DEF Q, R, q, o
  <2> QED
    BY <2>1, <2>2
<1>14. \A k \in Stops : \A x \in Side(k) : Q[<<k, x>>] \in Seq(Accesses)
         /\ \A i \in 1 .. Len(Q[<<k, x>>]) : Routed(Q[<<k, x>>][i], k, x)
  <2> TAKE k \in Stops
  <2> TAKE x \in Side(k)
  <2> DEFINE p == <<k, x>>
  <2>1. p \in Spots /\ p[1] = k /\ p[2] = x
    BY <1>13
  <2> HIDE DEF Q, p
  <2>2. Q[p] \in Seq(Accesses) /\ \A i \in 1 .. Len(Q[p]) : Routed(Q[p][i], k, x)
    BY <1>1, <2>1 DEF FlatOK, AllRouted, Q
  <2> QED
    BY <2>2 DEF p
<1> HIDE DEF Q, R, lost, G, H
<1>15. ASSUME NEW k \in Stops, NEW x \in Side(k) PROVE Moves(Q, R, lost, <<k, x>>)
  <2> DEFINE p == <<k, x>>
  <2>1. ASSUME Queue(t, k, x) = Queue(s, k, x), ~(k = 8 /\ x = c /\ q # <<>>), ~(k = 2 /\ x = c /\ o # <<>>)
        PROVE  Moves(Q, R, lost, p)
    <3>1. lost[p] = 0 /\ R[p] = Q[p]
      BY <1>13, <2>1
    <3> QED
      BY <3>1 DEF Moves
  <2>2. CASE k = 8 /\ x = c /\ q # <<>>
    <3>1. lost[p] = 1 /\ Q[p] = q /\ R[p] = G
      BY <1>9, <1>10, <1>13, <2>2, FlatIs
    <3> QED
      BY <1>4, <2>2, <3>1 DEF Moves
  <2>3. CASE k = 2 /\ x = c /\ o # <<>>
    <3>1. lost[p] = 1 /\ Q[p] = o /\ R[p] = v.out[c]
      BY <1>10, <1>13, <2>3, FlatIs, SMTT(30)
    <3> QED
      BY <1>6, <2>3, <3>1 DEF Moves
  <2>4. CASE k = 7 /\ x = c /\ q # <<>>
    <3> DEFINE w == <<8, c>>
    <3>1. lost[p] = 0 /\ Q[p] = Carried(s.icnt.in[c]) /\ R[p] = Carried(v.in[c])
      BY <1>10, <1>13, <2>4, FlatIs, SMTT(30)
    <3>2. lost[w] = 1 /\ Q[w] = q
      BY <1>11, <1>12, <1>13, <2>4, FlatIs
    <3>3. Routed(a, 8, c)
      BY <1>4, <1>11, <1>12, <1>14, <2>4, <3>2
    <3>4. a.core = c /\ a.request = TRUE
      <4>1. End(8, a.core, ChannelOf(a)) = a.core /\ (8 >= 6) = TRUE
        BY DEF End
      <4> QED
        BY <3>3, <4>1 DEF Routed
    <3>5. Routed(a, 7, c)
      <4>1. End(7, a.core, ChannelOf(a)) = a.core /\ (7 >= 6) = TRUE /\ (7 < 7) = FALSE
        BY DEF End
      <4> QED
        BY <3>4, <4>1, Zenon DEF Routed
    <3>6. Arrives(a, <<7, c>>, Q, lost)
      <4>1. 7 \in 1 .. 7 /\ c \in Side(7) /\ c \in Side(7 + 1) /\ <<7 + 1, c>> = w
        BY <1>12
      <4>2. lost[<<7 + 1, c>>] # 0 /\ Same(a, Q[<<7 + 1, c>>][lost[<<7 + 1, c>>]])
        BY <1>4, <2>4, <3>2, <4>1 DEF Same
      <4>3. c = End(7 + 1, a.core, ChannelOf(a))
        BY <3>4 DEF End
      <4> QED
        BY <3>5, <4>1, <4>2, <4>3, FirstArrives
    <3>7. Gains(Q[p], R[p], a)
      BY <1>5, <1>6, <2>4, <3>1
    <3> QED
      BY <2>4, <3>1, <3>6, <3>7 DEF Moves
  <2>5. CASE k = 1 /\ x = c /\ o # <<>>
    <3> DEFINE w == <<2, c>>
    <3>1. lost[p] = 0 /\ Q[p] = s.answered[c] /\ R[p] = H
      BY <1>9, <1>10, <1>13, <2>5, FlatIs
    <3>2. lost[w] = 1 /\ Q[w] = o
      BY <1>11, <1>12, <1>13, <2>5, FlatIs
    <3>3. Routed(b, 2, c)
      BY <1>6, <1>11, <1>12, <1>14, <2>5, <3>2
    <3>4. b.core = c /\ b.request = FALSE /\ ChannelOf(b) \in Channels
      <4>1. End(2, b.core, ChannelOf(b)) = b.core /\ (2 >= 6) = FALSE /\ (2 < 7) = TRUE
        BY DEF End
      <4> QED
        BY <3>3, <4>1, Zenon DEF Routed
    <3>5. Routed(b, 1, c)
      <4>1. End(1, b.core, ChannelOf(b)) = b.core /\ (1 >= 6) = FALSE /\ (1 < 7) = TRUE
        BY DEF End
      <4> QED
        BY <3>4, <4>1, Zenon DEF Routed
    <3>6. Arrives(b, <<1, c>>, Q, lost)
      <4>1. 1 \in 1 .. 7 /\ c \in Side(1) /\ c \in Side(1 + 1) /\ <<1 + 1, c>> = w
        BY <1>12
      <4>2. lost[<<1 + 1, c>>] # 0 /\ Same(b, Q[<<1 + 1, c>>][lost[<<1 + 1, c>>]])
        BY <1>6, <2>5, <3>2, <4>1 DEF Same
      <4>3. c = End(1 + 1, b.core, ChannelOf(b))
        BY <3>4 DEF End
      <4> QED
        BY <3>5, <4>1, <4>2, <4>3, FirstArrives
    <3>7. Gains(Q[p], R[p], b)
      BY <1>7, <2>5, <3>1
    <3> QED
      BY <2>5, <3>1, <3>6, <3>7 DEF Moves
  <2>6. CASE ~(k = 8 /\ x = c /\ q # <<>>) /\ ~(k = 2 /\ x = c /\ o # <<>>)
             /\ ~(k = 7 /\ x = c /\ q # <<>>) /\ ~(k = 1 /\ x = c /\ o # <<>>)
    <3>7. /\ Queue(s, 1, x) = s.answered[x] /\ Queue(t, 1, x) = Z[x]
          /\ Queue(s, 2, x) = s.icnt.out[x] /\ Queue(t, 2, x) = v.out[x]
          /\ Queue(s, 3, x) = Carried(s.icnt.in[NodeOf(x)]) /\ Queue(t, 3, x) = Carried(v.in[NodeOf(x)])
          /\ Queue(s, 4, x) = Queue(t, 4, x) /\ Queue(s, 5, x) = Queue(t, 5, x)
          /\ Queue(s, 6, x) = s.icnt.out[NodeOf(x)] /\ Queue(t, 6, x) = v.out[NodeOf(x)]
          /\ Queue(s, 7, x) = Carried(s.icnt.in[x]) /\ Queue(t, 7, x) = Carried(v.in[x])
          /\ Queue(s, 8, x) = s.requests[x] /\ Queue(t, 8, x) = X[x]
      <4>1. /\ Queue(s, 1, x) = s.answered[x] /\ Queue(s, 2, x) = s.icnt.out[x]
            /\ Queue(s, 3, x) = Carried(s.icnt.in[NodeOf(x)]) /\ Queue(s, 4, x) = s.dram.response[x]
            /\ Queue(s, 5, x) = Carried(s.dram.waiting[x]) /\ Queue(s, 6, x) = s.icnt.out[NodeOf(x)]
            /\ Queue(s, 7, x) = Carried(s.icnt.in[x]) /\ Queue(s, 8, x) = s.requests[x]
        BY FlatIs
      <4>2. /\ Queue(t, 1, x) = t.answered[x] /\ Queue(t, 2, x) = t.icnt.out[x]
            /\ Queue(t, 3, x) = Carried(t.icnt.in[NodeOf(x)]) /\ Queue(t, 4, x) = t.dram.response[x]
            /\ Queue(t, 5, x) = Carried(t.dram.waiting[x]) /\ Queue(t, 6, x) = t.icnt.out[NodeOf(x)]
            /\ Queue(t, 7, x) = Carried(t.icnt.in[x]) /\ Queue(t, 8, x) = t.requests[x]
        BY FlatIs
      <4> QED
        BY <1>10, <4>1, <4>2
    <3> SUFFICES Queue(t, k, x) = Queue(s, k, x)
      BY <2>1, <2>6
    <3> HIDE DEF p, q, o
    <3>1. CASE k = 1
      <4>1. CASE x = c
        <5>1. o = <<>> /\ H = s.answered[c]
          BY <2>6, <3>1, <4>1 DEF H, o
        <5> QED
          BY <1>9, <2>6, <3>7, <3>1, <4>1, <5>1
      <4>2. CASE x # c
        BY <1>9, <1>12, <2>6, <3>7, <3>1, <4>2
      <4> QED
        BY <4>1, <4>2
    <3>2. CASE k = 2
      <4>1. CASE x = c
        BY <1>6, <2>6, <3>7, <3>2, <4>1
      <4>2. CASE x # c
        <5>1. x \in Nodes \ {c}
          BY <1>12, <3>2, <4>2, SetupIs
        <5> QED
          BY <1>6, <2>6, <3>7, <3>2, <4>2, <5>1
      <4> QED
        BY <4>1, <4>2
    <3>3. CASE k = 3 \/ k = 6
      <4>1. x \in Channels
        BY <1>12, <3>3
      <4>2. NodeOf(x) \in Nodes \ {c}
        BY <4>1, SetupIs
      <4>3. v.in[NodeOf(x)] = s.icnt.in[NodeOf(x)] /\ v.out[NodeOf(x)] = s.icnt.out[NodeOf(x)]
        BY <1>5, <1>6, <4>2
      <4> QED
        BY <2>6, <3>7, <3>3, <4>3
    <3>4. CASE k = 4 \/ k = 5
      BY <2>6, <3>7, <3>4
    <3>5. CASE k = 7
      <4>1. CASE x = c
        BY <1>5, <1>6, <2>6, <3>7, <3>5, <4>1
      <4>2. CASE x # c
        <5>1. x \in Nodes \ {c}
          BY <1>12, <3>5, <4>2, SetupIs
        <5> QED
          BY <1>5, <1>6, <2>6, <3>7, <3>5, <4>2, <5>1
      <4> QED
        BY <4>1, <4>2
    <3>6. CASE k = 8
      <4>1. CASE x = c
        <5>1. q = <<>> /\ G = s.requests[c]
          BY <2>6, <3>6, <4>1 DEF G, q
        <5> QED
          BY <1>9, <2>6, <3>7, <3>6, <4>1, <5>1
      <4>2. CASE x # c
        BY <1>9, <1>12, <2>6, <3>7, <3>6, <4>2
      <4> QED
        BY <4>1, <4>2
    <3> QED
      BY <3>1, <3>2, <3>3, <3>4, <3>5, <3>6 DEF Stops
  <2> QED
    BY <2>2, <2>3, <2>4, <2>5, <2>6
<1>16. \A p \in Spots : Moves(Q, R, lost, p)
  <2> TAKE p \in Spots
  <2>1. p[1] \in Stops /\ p[2] \in Side(p[1]) /\ p = <<p[1], p[2]>>
    BY SpotIs
  <2>2. Moves(Q, R, lost, <<p[1], p[2]>>)
    BY <1>15, <2>1
  <2> QED
    BY <2>1, <2>2
<1>17. FlatOK(R, n)
  <2>1. FlatOK(Q, n)
    BY <1>1 DEF Q
  <2> QED
    BY <1>16, <2>1, MovesAreSteps
<1> QED
  BY <1>6, <1>10, <1>17 DEF FlatSound, SameTurns, R, t

-----------------------------------------------------------------------------
(* The port of a channel.                                                  *)

\* What is known of the accesses at a spot.
LEMMA AtSpot ==
    ASSUME mem \in MemSetups, NEW s, NEW n, FlatOK(Flat(s), n), NEW k \in Stops, NEW x \in Side(k)
    PROVE  /\ Flat(s)[<<k, x>>] \in Seq(Accesses)
           /\ \A i \in 1 .. Len(Flat(s)[<<k, x>>]) : Routed(Flat(s)[<<k, x>>][i], k, x)
<1> DEFINE p == <<k, x>>
           Q == Flat(s)
<1>1. p \in Spots /\ p[1] = k /\ p[2] = x
  BY SpotIs
<1> HIDE DEF p, Q
<1>2. Q[p] \in Seq(Accesses) /\ \A i \in 1 .. Len(Q[p]) : Routed(Q[p][i], k, x)
  BY <1>1 DEF FlatOK, AllRouted, Q
<1> QED
  BY <1>2 DEF p, Q

\* A step that moves every spot as allowed keeps the way sound.
LEMMA SpotwiseOK ==
    ASSUME mem \in MemSetups, NEW s, NEW t, NEW n, NEW lost, FlatOK(Flat(s), n),
           \A k \in Stops : \A x \in Side(k) : Moves(Flat(s), Flat(t), lost, <<k, x>>)
    PROVE  FlatOK(Flat(t), n)
<1> DEFINE Q == Flat(s)
           R == Flat(t)
<1>1. FlatOK(Q, n) /\ \A k \in Stops : \A x \in Side(k) : Moves(Q, R, lost, <<k, x>>)
  OBVIOUS
<1> HIDE DEF Q, R
<1>2. \A p \in Spots : Moves(Q, R, lost, p)
  <2> TAKE p \in Spots
  <2>1. p[1] \in Stops /\ p[2] \in Side(p[1]) /\ p = <<p[1], p[2]>>
    BY SpotIs
  <2>2. Moves(Q, R, lost, <<p[1], p[2]>>)
    BY <1>1, <2>1
  <2> QED
    BY <2>1, <2>2
<1>3. FlatOK(R, n)
  BY <1>1, <1>2, MovesAreSteps
<1> QED
  BY <1>3 DEF R

\* A spot that neither loses nor gains.
LEMMA Unmoved ==
    ASSUME mem \in MemSetups, NEW s, NEW t, NEW lost, NEW k \in Stops, NEW x \in Side(k),
           Queue(t, k, x) = Queue(s, k, x), lost[<<k, x>>] = 0
    PROVE  Moves(Flat(s), Flat(t), lost, <<k, x>>)
<1>1. Flat(s)[<<k, x>>] = Queue(s, k, x) /\ Flat(t)[<<k, x>>] = Queue(t, k, x)
  BY FlatIs
<1> QED
  BY <1>1 DEF Moves

\* The eight stops, four at the cores and four at the channels.
LEMMA StopsAre ==
    /\ 1 \in Stops /\ 2 \in Stops /\ 3 \in Stops /\ 4 \in Stops /\ 5 \in Stops /\ 6 \in Stops /\ 7 \in Stops /\ 8 \in Stops
    /\ Side(1) = MemCores /\ Side(2) = MemCores /\ Side(7) = MemCores /\ Side(8) = MemCores
    /\ Side(3) = Channels /\ Side(4) = Channels /\ Side(5) = Channels /\ Side(6) = Channels
BY DEF Stops, Side

\* Where an access belongs, spot by spot.
LEMMA RouteIs ==
    ASSUME NEW a, NEW x
    PROVE  /\ Routed(a, 8, x) <=> x = a.core /\ a.request = TRUE /\ a.core \in MemCores
           /\ Routed(a, 7, x) <=> x = a.core /\ a.request = TRUE /\ a.core \in MemCores
           /\ Routed(a, 6, x) <=> x = ChannelOf(a) /\ a.request = TRUE /\ a.core \in MemCores /\ ChannelOf(a) \in Channels
           /\ Routed(a, 5, x) <=> x = ChannelOf(a) /\ a.request = FALSE /\ a.core \in MemCores /\ ChannelOf(a) \in Channels
           /\ Routed(a, 4, x) <=> x = ChannelOf(a) /\ a.request = FALSE /\ a.core \in MemCores /\ ChannelOf(a) \in Channels
           /\ Routed(a, 3, x) <=> x = ChannelOf(a) /\ a.request = FALSE /\ a.core \in MemCores /\ ChannelOf(a) \in Channels
           /\ Routed(a, 2, x) <=> x = a.core /\ a.request = FALSE /\ a.core \in MemCores /\ ChannelOf(a) \in Channels
           /\ Routed(a, 1, x) <=> x = a.core /\ a.request = FALSE /\ a.core \in MemCores /\ ChannelOf(a) \in Channels
<1>1. /\ End(1, a.core, ChannelOf(a)) = a.core /\ End(2, a.core, ChannelOf(a)) = a.core
      /\ End(7, a.core, ChannelOf(a)) = a.core /\ End(8, a.core, ChannelOf(a)) = a.core
      /\ End(3, a.core, ChannelOf(a)) = ChannelOf(a) /\ End(4, a.core, ChannelOf(a)) = ChannelOf(a)
      /\ End(5, a.core, ChannelOf(a)) = ChannelOf(a) /\ End(6, a.core, ChannelOf(a)) = ChannelOf(a)
  BY DEF End
<1>2. /\ (8 >= 6) = TRUE /\ (7 >= 6) = TRUE /\ (6 >= 6) = TRUE /\ (5 >= 6) = FALSE
      /\ (4 >= 6) = FALSE /\ (3 >= 6) = FALSE /\ (2 >= 6) = FALSE /\ (1 >= 6) = FALSE
      /\ (8 < 7) = FALSE /\ (7 < 7) = FALSE /\ (6 < 7) = TRUE /\ (5 < 7) = TRUE
      /\ (4 < 7) = TRUE /\ (3 < 7) = TRUE /\ (2 < 7) = TRUE /\ (1 < 7) = TRUE
  OBVIOUS
<1>3. Routed(a, 8, x) <=> x = a.core /\ a.request = TRUE /\ a.core \in MemCores
  BY <1>1, <1>2, Zenon DEF Routed
<1>4. Routed(a, 7, x) <=> x = a.core /\ a.request = TRUE /\ a.core \in MemCores
  BY <1>1, <1>2, Zenon DEF Routed
<1>5. Routed(a, 6, x) <=> x = ChannelOf(a) /\ a.request = TRUE /\ a.core \in MemCores /\ ChannelOf(a) \in Channels
  BY <1>1, <1>2, Zenon DEF Routed
<1>6. Routed(a, 5, x) <=> x = ChannelOf(a) /\ a.request = FALSE /\ a.core \in MemCores /\ ChannelOf(a) \in Channels
  BY <1>1, <1>2, Zenon DEF Routed
<1>7. Routed(a, 4, x) <=> x = ChannelOf(a) /\ a.request = FALSE /\ a.core \in MemCores /\ ChannelOf(a) \in Channels
  BY <1>1, <1>2, Zenon DEF Routed
<1>8. Routed(a, 3, x) <=> x = ChannelOf(a) /\ a.request = FALSE /\ a.core \in MemCores /\ ChannelOf(a) \in Channels
  BY <1>1, <1>2, Zenon DEF Routed
<1>9. Routed(a, 2, x) <=> x = a.core /\ a.request = FALSE /\ a.core \in MemCores /\ ChannelOf(a) \in Channels
  BY <1>1, <1>2, Zenon DEF Routed
<1>10. Routed(a, 1, x) <=> x = a.core /\ a.request = FALSE /\ a.core \in MemCores /\ ChannelOf(a) \in Channels
  BY <1>1, <1>2, Zenon DEF Routed
<1> QED
  BY <1>3, <1>4, <1>5, <1>6, <1>7, <1>8, <1>9, <1>10

\* The port of a channel keeps the transport sound (Simulator::cycle).
LEMMA MemoryPortOK ==
    ASSUME mem \in MemSetups, NEW s, NEW n, FlatSound(s, n), NEW ch \in Channels
    PROVE  LET t == MemoryPort(s, ch) IN FlatSound(t, n) /\ SameTurns(s, t)
<1> DEFINE t == MemoryPort(s, ch)
           node == NodeOf(ch)
           f == s.icnt.out[node]
           a == Head(f)
           a2 == [a EXCEPT !.request = FALSE]
           r == s.dram.response[ch]
           b == Head(r)
           takes == f # <<>> /\ ~is_full(s.dram, ch)
           d == IF takes THEN dram_push(s.dram, ch, a) ELSE s.dram
           u == IF takes THEN icnt_pop(s.icnt, node) ELSE s.icnt
           v == IF r = <<>> THEN u ELSE icnt_push(u, node, get_dest_node(b), b)
           G == IF r = <<>> THEN r ELSE Tail(r)
           w == [d EXCEPT !.response[ch] = G]
<1>1. s \in Transports /\ FlatOK(Flat(s), n)
  BY DEF FlatSound
<1>2. node \in Nodes /\ node \notin MemCores
  BY SetupIs
<1>3. f \in Seq(Accesses) /\ r \in Seq(Accesses) /\ s.icnt \in Icnts /\ s.dram \in Drams
  BY <1>1, <1>2, FieldsOf
<1>4. r # <<>> => Loses(r, G, 1) /\ b = r[1] /\ b \in Accesses /\ 1 \in 1 .. Len(r)
  BY <1>3, TailLoses
<1>5. G \in Seq(Accesses)
  BY <1>3, TailLoses
<1>6. u \in Icnts /\ u.in = s.icnt.in /\ u.rr = s.icnt.rr /\ u.waited = s.icnt.waited
      /\ (\A x \in Nodes \ {node} : u.out[x] = s.icnt.out[x])
      /\ (~takes => u.out = s.icnt.out)
      /\ (takes => Loses(f, u.out[node], 1) /\ a = f[1] /\ a \in Accesses /\ 1 \in 1 .. Len(f))
  <2>1. CASE ~takes
    BY <1>3, <2>1
  <2>2. CASE takes
    <3> DEFINE m == icnt_pop(s.icnt, node)
    <3>1. u = m /\ f # <<>>
      BY <2>2
    <3> HIDE DEF node
    <3>2. /\ m \in Icnts /\ m.in = s.icnt.in /\ m.rr = s.icnt.rr /\ m.waited = s.icnt.waited
          /\ \A x \in Nodes \ {node} : m.out[x] = s.icnt.out[x]
          /\ Loses(f, m.out[node], 1)
          /\ Head(f) = f[1] /\ Head(f) \in Accesses /\ 1 \in 1 .. Len(f)
      BY <1>2, <1>3, <3>1, PopIs
    <3> HIDE DEF m, u, f, takes
    <3> QED
      BY <2>2, <3>1, <3>2
  <2> QED
    BY <2>1, <2>2
<1> HIDE DEF u
<1>7. d \in Drams /\ d.response = s.dram.response
      /\ (\A x \in Channels \ {ch} : d.waiting[x] = s.dram.waiting[x])
      /\ (~takes => d.waiting = s.dram.waiting)
      /\ (takes => Gains(Carried(s.dram.waiting[ch]), Carried(d.waiting[ch]), a2))
  <2>1. CASE ~takes
    BY <1>3, <2>1
  <2>2. CASE takes
    <3> DEFINE m == dram_push(s.dram, ch, a)
    <3>1. d = m /\ a \in Accesses
      BY <1>6, <2>2
    <3> HIDE DEF a
    <3>2. /\ m \in Drams /\ m.response = s.dram.response
          /\ \A x \in Channels \ {ch} : m.waiting[x] = s.dram.waiting[x]
          /\ Gains(Carried(s.dram.waiting[ch]), Carried(m.waiting[ch]), a2)
      BY <1>3, <3>1, DramPushIs, SMTT(30)
    <3> HIDE DEF m, d, takes, a2
    <3> QED
      BY <2>2, <3>1, <3>2
  <2> QED
    BY <2>1, <2>2
<1> HIDE DEF d
<1>8. v \in Icnts /\ v.out = u.out /\ v.rr = s.icnt.rr /\ v.waited = s.icnt.waited
      /\ (\A x \in Nodes \ {node} : v.in[x] = s.icnt.in[x])
      /\ (r = <<>> => v.in = s.icnt.in)
      /\ (r # <<>> => Gains(Carried(s.icnt.in[node]), Carried(v.in[node]), b))
  <2>1. CASE r = <<>>
    BY <1>6, <2>1
  <2>2. CASE r # <<>>
    <3> DEFINE m == icnt_push(u, node, get_dest_node(b), b)
    <3>1. v = m /\ b \in Accesses
      BY <1>4, <2>2
    <3> HIDE DEF b, node
    <3>2. /\ m \in Icnts /\ m.out = u.out /\ m.rr = u.rr /\ m.waited = u.waited
          /\ \A x \in Nodes \ {node} : m.in[x] = u.in[x]
          /\ Gains(Carried(u.in[node]), Carried(m.in[node]), b)
      BY <1>2, <1>6, <3>1, PushIs
    <3> HIDE DEF m, v, r
    <3> QED
      BY <1>6, <2>2, <3>1, <3>2
  <2> QED
    BY <2>1, <2>2
<1> HIDE DEF v
<1>9. /\ w \in Drams /\ w.waiting = d.waiting /\ w.response[ch] = G
      /\ \A x \in Channels \ {ch} : w.response[x] = s.dram.response[x]
  <2> DEFINE X == [d.response EXCEPT ![ch] = G]
  <2>1. d = [waiting |-> d.waiting, response |-> d.response, last |-> d.last] /\ d.waiting \in [Channels -> Seq(Stored)]
        /\ d.last \in Nat /\ d.response \in [Channels -> Seq(Accesses)]
    BY <1>7 DEF Drams
  <2> HIDE DEF G
  <2>2. w = [waiting |-> d.waiting, response |-> X, last |-> d.last]
    <3>1. d = [waiting |-> d.waiting, response |-> d.response, last |-> d.last]
      BY <2>1
    <3>2. w = [d EXCEPT !.response[ch] = G]
      OBVIOUS
    <3> HIDE DEF w
    <3>3. w = [d EXCEPT !.response = X]
      BY <3>2
    <3> HIDE DEF X
    <3> QED
      BY <3>1, <3>3
  <2>3. X \in [Channels -> Seq(Accesses)] /\ X[ch] = G /\ \A x \in Channels \ {ch} : X[x] = s.dram.response[x]
    BY <1>5, <1>7, <2>1
  <2> HIDE DEF w, X
  <2> QED
    BY <2>1, <2>2, <2>3 DEF Drams
<1>10. t = [requests |-> s.requests, icnt |-> v, dram |-> w, answered |-> s.answered]
  <2>1. s = [requests |-> s.requests, icnt |-> s.icnt, dram |-> s.dram, answered |-> s.answered]
    BY <1>1, FieldsOf
  <2>2. d.response[ch] = r
    BY <1>7
  <2>3. CASE r = <<>>
    <3>1. t = [s EXCEPT !.icnt = u, !.dram = d]
      <4> HIDE DEF r
      <4> QED
        BY <2>2, <2>3 DEF MemoryPort, u, d
    <3>2. v = u
      BY <2>3 DEF v
    <3>3. w = d
      <4>1. d = [waiting |-> d.waiting, response |-> d.response, last |-> d.last]
            /\ d.response \in [Channels -> Seq(Accesses)]
        BY <1>7 DEF Drams
      <4>2. G = d.response[ch]
        BY <2>2, <2>3
      <4> HIDE DEF G
      <4>3. [d.response EXCEPT ![ch] = G] = d.response
        BY <4>1, <4>2
      <4> QED
        BY <4>1, <4>3
    <3> HIDE DEF t, w
    <3> QED
      BY <2>1, <3>1, <3>2, <3>3
  <2>4. CASE r # <<>>
    <3> DEFINE h == d.response[ch]
               y == [d EXCEPT !.response[ch] = Tail(h)]
               z == icnt_push(u, node, get_dest_node(Head(h)), Head(h))
    <3>1. t = [s EXCEPT !.icnt = z, !.dram = y]
      <4>1. h # <<>>
        BY <2>2, <2>4
      <4> QED
        BY <4>1 DEF MemoryPort, u, d
    <3>2. y = w
      <4>1. Tail(h) = G
        BY <2>2, <2>4
      <4> HIDE DEF h, G
      <4> QED
        BY <4>1
    <3>3. z = v
      <4>1. v = icnt_push(u, node, get_dest_node(b), b)
        BY <2>4 DEF v
      <4> QED
        BY <2>2, <4>1
    <3> HIDE DEF t, w, y, z
    <3> QED
      BY <2>1, <3>1, <3>2, <3>3
  <2> QED
    BY <2>3, <2>4
<1> HIDE DEF w, t
<1>11. t \in Transports /\ t.requests = s.requests /\ t.icnt = v /\ t.dram = w /\ t.answered = s.answered
  BY <1>1, <1>8, <1>9, <1>10, FieldsOf DEF Transports
<1> DEFINE lost == [p \in Spots |-> IF (p = <<6, ch>> /\ takes) \/ (p = <<4, ch>> /\ r # <<>>) THEN 1 ELSE 0]
<1>12. \A k \in Stops : \A x \in Side(k) :
         /\ <<k, x>> \in Spots /\ Flat(s)[<<k, x>>] = Queue(s, k, x) /\ Flat(t)[<<k, x>>] = Queue(t, k, x)
         /\ lost[<<k, x>>] = (IF (k = 6 /\ x = ch /\ takes) \/ (k = 4 /\ x = ch /\ r # <<>>) THEN 1 ELSE 0)
  <2> TAKE k \in Stops
  <2> TAKE x \in Side(k)
  <2>1. <<k, x>> \in Spots
    BY SpotIs
  <2>2. Flat(s)[<<k, x>>] = Queue(s, k, x) /\ Flat(t)[<<k, x>>] = Queue(t, k, x)
    BY FlatIs
  <2> HIDE DEF r, takes
  <2> QED
    BY <2>1, <2>2
<1>13. \A x : /\ Queue(s, 1, x) = s.answered[x] /\ Queue(s, 2, x) = s.icnt.out[x]
              /\ Queue(s, 3, x) = Carried(s.icnt.in[NodeOf(x)])
              /\ Queue(s, 4, x) = s.dram.response[x]
              /\ Queue(s, 5, x) = Carried(s.dram.waiting[x])
              /\ Queue(s, 6, x) = s.icnt.out[NodeOf(x)]
              /\ Queue(s, 7, x) = Carried(s.icnt.in[x])
              /\ Queue(s, 8, x) = s.requests[x]
  BY FlatIs
<1>14. \A x : /\ Queue(t, 1, x) = s.answered[x] /\ Queue(t, 2, x) = v.out[x]
              /\ Queue(t, 3, x) = Carried(v.in[NodeOf(x)])
              /\ Queue(t, 4, x) = w.response[x]
              /\ Queue(t, 5, x) = Carried(d.waiting[x])
              /\ Queue(t, 6, x) = v.out[NodeOf(x)]
              /\ Queue(t, 7, x) = Carried(v.in[x])
              /\ Queue(t, 8, x) = s.requests[x]
  <2>1. \A x : /\ Queue(t, 1, x) = t.answered[x] /\ Queue(t, 2, x) = t.icnt.out[x]
              /\ Queue(t, 3, x) = Carried(t.icnt.in[NodeOf(x)])
              /\ Queue(t, 4, x) = t.dram.response[x]
              /\ Queue(t, 5, x) = Carried(t.dram.waiting[x])
              /\ Queue(t, 6, x) = t.icnt.out[NodeOf(x)]
              /\ Queue(t, 7, x) = Carried(t.icnt.in[x])
              /\ Queue(t, 8, x) = t.requests[x]
    BY FlatIs
  <2> QED
    BY <1>9, <1>11, <2>1
<1>15. takes => Routed(a, 6, ch)
  <2> SUFFICES ASSUME takes PROVE Routed(a, 6, ch)
    OBVIOUS
  <2> HIDE DEF takes
  <2>1. Flat(s)[<<6, ch>>] = f
    BY <1>12, <1>13, StopsAre
  <2> DEFINE p == <<6, ch>>
  <2>2. \A i \in 1 .. Len(Flat(s)[p]) : Routed(Flat(s)[p][i], 6, ch)
    BY <1>1, AtSpot, StopsAre
  <2> HIDE DEF f, p, a
  <2> QED
    BY <1>6, <2>1, <2>2 DEF p
<1>16. r # <<>> => Routed(b, 4, ch)
  <2> SUFFICES ASSUME r # <<>> PROVE Routed(b, 4, ch)
    OBVIOUS
  <2>1. Flat(s)[<<4, ch>>] = r
    BY <1>12, <1>13, StopsAre
  <2> DEFINE p == <<4, ch>>
  <2>2. \A i \in 1 .. Len(Flat(s)[p]) : Routed(Flat(s)[p][i], 4, ch)
    BY <1>1, AtSpot, StopsAre
  <2> HIDE DEF r, p, b
  <2> QED
    BY <1>4, <2>1, <2>2 DEF p
<1> HIDE DEF lost, takes, f, r, a, b, G
<1>17. ASSUME NEW k \in Stops, NEW x \in Side(k) PROVE Moves(Flat(s), Flat(t), lost, <<k, x>>)
  <2> DEFINE p == <<k, x>>
  <2>1. CASE k = 6 /\ x = ch /\ takes
    <3>1. lost[p] = 1 /\ Flat(s)[p] = f /\ Flat(t)[p] = u.out[node]
      BY <1>8, <1>12, <1>13, <1>14, <2>1 DEF f
    <3> QED
      BY <1>6, <2>1, <3>1 DEF Moves
  <2>2. CASE k = 4 /\ x = ch /\ r # <<>>
    <3>1. lost[p] = 1 /\ Flat(s)[p] = r /\ Flat(t)[p] = G
      BY <1>9, <1>12, <1>13, <1>14, <2>2 DEF r
    <3> QED
      BY <1>4, <2>2, <3>1 DEF Moves
  <2>3. CASE k = 5 /\ x = ch /\ takes
    <3> DEFINE o == <<6, ch>>
    <3>1. lost[p] = 0 /\ Flat(s)[p] = Carried(s.dram.waiting[ch]) /\ Flat(t)[p] = Carried(d.waiting[ch])
      BY <1>12, <1>13, <1>14, <2>3
    <3>2. lost[o] = 1 /\ Flat(s)[o] = f
      BY <1>12, <1>13, <2>3, StopsAre DEF f
    <3>3. a2.core = a.core /\ a2.nr = a.nr /\ a2.addr = a.addr /\ a2.request = FALSE
      <4>1. a \in Accesses
        BY <1>6, <2>3
      <4> QED
        BY <4>1 DEF Accesses
    <3> HIDE DEF a2
    <3>4. ch = ChannelOf(a) /\ ChannelOf(a2) = ch /\ a2.core \in MemCores /\ a2.request = FALSE
      BY <1>15, <2>3, <3>3, RouteIs, ZenonT(30) DEF ChannelOf
    <3>5. Routed(a2, 5, ch)
      BY <3>4, RouteIs
    <3>6. Arrives(a2, <<5, ch>>, Flat(s), lost)
      <4>1. 5 \in 1 .. 7 /\ ch \in Side(5) /\ ch \in Side(5 + 1) /\ <<5 + 1, ch>> = o
        BY StopsAre
      <4>2. lost[<<5 + 1, ch>>] # 0 /\ Same(a2, Flat(s)[<<5 + 1, ch>>][lost[<<5 + 1, ch>>]])
        BY <1>6, <2>3, <3>2, <3>3, <4>1 DEF Same
      <4>3. ch = End(5 + 1, a2.core, ChannelOf(a2))
        BY <3>4 DEF End
      <4> DEFINE Q == Flat(s)
      <4> HIDE DEF Q
      <4>4. lost[<<5 + 1, ch>>] # 0 /\ Same(a2, Q[<<5 + 1, ch>>][lost[<<5 + 1, ch>>]])
        BY <4>2 DEF Q
      <4>5. Arrives(a2, <<5, ch>>, Q, lost)
        BY <3>5, <4>1, <4>3, <4>4, FirstArrives
      <4> QED
        BY <4>5 DEF Q
    <3>7. Gains(Flat(s)[p], Flat(t)[p], a2)
      BY <1>7, <2>3, <3>1
    <3> QED
      BY <2>3, <3>1, <3>6, <3>7 DEF Moves
  <2>4. CASE k = 3 /\ x = ch /\ r # <<>>
    <3> DEFINE o == <<4, ch>>
    <3>1. lost[p] = 0 /\ Flat(s)[p] = Carried(s.icnt.in[node]) /\ Flat(t)[p] = Carried(v.in[node])
      BY <1>12, <1>13, <1>14, <2>4
    <3>2. lost[o] = 1 /\ Flat(s)[o] = r
      BY <1>12, <1>13, <2>4, StopsAre DEF r
    <3>3. ch = ChannelOf(b) /\ Routed(b, 3, ch)
      BY <1>16, <2>4, RouteIs
    <3>6. Arrives(b, <<3, ch>>, Flat(s), lost)
      <4>1. 3 \in 1 .. 7 /\ ch \in Side(3) /\ ch \in Side(3 + 1) /\ <<3 + 1, ch>> = o
        BY StopsAre
      <4>2. lost[<<3 + 1, ch>>] # 0 /\ Same(b, Flat(s)[<<3 + 1, ch>>][lost[<<3 + 1, ch>>]])
        BY <1>4, <2>4, <3>2, <4>1 DEF Same
      <4>3. ch = End(3 + 1, b.core, ChannelOf(b))
        BY <3>3 DEF End
      <4> DEFINE Q == Flat(s)
      <4> HIDE DEF Q
      <4>4. lost[<<3 + 1, ch>>] # 0 /\ Same(b, Q[<<3 + 1, ch>>][lost[<<3 + 1, ch>>]])
        BY <4>2 DEF Q
      <4>5. Arrives(b, <<3, ch>>, Q, lost)
        BY <3>3, <4>1, <4>3, <4>4, FirstArrives
      <4> QED
        BY <4>5 DEF Q
    <3>7. Gains(Flat(s)[p], Flat(t)[p], b)
      BY <1>8, <2>4, <3>1
    <3> QED
      BY <2>4, <3>1, <3>6, <3>7 DEF Moves
  <2>5. CASE ~(k = 6 /\ x = ch /\ takes) /\ ~(k = 4 /\ x = ch /\ r # <<>>)
             /\ ~(k = 5 /\ x = ch /\ takes) /\ ~(k = 3 /\ x = ch /\ r # <<>>)
    <3> SUFFICES Queue(t, k, x) = Queue(s, k, x)
      <4>1. lost[p] = 0
        BY <1>12, <2>5
      <4> QED
        BY <4>1, Unmoved
    <3>1. CASE k = 1 \/ k = 8
      BY <1>13, <1>14, <3>1
    <3>2. CASE k = 2 \/ k = 7
      <4>1. x \in MemCores
        BY <3>2, StopsAre
      <4>2. x \in Nodes \ {node}
        BY <1>2, <4>1, SetupIs
      <4>3. v.in[x] = s.icnt.in[x] /\ v.out[x] = s.icnt.out[x]
        BY <1>6, <1>8, <4>2
      <4> QED
        BY <1>13, <1>14, <3>2, <4>3
    <3>3. CASE k = 3 \/ k = 6
      <4>1. CASE x = ch
        BY <1>6, <1>8, <1>13, <1>14, <2>5, <3>3, <4>1
      <4>2. CASE x # ch
        <5>1. x \in Channels
          BY <3>3, StopsAre
        <5>2. NodeOf(x) \in Nodes \ {node}
          BY <4>2, <5>1, SetupIs
        <5>3. v.in[NodeOf(x)] = s.icnt.in[NodeOf(x)] /\ v.out[NodeOf(x)] = s.icnt.out[NodeOf(x)]
          BY <1>6, <1>8, <5>2
        <5> QED
          BY <1>13, <1>14, <3>3, <5>3
      <4> QED
        BY <4>1, <4>2
    <3>4. CASE k = 4
      <4>1. CASE x = ch
        <5>1. G = s.dram.response[ch]
          BY <2>5, <3>4, <4>1 DEF G, r
        <5> QED
          BY <1>9, <1>13, <1>14, <3>4, <4>1, <5>1
      <4>2. CASE x # ch
        BY <1>9, <1>13, <1>14, <3>4, <4>2, StopsAre
      <4> QED
        BY <4>1, <4>2
    <3>5. CASE k = 5
      <4>1. CASE x = ch
        BY <1>7, <1>13, <1>14, <2>5, <3>5, <4>1
      <4>2. CASE x # ch
        BY <1>7, <1>13, <1>14, <3>5, <4>2, StopsAre
      <4> QED
        BY <4>1, <4>2
    <3> QED
      BY <3>1, <3>2, <3>3, <3>4, <3>5 DEF Stops
  <2> QED
    BY <2>1, <2>2, <2>3, <2>4, <2>5
<1>18. FlatOK(Flat(t), n)
  BY <1>1, <1>17, SpotwiseOK
<1> QED
  BY <1>8, <1>11, <1>18 DEF FlatSound, SameTurns, t

-----------------------------------------------------------------------------
(* A cycle of the memory.                                                  *)

\* A cycle passes for the accesses of a channel.
Drained(q) == [i \in DOMAIN q |-> [q[i] EXCEPT !.left = IF @ > 0 THEN @ - 1 ELSE 0]]

\* What a channel carries does not change as time passes.
LEMMA DrainedIs ==
    ASSUME NEW q \in Seq(Stored)
    PROVE  Drained(q) \in Seq(Stored) /\ Carried(Drained(q)) = Carried(q)
<1> DEFINE n == Len(q)
           r == Drained(q)
<1>1. n \in Nat /\ DOMAIN q = 1 .. n /\ \A i \in 1 .. n : q[i] \in Stored
  BY LenProperties, ElementOfSeq
<1>2. r = [i \in 1 .. n |-> [q[i] EXCEPT !.left = IF @ > 0 THEN @ - 1 ELSE 0]]
  BY <1>1 DEF Drained
<1>3. ASSUME NEW i \in 1 .. n PROVE r[i] \in Stored /\ r[i].access = q[i].access
  <2> DEFINE e == q[i]
             x == IF e.left > 0 THEN e.left - 1 ELSE 0
  <2>1. e \in Stored
    BY <1>1
  <2>2. r[i] = [e EXCEPT !.left = x]
    BY <1>2
  <2> HIDE DEF e, r
  <2>3. x \in Int
    BY <2>1 DEF Stored
  <2> HIDE DEF x
  <2>4. r[i] \in Stored /\ r[i].access = e.access
    BY <2>1, <2>2, <2>3 DEF Stored
  <2> QED
    BY <2>4 DEF e
<1>4. DOMAIN r = 1 .. n /\ r = [i \in 1 .. n |-> r[i]]
  BY <1>2
<1> HIDE DEF r
<1>5. r \in Seq(Stored) /\ Len(r) = n
  <2> HIDE DEF n
  <2>1. r \in [1 .. n -> Stored]
    BY <1>3, <1>4
  <2> QED
    BY <1>1, <2>1, IsASeq, LenProperties
<1>6. Carried(r) = Carried(q)
  BY <1>3, <1>5, CarryAccess, CarriedSame
<1> QED
  BY <1>5, <1>6 DEF r

\* A cycle of the memory keeps the transport sound: in order with the simple
\* one, any access first with the external one (SimpleDram::cycle, DramRamulator2::cycle).
LEMMA DramCycleOK ==
    ASSUME mem \in MemSetups, NEW s, NEW n, FlatSound(s, n), NEW d \in dram_cycle(s.dram)
    PROVE  LET t == [s EXCEPT !.dram = d] IN FlatSound(t, n) /\ SameTurns(s, t)
<1> DEFINE t == [s EXCEPT !.dram = d]
           W == s.dram.waiting
           P == s.dram.response
           Serve(ch) == IF W[ch] = <<>> THEN {0}
                        ELSE IF mem.dram = "external" THEN DOMAIN W[ch]
                        ELSE {IF Head(W[ch]).left <= 0 THEN 1 ELSE 0}
           After(f) == [waiting |-> [ch \in Channels |-> Drained(IF f[ch] = 0 THEN W[ch] ELSE RemoveAt(W[ch], f[ch]))],
                        response |-> [ch \in Channels |-> IF f[ch] = 0 THEN P[ch] ELSE Append(P[ch], W[ch][f[ch]].access)],
                        last |-> IF s.dram.last > 0 THEN s.dram.last - 1 ELSE 0]
<1>1. s \in Transports /\ FlatOK(Flat(s), n)
  BY DEF FlatSound
<1>2. /\ W \in [Channels -> Seq(Stored)] /\ P \in [Channels -> Seq(Accesses)] /\ s.dram.last \in Nat
  BY <1>1, FieldsOf
<1>3. PICK pick : d = After(pick) /\ \A ch \in Channels : pick[ch] \in Serve(ch)
  <2> DEFINE F == {f \in [Channels -> 0 .. Max({0} \cup {Len(W[ch]) : ch \in Channels})] :
                     \A ch \in Channels : f[ch] \in Serve(ch)}
  <2>1. dram_cycle(s.dram) = {After(f) : f \in F}
    BY DEF dram_cycle, Drained
  <2> HIDE DEF After, Serve
  <2>2. PICK f \in F : d = After(f)
    BY <2>1
  <2> QED
    BY <2>2
<1>4. ASSUME NEW ch \in Channels
      PROVE  pick[ch] \in 0 .. Len(W[ch]) /\ (InOrderMemory => pick[ch] \in {0, 1})
  <2>1. W[ch] \in Seq(Stored) /\ Len(W[ch]) \in Nat /\ DOMAIN W[ch] = 1 .. Len(W[ch]) /\ pick[ch] \in Serve(ch)
    BY <1>2, <1>3, LenProperties
  <2>2. W[ch] # <<>> => Len(W[ch]) # 0
    BY <2>1, EmptySeq
  <2>3. InOrderMemory => mem.dram # "external"
    BY DEF InOrderMemory
  <2>4. CASE W[ch] = <<>>
    BY <2>1, <2>4
  <2>5. CASE W[ch] # <<>> /\ mem.dram = "external"
    <3>1. pick[ch] \in 1 .. Len(W[ch])
      BY <2>1, <2>5
    <3> HIDE DEF W
    <3> QED
      BY <2>3, <2>5, <3>1
  <2>6. CASE W[ch] # <<>> /\ mem.dram # "external"
    <3>1. pick[ch] \in {0, 1}
      BY <2>1, <2>6
    <3> HIDE DEF W
    <3> QED
      BY <2>1, <2>2, <2>6, <3>1
  <2> QED
    BY <2>4, <2>5, <2>6
<1> HIDE DEF Serve
<1> DEFINE V == d.waiting
           U == d.response
<1>5. /\ V = [ch \in Channels |-> Drained(IF pick[ch] = 0 THEN W[ch] ELSE RemoveAt(W[ch], pick[ch]))]
      /\ U = [ch \in Channels |-> IF pick[ch] = 0 THEN P[ch] ELSE Append(P[ch], W[ch][pick[ch]].access)]
      /\ d = [waiting |-> V, response |-> U, last |-> d.last] /\ d.last \in Nat
  BY <1>2, <1>3
<1> HIDE DEF W, P, V, U, After
<1>6. ASSUME NEW ch \in Channels, pick[ch] = 0
      PROVE  V[ch] \in Seq(Stored) /\ Carried(V[ch]) = Carried(W[ch]) /\ U[ch] = P[ch] /\ U[ch] \in Seq(Accesses)
  <2>1. V[ch] = Drained(W[ch]) /\ U[ch] = P[ch]
    BY <1>5, <1>6
  <2> QED
    BY <1>2, <2>1, DrainedIs
<1>7. ASSUME NEW ch \in Channels, pick[ch] # 0
      PROVE  /\ V[ch] \in Seq(Stored) /\ Loses(Carried(W[ch]), Carried(V[ch]), pick[ch])
             /\ U[ch] \in Seq(Accesses) /\ pick[ch] \in 1 .. Len(W[ch]) /\ Len(Carried(W[ch])) = Len(W[ch])
             /\ Gains(P[ch], U[ch], Carried(W[ch])[pick[ch]])
  <2> DEFINE q == W[ch]
             k == pick[ch]
             r == RemoveAt(q, k)
  <2>1. V[ch] = Drained(r) /\ U[ch] = Append(P[ch], q[k].access) /\ q \in Seq(Stored) /\ P[ch] \in Seq(Accesses)
    BY <1>2, <1>5, <1>7
  <2>2. k \in 1 .. Len(q)
    <3>1. k \in 0 .. Len(q) /\ Len(q) \in Nat
      BY <1>4, <2>1, LenProperties
    <3> HIDE DEF k, q
    <3>2. k # 0
      BY <1>7 DEF k
    <3> QED
      BY <3>1, <3>2
  <2> HIDE DEF q, k, r
  <2>3. /\ r \in Seq(Stored) /\ q[k] \in Stored /\ Loses(Carried(q), Carried(r), k) /\ Carried(q)[k] = q[k].access
    BY <2>1, <2>2, CarryAccess, CarriedRemove DEF r
  <2>4. Drained(r) \in Seq(Stored) /\ Carried(Drained(r)) = Carried(r)
    BY <2>3, DrainedIs
  <2>5. q[k].access \in Accesses
    BY <2>3, CarryAccess
  <2>6. Gains(P[ch], U[ch], q[k].access) /\ U[ch] \in Seq(Accesses)
    BY <2>1, <2>5, AppendGains
  <2>7. Len(Carried(q)) = Len(q)
    BY <2>1, CarryAccess, CarriedIs
  <2> QED
    BY <2>1, <2>2, <2>3, <2>4, <2>6, <2>7 DEF q, k
<1>8. t \in Transports /\ t.requests = s.requests /\ t.icnt = s.icnt /\ t.dram = d /\ t.answered = s.answered
  <2>1. V \in [Channels -> Seq(Stored)]
    <3>1. \A ch \in Channels : V[ch] \in Seq(Stored)
      BY <1>6, <1>7
    <3> QED
      BY <1>5, <3>1
  <2>2. U \in [Channels -> Seq(Accesses)]
    <3>1. \A ch \in Channels : U[ch] \in Seq(Accesses)
      BY <1>6, <1>7
    <3> QED
      BY <1>5, <3>1
  <2>3. d \in Drams
    <3>1. d = [waiting |-> V, response |-> U, last |-> d.last] /\ d.last \in Nat
      BY <1>5
    <3> DEFINE l == d.last
    <3> HIDE DEF l
    <3>2. d = [waiting |-> V, response |-> U, last |-> l] /\ l \in Nat
      BY <3>1 DEF l
    <3> QED
      BY <2>1, <2>2, <3>2 DEF Drams
  <2> QED
    BY <1>1, <2>3, FieldsOf DEF Transports
<1> HIDE DEF t
<1> DEFINE lost == [p \in Spots |-> IF p[1] = 5 THEN pick[p[2]] ELSE 0]
<1>9. \A k \in Stops : \A x \in Side(k) :
         /\ Flat(s)[<<k, x>>] = Queue(s, k, x) /\ Flat(t)[<<k, x>>] = Queue(t, k, x)
         /\ lost[<<k, x>>] = (IF k = 5 THEN pick[x] ELSE 0)
  <2> TAKE k \in Stops
  <2> TAKE x \in Side(k)
  <2> DEFINE p == <<k, x>>
  <2>1. p \in Spots /\ p[1] = k /\ p[2] = x
    BY SpotIs
  <2>2. Flat(s)[<<k, x>>] = Queue(s, k, x) /\ Flat(t)[<<k, x>>] = Queue(t, k, x)
    BY FlatIs
  <2> HIDE DEF p
  <2>3. lost[p] = IF k = 5 THEN pick[x] ELSE 0
    BY <2>1
  <2> QED
    BY <2>2, <2>3 DEF p
<1>10. \A x : /\ Queue(s, 1, x) = s.answered[x] /\ Queue(s, 2, x) = s.icnt.out[x]
              /\ Queue(s, 3, x) = Carried(s.icnt.in[NodeOf(x)])
              /\ Queue(s, 4, x) = P[x]
              /\ Queue(s, 5, x) = Carried(W[x])
              /\ Queue(s, 6, x) = s.icnt.out[NodeOf(x)]
              /\ Queue(s, 7, x) = Carried(s.icnt.in[x])
              /\ Queue(s, 8, x) = s.requests[x]
  BY FlatIs DEF P, W
<1>11. \A x : /\ Queue(t, 1, x) = s.answered[x] /\ Queue(t, 2, x) = s.icnt.out[x]
              /\ Queue(t, 3, x) = Carried(s.icnt.in[NodeOf(x)])
              /\ Queue(t, 4, x) = U[x]
              /\ Queue(t, 5, x) = Carried(V[x])
              /\ Queue(t, 6, x) = s.icnt.out[NodeOf(x)]
              /\ Queue(t, 7, x) = Carried(s.icnt.in[x])
              /\ Queue(t, 8, x) = s.requests[x]
  <2>1. \A x : /\ Queue(t, 1, x) = t.answered[x] /\ Queue(t, 2, x) = t.icnt.out[x]
              /\ Queue(t, 3, x) = Carried(t.icnt.in[NodeOf(x)])
              /\ Queue(t, 4, x) = t.dram.response[x]
              /\ Queue(t, 5, x) = Carried(t.dram.waiting[x])
              /\ Queue(t, 6, x) = t.icnt.out[NodeOf(x)]
              /\ Queue(t, 7, x) = Carried(t.icnt.in[x])
              /\ Queue(t, 8, x) = t.requests[x]
    BY FlatIs
  <2> QED
    BY <1>8, <2>1 DEF U, V
<1> HIDE DEF lost
<1>12. ASSUME NEW k \in Stops, NEW x \in Side(k) PROVE Moves(Flat(s), Flat(t), lost, <<k, x>>)
  <2> DEFINE p == <<k, x>>
  <2>1. CASE k \in {1, 2, 3, 6, 7, 8}
    <3>1. lost[p] = 0
      BY <1>9, <2>1
    <3>2. Queue(t, k, x) = Queue(s, k, x)
      BY <1>10, <1>11, <2>1
    <3> QED
      BY <3>1, <3>2, Unmoved
  <2>2. CASE k = 5
    <3>1. x \in Channels
      BY <2>2, StopsAre
    <3>2. lost[p] = pick[x] /\ Flat(s)[p] = Carried(W[x]) /\ Flat(t)[p] = Carried(V[x])
      BY <1>9, <1>10, <1>11, <2>2
    <3>3. CASE pick[x] = 0
      BY <1>6, <3>1, <3>2, <3>3 DEF Moves
    <3>4. CASE pick[x] # 0
      BY <1>4, <1>7, <3>1, <3>2, <3>4 DEF Moves
    <3> QED
      BY <3>3, <3>4
  <2>3. CASE k = 4
    <3>1. x \in Channels
      BY <2>3, StopsAre
    <3>2. lost[p] = 0 /\ Flat(s)[p] = P[x] /\ Flat(t)[p] = U[x]
      BY <1>9, <1>10, <1>11, <2>3
    <3>3. CASE pick[x] = 0
      BY <1>6, <3>1, <3>2, <3>3 DEF Moves
    <3>4. CASE pick[x] # 0
      <4> DEFINE o == <<5, x>>
                 a == Carried(W[x])[pick[x]]
                 Q == Flat(s)
      <4>1. lost[o] = pick[x] /\ Q[o] = Carried(W[x])
        BY <1>9, <1>10, <3>1, StopsAre
      <4>2. \A i \in 1 .. Len(Q[o]) : Routed(Q[o][i], 5, x)
        BY <1>1, <3>1, AtSpot, StopsAre
      <4> HIDE DEF Q, o
      <4>3. Routed(a, 5, x)
        BY <1>7, <3>1, <3>4, <4>1, <4>2
      <4>4. x = ChannelOf(a) /\ Routed(a, 4, x)
        BY <4>3, RouteIs
      <4>5. Gains(P[x], U[x], a)
        BY <1>7, <3>1, <3>4
      <4> HIDE DEF a
      <4>6. Arrives(a, <<4, x>>, Q, lost)
        <5>1. 4 \in 1 .. 7 /\ x \in Side(4) /\ x \in Side(4 + 1) /\ <<4 + 1, x>> = o
          BY <3>1, StopsAre DEF o
        <5>2. lost[<<4 + 1, x>>] # 0 /\ Same(a, Q[<<4 + 1, x>>][lost[<<4 + 1, x>>]])
          BY <3>4, <4>1, <5>1 DEF Same, a
        <5>3. x = End(4 + 1, a.core, ChannelOf(a))
          BY <4>4 DEF End
        <5> QED
          BY <4>4, <5>1, <5>2, <5>3, FirstArrives
      <4>7. Arrives(a, <<4, x>>, Flat(s), lost)
        BY <4>6 DEF Q
      <4> QED
        BY <2>3, <3>2, <4>5, <4>7 DEF Moves
    <3> QED
      BY <3>3, <3>4
  <2> QED
    BY <2>1, <2>2, <2>3 DEF Stops
<1>13. FlatOK(Flat(t), n)
  BY <1>1, <1>12, SpotwiseOK
<1> QED
  BY <1>8, <1>13 DEF FlatSound, SameTurns, t

-----------------------------------------------------------------------------
(* A cycle of the interconnect.                                            *)

\* The nodes are numbered from 0.
LEMMA NodeCount ==
    ASSUME mem \in MemSetups
    PROVE  Cardinality(Nodes) \in Nat \ {0} /\ Nodes = 0 .. Cardinality(Nodes) - 1
<1> DEFINE k == mem.cores + mem.channels
<1>1. k \in Nat \ {0} /\ Nodes = 0 .. k - 1
  <2>1. mem.cores \in Nat \ {0} /\ mem.channels \in Nat \ {0}
    BY SetupIs
  <2>2. k \in Nat \ {0}
    BY <2>1
  <2>3. Nodes = 0 .. k - 1
    <3>1. mem.cores + mem.channels - 1 = k - 1
      BY <2>1
    <3> HIDE DEF k
    <3> QED
      BY <3>1 DEF Nodes
  <2> QED
    BY <2>2, <2>3
<1> HIDE DEF k
<1>2. Cardinality(0 .. k - 1) = k
  BY <1>1, FS_Interval
<1> QED
  BY <1>1, <1>2

\* What an input buffer carries does not change as time passes.
LEMMA AgedIs ==
    ASSUME NEW q \in Seq(Entries)
    PROVE  Aged(q) \in Seq(Entries) /\ Carried(Aged(q)) = Carried(q)
<1> DEFINE n == Len(q)
           r == Aged(q)
<1>1. n \in Nat /\ DOMAIN q = 1 .. n /\ \A i \in 1 .. n : q[i] \in Entries
  BY LenProperties, ElementOfSeq
<1>2. r = [i \in 1 .. n |-> [q[i] EXCEPT !.left = IF @ > 0 THEN @ - 1 ELSE -1]]
  BY <1>1 DEF Aged
<1>3. ASSUME NEW i \in 1 .. n PROVE r[i] \in Entries /\ r[i].access = q[i].access
  <2> DEFINE e == q[i]
             x == IF e.left > 0 THEN e.left - 1 ELSE -1
  <2>1. e \in Entries
    BY <1>1
  <2>2. r[i] = [e EXCEPT !.left = x]
    BY <1>2
  <2> HIDE DEF e, r
  <2>3. x \in Int
    BY <2>1 DEF Entries
  <2> HIDE DEF x
  <2>4. r[i] \in Entries /\ r[i].access = e.access
    BY <2>1, <2>2, <2>3 DEF Entries
  <2> QED
    BY <2>4 DEF e
<1>4. DOMAIN r = 1 .. n /\ r = [i \in 1 .. n |-> r[i]]
  BY <1>2
<1> HIDE DEF r
<1>5. r \in Seq(Entries) /\ Len(r) = n
  <2> HIDE DEF n
  <2>1. r \in [1 .. n -> Entries]
    BY <1>3, <1>4
  <2> QED
    BY <1>1, <2>1, IsASeq, LenProperties
<1>6. Carried(r) = Carried(q)
  BY <1>3, <1>5, CarryAccess, CarriedSame
<1> QED
  BY <1>5, <1>6 DEF r

\* The sender of what a node receives.
Arrivals(n, node) == {src \in Delivered(n) : Head(n.in[src]).dest = node}
Sender(n, node) == CHOOSE src \in Arrivals(n, node) : TRUE

\* A cycle of the interconnect: who loses its head, who gains it, and whose
\* history grows.
LEMMA IcntCycleIs ==
    ASSUME mem \in MemSetups, NEW n \in Icnts
    PROVE  LET m == icnt_cycle(n)
           IN /\ m \in Icnts /\ m.rr = NextTurn(n.rr)
              /\ \A x \in Nodes : m.waited[x] = IF Ready(n, x) /\ x \notin Delivered(n) THEN n.waited[x] + 1 ELSE 0
              /\ \A x \in Nodes \ Delivered(n) : Carried(m.in[x]) = Carried(n.in[x])
              /\ \A x \in Nodes \cap Delivered(n) :
                   /\ Loses(Carried(n.in[x]), Carried(m.in[x]), 1)
                   /\ Carried(n.in[x])[1] = Head(n.in[x]).access /\ Head(n.in[x]) \in Entries
                   /\ 1 \in 1 .. Len(Carried(n.in[x]))
              /\ \A x \in Nodes : Arrivals(n, x) = {} => m.out[x] = n.out[x]
              /\ \A x \in Nodes : Arrivals(n, x) # {} =>
                   /\ Sender(n, x) \in Nodes \cap Delivered(n)
                   /\ Head(n.in[Sender(n, x)]).dest = x
                   /\ Gains(n.out[x], m.out[x], Head(n.in[Sender(n, x)]).access)
<1> DEFINE m == icnt_cycle(n)
           moved == Delivered(n)
           I == [src \in Nodes |-> Aged(IF src \in moved THEN Tail(n.in[src]) ELSE n.in[src])]
           O == [node \in Nodes |-> IF Arrivals(n, node) = {} THEN n.out[node]
                                    ELSE Append(n.out[node], Head(n.in[Sender(n, node)]).access)]
           X == [src \in Nodes |-> IF Ready(n, src) /\ src \notin moved THEN n.waited[src] + 1 ELSE 0]
           g == NextTurn(n.rr)
<1>1. m = [in |-> I, out |-> O, rr |-> g, waited |-> X]
  BY DEF icnt_cycle, Arrivals, Sender
<1>2. n.in \in [Nodes -> Seq(Entries)] /\ n.out \in [Nodes -> Seq(Accesses)] /\ n.rr \in Nodes /\ n.waited \in [Nodes -> Nat]
  BY DEF Icnts
<1>3. g \in Nodes
  <2> DEFINE k == Cardinality(Nodes)
  <2>1. k \in Nat \ {0} /\ Nodes = 0 .. k - 1
    BY NodeCount
  <2> DEFINE j == n.rr + 1
  <2> HIDE DEF k
  <2>2. j \in Nat
    BY <1>2, <2>1
  <2> HIDE DEF j, I, O, X, moved
  <2>3. j % k \in 0 .. k - 1
    BY <2>1, <2>2
  <2> QED
    BY <2>1, <2>3 DEF NextTurn, k, j
<1>4. X \in [Nodes -> Nat]
  BY <1>2
<1>5. moved \subseteq Nodes /\ \A x \in moved : n.in[x] # <<>>
  BY DEF Delivered, Ready
<1> HIDE DEF moved
<1>6. ASSUME NEW x \in Nodes, x \notin moved
      PROVE  I[x] \in Seq(Entries) /\ Carried(I[x]) = Carried(n.in[x])
  <2>1. I[x] = Aged(n.in[x])
    BY <1>6
  <2> QED
    BY <1>2, <2>1, AgedIs
<1>7. ASSUME NEW x \in Nodes, x \in moved
      PROVE  /\ I[x] \in Seq(Entries) /\ Loses(Carried(n.in[x]), Carried(I[x]), 1)
             /\ Carried(n.in[x])[1] = Head(n.in[x]).access /\ Head(n.in[x]) \in Entries
             /\ 1 \in 1 .. Len(Carried(n.in[x]))
  <2> DEFINE q == n.in[x]
             r == Tail(q)
  <2>1. I[x] = Aged(r) /\ q \in Seq(Entries) /\ q # <<>>
    BY <1>2, <1>5, <1>7
  <2> HIDE DEF q, I
  <2>2. r \in Seq(Entries) /\ Head(q) \in Entries /\ Loses(Carried(q), Carried(r), 1) /\ Carried(q)[1] = Head(q).access
    BY <2>1, CarryAccess, CarriedTail
  <2> HIDE DEF r
  <2>3. Aged(r) \in Seq(Entries) /\ Carried(Aged(r)) = Carried(r)
    BY <2>2, AgedIs
  <2>4. 1 \in 1 .. Len(Carried(q))
    BY <2>2 DEF Loses
  <2> QED
    BY <2>1, <2>2, <2>3, <2>4 DEF q
<1>8. ASSUME NEW x \in Nodes, Arrivals(n, x) # {}
      PROVE  /\ Sender(n, x) \in Nodes /\ Sender(n, x) \in moved /\ Head(n.in[Sender(n, x)]).dest = x
             /\ O[x] \in Seq(Accesses) /\ Gains(n.out[x], O[x], Head(n.in[Sender(n, x)]).access)
  <2> DEFINE y == Sender(n, x)
             a == Head(n.in[y]).access
  <2>1. y \in Arrivals(n, x)
    BY <1>8 DEF Sender
  <2>2. y \in moved /\ Head(n.in[y]).dest = x
    BY <2>1 DEF Arrivals, moved
  <2>3. y \in Nodes
    BY <1>5, <2>2
  <2> HIDE DEF y
  <2>4. a \in Accesses
    BY <1>7, <2>2, <2>3, CarryAccess
  <2>5. O[x] = Append(n.out[x], a) /\ n.out[x] \in Seq(Accesses)
    BY <1>2, <1>8 DEF y
  <2> HIDE DEF a
  <2>6. Gains(n.out[x], O[x], a) /\ O[x] \in Seq(Accesses)
    BY <2>4, <2>5, AppendGains
  <2> QED
    BY <2>2, <2>3, <2>6 DEF a, y
<1>9. \A x \in Nodes : Arrivals(n, x) = {} => O[x] = n.out[x]
  OBVIOUS
<1>10. I \in [Nodes -> Seq(Entries)]
  <2>1. \A x \in Nodes : I[x] \in Seq(Entries)
    BY <1>6, <1>7
  <2>2. I = [x \in Nodes |-> I[x]]
    OBVIOUS
  <2> HIDE DEF I
  <2> QED
    BY <2>1, <2>2
<1>11. O \in [Nodes -> Seq(Accesses)]
  <2>1. \A x \in Nodes : O[x] \in Seq(Accesses)
    BY <1>2, <1>8, <1>9
  <2>2. O = [x \in Nodes |-> O[x]]
    OBVIOUS
  <2> HIDE DEF O
  <2> QED
    BY <2>1, <2>2
<1>12. \A x \in Nodes : X[x] = IF Ready(n, x) /\ x \notin moved THEN n.waited[x] + 1 ELSE 0
  OBVIOUS
<1> HIDE DEF m, I, O, X, g
<1>13. m \in Icnts /\ m.in = I /\ m.out = O /\ m.rr = g /\ m.waited = X
  BY <1>1, <1>3, <1>4, <1>10, <1>11 DEF Icnts
<1> USE DEF moved
<1>14. /\ m.rr = NextTurn(n.rr)
       /\ \A x \in Nodes : m.waited[x] = IF Ready(n, x) /\ x \notin Delivered(n) THEN n.waited[x] + 1 ELSE 0
  BY <1>12, <1>13 DEF g
<1>15. \A x \in Nodes \ Delivered(n) : Carried(m.in[x]) = Carried(n.in[x])
  BY <1>6, <1>13
<1>16. \A x \in Nodes \cap Delivered(n) :
         /\ Loses(Carried(n.in[x]), Carried(m.in[x]), 1)
         /\ Carried(n.in[x])[1] = Head(n.in[x]).access /\ Head(n.in[x]) \in Entries
         /\ 1 \in 1 .. Len(Carried(n.in[x]))
  BY <1>7, <1>13
<1>17. \A x \in Nodes : Arrivals(n, x) = {} => m.out[x] = n.out[x]
  BY <1>9, <1>13
<1>18. \A x \in Nodes : Arrivals(n, x) # {} =>
         /\ Sender(n, x) \in Nodes \cap Delivered(n)
         /\ Head(n.in[Sender(n, x)]).dest = x
         /\ Gains(n.out[x], m.out[x], Head(n.in[Sender(n, x)]).access)
  BY <1>8, <1>13
<1> QED
  BY <1>13, <1>14, <1>15, <1>16, <1>17, <1>18 DEF m

\* A cycle of the interconnect keeps the transport sound (SimpleInterconnect::cycle).
LEMMA IcntCycleOK ==
    ASSUME mem \in MemSetups, NEW s, NEW n, FlatSound(s, n)
    PROVE  FlatSound([s EXCEPT !.icnt = icnt_cycle(s.icnt)], n)
<1> DEFINE m == icnt_cycle(s.icnt)
           t == [s EXCEPT !.icnt = m]
           moved == Delivered(s.icnt)
           got(x) == Arrivals(s.icnt, x) # {}
           from(x) == Sender(s.icnt, x)
           first(x) == Head(s.icnt.in[x])
<1>1. s \in Transports /\ FlatOK(Flat(s), n)
  BY DEF FlatSound
<1>2. s.icnt \in Icnts
  BY <1>1, FieldsOf
<1>3. /\ m \in Icnts
      /\ \A x \in Nodes \ moved : Carried(m.in[x]) = Carried(s.icnt.in[x])
      /\ \A x \in Nodes \cap moved :
           /\ Loses(Carried(s.icnt.in[x]), Carried(m.in[x]), 1)
           /\ Carried(s.icnt.in[x])[1] = first(x).access /\ first(x) \in Entries
           /\ 1 \in 1 .. Len(Carried(s.icnt.in[x]))
      /\ \A x \in Nodes : ~got(x) => m.out[x] = s.icnt.out[x]
      /\ \A x \in Nodes : got(x) =>
           /\ from(x) \in Nodes \cap moved /\ first(from(x)).dest = x
           /\ Gains(s.icnt.out[x], m.out[x], first(from(x)).access)
  BY <1>2, IcntCycleIs
<1> HIDE DEF m, moved, got, from, first
<1>4. t \in Transports /\ t.requests = s.requests /\ t.icnt = m /\ t.dram = s.dram /\ t.answered = s.answered
  BY <1>1, <1>3, FieldsOf DEF Transports
<1> HIDE DEF t
<1> DEFINE lost == [p \in Spots |-> IF (p[1] = 7 /\ p[2] \in moved) \/ (p[1] = 3 /\ NodeOf(p[2]) \in moved) THEN 1 ELSE 0]
<1>5. \A k \in Stops : \A x \in Side(k) :
         /\ Flat(s)[<<k, x>>] = Queue(s, k, x) /\ Flat(t)[<<k, x>>] = Queue(t, k, x)
         /\ lost[<<k, x>>] = (IF (k = 7 /\ x \in moved) \/ (k = 3 /\ NodeOf(x) \in moved) THEN 1 ELSE 0)
  <2> TAKE k \in Stops
  <2> TAKE x \in Side(k)
  <2> DEFINE p == <<k, x>>
  <2>1. p \in Spots /\ p[1] = k /\ p[2] = x
    BY SpotIs
  <2>2. Flat(s)[<<k, x>>] = Queue(s, k, x) /\ Flat(t)[<<k, x>>] = Queue(t, k, x)
    BY FlatIs
  <2> HIDE DEF p
  <2>3. lost[p] = (IF (k = 7 /\ x \in moved) \/ (k = 3 /\ NodeOf(x) \in moved) THEN 1 ELSE 0)
    BY <2>1
  <2> QED
    BY <2>2, <2>3 DEF p
<1>6. \A x : /\ Queue(s, 1, x) = s.answered[x] /\ Queue(s, 2, x) = s.icnt.out[x]
             /\ Queue(s, 3, x) = Carried(s.icnt.in[NodeOf(x)])
             /\ Queue(s, 4, x) = s.dram.response[x]
             /\ Queue(s, 5, x) = Carried(s.dram.waiting[x])
             /\ Queue(s, 6, x) = s.icnt.out[NodeOf(x)]
             /\ Queue(s, 7, x) = Carried(s.icnt.in[x])
             /\ Queue(s, 8, x) = s.requests[x]
  BY FlatIs
<1>7. \A x : /\ Queue(t, 1, x) = s.answered[x] /\ Queue(t, 2, x) = m.out[x]
             /\ Queue(t, 3, x) = Carried(m.in[NodeOf(x)])
             /\ Queue(t, 4, x) = s.dram.response[x]
             /\ Queue(t, 5, x) = Carried(s.dram.waiting[x])
             /\ Queue(t, 6, x) = m.out[NodeOf(x)]
             /\ Queue(t, 7, x) = Carried(m.in[x])
             /\ Queue(t, 8, x) = s.requests[x]
  <2>1. \A x : /\ Queue(t, 1, x) = t.answered[x] /\ Queue(t, 2, x) = t.icnt.out[x]
              /\ Queue(t, 3, x) = Carried(t.icnt.in[NodeOf(x)])
              /\ Queue(t, 4, x) = t.dram.response[x]
              /\ Queue(t, 5, x) = Carried(t.dram.waiting[x])
              /\ Queue(t, 6, x) = t.icnt.out[NodeOf(x)]
              /\ Queue(t, 7, x) = Carried(t.icnt.in[x])
              /\ Queue(t, 8, x) = t.requests[x]
    BY FlatIs
  <2> QED
    BY <1>4, <2>1
<1> HIDE DEF lost
<1>8. ASSUME NEW y \in MemCores, y \in moved
      PROVE  LET a == first(y).access
             IN /\ Routed(a, 7, y) /\ lost[<<7, y>>] = 1 /\ Flat(s)[<<7, y>>][1] = a
                /\ first(y).dest = NodeOf(ChannelOf(a))
  <2> DEFINE o == <<7, y>>
             Q == Flat(s)
             a == first(y).access
  <2>1. y \in Nodes \cap moved
    BY <1>8, SetupIs
  <2>2. lost[o] = 1 /\ Q[o] = Carried(s.icnt.in[y])
    BY <1>5, <1>6, <1>8, StopsAre
  <2>3. \A i \in 1 .. Len(Q[o]) : Routed(Q[o][i], 7, y)
    BY <1>1, <1>8, AtSpot, StopsAre
  <2> HIDE DEF o, Q
  <2>4. Q[o][1] = a /\ 1 \in 1 .. Len(Q[o]) /\ first(y) \in Entries
    BY <1>3, <2>1, <2>2
  <2>5. Routed(a, 7, y)
    BY <2>3, <2>4
  <2>6. a.request = TRUE /\ first(y).dest = get_dest_node(a)
    BY <2>4, <2>5, CarryAccess, RouteIs
  <2> QED
    BY <2>2, <2>4, <2>5, <2>6 DEF o, Q, get_dest_node, ChannelOf
<1>9. ASSUME NEW y \in Channels, NodeOf(y) \in moved
      PROVE  LET a == first(NodeOf(y)).access
             IN /\ Routed(a, 3, y) /\ lost[<<3, y>>] = 1 /\ Flat(s)[<<3, y>>][1] = a
                /\ first(NodeOf(y)).dest = a.core /\ a.core \in MemCores
  <2> DEFINE o == <<3, y>>
             z == NodeOf(y)
             Q == Flat(s)
             a == first(z).access
  <2>1. z \in Nodes \cap moved
    BY <1>9, SetupIs
  <2>2. lost[o] = 1 /\ Q[o] = Carried(s.icnt.in[z])
    BY <1>5, <1>6, <1>9, StopsAre
  <2>3. \A i \in 1 .. Len(Q[o]) : Routed(Q[o][i], 3, y)
    BY <1>1, <1>9, AtSpot, StopsAre
  <2> HIDE DEF o, Q, z
  <2>4. Q[o][1] = a /\ 1 \in 1 .. Len(Q[o]) /\ first(z) \in Entries
    BY <1>3, <2>1, <2>2
  <2>5. Routed(a, 3, y)
    BY <2>3, <2>4
  <2>6. a.request = FALSE /\ first(z).dest = get_dest_node(a) /\ a.core \in MemCores
    BY <2>4, <2>5, CarryAccess, RouteIs
  <2> QED
    BY <2>2, <2>4, <2>5, <2>6 DEF o, Q, z, get_dest_node
<1>10. ASSUME NEW k \in Stops, NEW x \in Side(k) PROVE Moves(Flat(s), Flat(t), lost, <<k, x>>)
  <2> DEFINE p == <<k, x>>
  <2>1. CASE k \in {1, 4, 5, 8}
    <3>1. lost[p] = 0
      BY <1>5, <2>1
    <3>2. Queue(t, k, x) = Queue(s, k, x)
      BY <1>6, <1>7, <2>1
    <3> QED
      BY <3>1, <3>2, Unmoved
  <2>2. CASE k = 7
    <3>1. x \in Nodes
      BY <2>2, StopsAre, SetupIs
    <3>2. CASE x \in moved
      <4>1. lost[p] = 1 /\ Flat(s)[p] = Carried(s.icnt.in[x]) /\ Flat(t)[p] = Carried(m.in[x])
        BY <1>5, <1>6, <1>7, <2>2, <3>2
      <4> QED
        BY <1>3, <3>1, <3>2, <4>1 DEF Moves
    <3>3. CASE x \notin moved
      <4>1. lost[p] = 0 /\ Queue(t, k, x) = Queue(s, k, x)
        BY <1>3, <1>5, <1>6, <1>7, <2>2, <3>1, <3>3
      <4> QED
        BY <4>1, Unmoved
    <3> QED
      BY <3>2, <3>3
  <2>3. CASE k = 3
    <3> DEFINE z == NodeOf(x)
    <3>1. z \in Nodes
      BY <2>3, StopsAre, SetupIs
    <3>2. CASE z \in moved
      <4>1. lost[p] = 1 /\ Flat(s)[p] = Carried(s.icnt.in[z]) /\ Flat(t)[p] = Carried(m.in[z])
        BY <1>5, <1>6, <1>7, <2>3, <3>2
      <4> QED
        BY <1>3, <3>1, <3>2, <4>1 DEF Moves
    <3>3. CASE z \notin moved
      <4>1. lost[p] = 0 /\ Queue(t, k, x) = Queue(s, k, x)
        BY <1>3, <1>5, <1>6, <1>7, <2>3, <3>1, <3>3
      <4> QED
        BY <4>1, Unmoved
    <3> QED
      BY <3>2, <3>3
  <2>4. CASE k = 2
    <3>1. x \in MemCores /\ x \in Nodes
      BY <2>4, StopsAre, SetupIs
    <3>2. CASE ~got(x)
      <4>1. lost[p] = 0 /\ Queue(t, k, x) = Queue(s, k, x)
        BY <1>3, <1>5, <1>6, <1>7, <2>4, <3>1, <3>2
      <4> QED
        BY <4>1, Unmoved
    <3>3. CASE got(x)
      <4> DEFINE z == from(x)
                 a == first(z).access
                 y == z - mem.cores
                 o == <<3, y>>
                 Q == Flat(s)
      <4>1. z \in Nodes /\ z \in moved /\ first(z).dest = x /\ Gains(s.icnt.out[x], m.out[x], a)
        BY <1>3, <3>1, <3>3
      <4>2. z \notin MemCores
        <5> SUFFICES ASSUME z \in MemCores PROVE FALSE
          OBVIOUS
        <5> HIDE DEF z
        <5>1. x = NodeOf(ChannelOf(a))
          BY <1>8, <4>1
        <5>2. ChannelOf(a) \in Nat
          BY ChannelNat DEF ChannelOf
        <5> DEFINE h == ChannelOf(a)
        <5> HIDE DEF a, h
        <5>3. x = mem.cores + h /\ h \in Nat /\ mem.cores \in Nat /\ x \in 0 .. mem.cores - 1
          BY <3>1, <5>1, <5>2, SetupIs DEF h, NodeOf, MemCores
        <5> QED
          BY <5>3
      <4>3. y \in Channels /\ NodeOf(y) = z
        BY <4>1, <4>2, SetupIs
      <4> HIDE DEF y, z
      <4>4. Routed(a, 3, y) /\ lost[o] = 1 /\ Q[o][1] = a /\ x = a.core /\ a.core \in MemCores
        BY <1>9, <4>1, <4>3
      <4> HIDE DEF a, Q
      <4>5. y = ChannelOf(a) /\ Routed(a, 2, x)
        BY <4>4, RouteIs, ZenonT(30)
      <4>6. Arrives(a, <<2, x>>, Q, lost)
        <5>1. 2 \in 1 .. 7 /\ x \in Side(2) /\ y \in Side(2 + 1) /\ <<2 + 1, y>> = o
          BY <3>1, <4>3, StopsAre
        <5>2. lost[<<2 + 1, y>>] # 0 /\ Same(a, Q[<<2 + 1, y>>][lost[<<2 + 1, y>>]])
          BY <4>4, <5>1 DEF Same
        <5>3. y = End(2 + 1, a.core, ChannelOf(a))
          BY <4>5 DEF End
        <5> QED
          BY <4>5, <5>1, <5>2, <5>3, FirstArrives
      <4>7. lost[p] = 0 /\ Flat(s)[p] = s.icnt.out[x] /\ Flat(t)[p] = m.out[x]
        BY <1>5, <1>6, <1>7, <2>4
      <4> QED
        BY <2>4, <4>1, <4>6, <4>7 DEF Moves, Q
    <3> QED
      BY <3>2, <3>3
  <2>5. CASE k = 6
    <3> DEFINE w == NodeOf(x)
    <3>1. x \in Channels /\ w \in Nodes /\ w \notin MemCores
      BY <2>5, StopsAre, SetupIs
    <3>2. CASE ~got(w)
      <4>1. lost[p] = 0 /\ Queue(t, k, x) = Queue(s, k, x)
        BY <1>3, <1>5, <1>6, <1>7, <2>5, <3>1, <3>2
      <4> QED
        BY <4>1, Unmoved
    <3>3. CASE got(w)
      <4> DEFINE z == from(w)
                 a == first(z).access
                 o == <<7, z>>
                 Q == Flat(s)
      <4>1. z \in Nodes /\ z \in moved /\ first(z).dest = w /\ Gains(s.icnt.out[w], m.out[w], a)
        BY <1>3, <3>1, <3>3
      <4>2. z \in MemCores
        <5> SUFFICES ASSUME z \notin MemCores PROVE FALSE
          OBVIOUS
        <5> DEFINE y == z - mem.cores
        <5>1. y \in Channels /\ NodeOf(y) = z
          BY <4>1, SetupIs
        <5> HIDE DEF y, z
        <5>2. w = a.core /\ a.core \in MemCores
          BY <1>9, <4>1, <5>1
        <5> QED
          BY <3>1, <5>2
      <4> HIDE DEF z
      <4>4. Routed(a, 7, z) /\ lost[o] = 1 /\ Q[o][1] = a /\ w = NodeOf(ChannelOf(a))
        BY <1>8, <4>1, <4>2
      <4>5. ChannelOf(a) = x
        <5> DEFINE h == ChannelOf(a)
        <5>1. h \in Nat
          BY ChannelNat DEF ChannelOf
        <5> HIDE DEF h
        <5>2. mem.cores + x = mem.cores + h /\ mem.cores \in Nat /\ x \in Int
          BY <3>1, <4>4, SetupIs DEF h, NodeOf
        <5>3. x = h
          BY <5>1, <5>2
        <5> QED
          BY <5>3 DEF h
      <4> HIDE DEF a, Q
      <4>6. z = a.core /\ Routed(a, 6, x)
        BY <3>1, <4>4, <4>5, RouteIs, ZenonT(30)
      <4>7. Arrives(a, <<6, x>>, Q, lost)
        <5>1. 6 \in 1 .. 7 /\ x \in Side(6) /\ z \in Side(6 + 1) /\ <<6 + 1, z>> = o
          BY <3>1, <4>2, StopsAre
        <5>2. lost[<<6 + 1, z>>] # 0 /\ Same(a, Q[<<6 + 1, z>>][lost[<<6 + 1, z>>]])
          BY <4>4, <5>1 DEF Same
        <5>3. z = End(6 + 1, a.core, ChannelOf(a))
          BY <4>6 DEF End
        <5> QED
          BY <4>6, <5>1, <5>2, <5>3, FirstArrives
      <4>8. lost[p] = 0 /\ Flat(s)[p] = s.icnt.out[w] /\ Flat(t)[p] = m.out[w]
        BY <1>5, <1>6, <1>7, <2>5
      <4> QED
        BY <2>5, <4>1, <4>7, <4>8 DEF Moves, Q
    <3> QED
      BY <3>2, <3>3
  <2> QED
    BY <2>1, <2>2, <2>3, <2>4, <2>5 DEF Stops
<1>11. FlatOK(Flat(t), n)
  BY <1>1, <1>10, SpotwiseOK
<1> QED
  BY <1>4, <1>11 DEF FlatSound, t, m

-----------------------------------------------------------------------------
(* The turns, and all the ports of one iteration.                          *)

\* A node that waits comes nearer to its turn with every turn it misses.
TurnsOK(n) == \A x \in Nodes : n.waited[x] + Turn(n, x) <= Cardinality(Nodes) - 1

\* How many nodes have their turn before this one.
LEMMA TurnIs ==
    ASSUME mem \in MemSetups, NEW n, n.rr \in Nodes, NEW x \in Nodes
    PROVE  /\ Turn(n, x) = IF n.rr <= x THEN x - n.rr ELSE x + Cardinality(Nodes) - n.rr
           /\ Turn(n, x) \in 0 .. Cardinality(Nodes) - 1
<1> DEFINE k == Cardinality(Nodes)
           r == n.rr
           a == x + k - r
<1>1. k \in Nat \ {0} /\ x \in 0 .. k - 1 /\ r \in 0 .. k - 1
  BY NodeCount
<1>2. Turn(n, x) = a % k
  BY DEF Turn
<1> HIDE DEF k, r
<1>3. CASE r <= x
  <2>1. a \in Nat /\ a = 1 * k + (x - r) /\ x - r \in 0 .. k - 1
    BY <1>1, <1>3
  <2> HIDE DEF a
  <2>2. a % k = x - r
    BY <1>1, <2>1, RemainderIs
  <2> QED
    BY <1>2, <1>3, <2>1, <2>2 DEF k, r
<1>4. CASE ~(r <= x)
  <2>1. a \in Nat /\ a = 0 * k + a /\ a \in 0 .. k - 1
    BY <1>1, <1>4
  <2>3. a = x + k - r
    OBVIOUS
  <2> HIDE DEF a
  <2>2. a % k = a
    BY <1>1, <2>1, RemainderIs
  <2> QED
    BY <1>2, <1>4, <2>1, <2>2, <2>3 DEF k, r
<1> QED
  BY <1>3, <1>4

\* The turn passes to the next node.
LEMMA NextTurnIs ==
    ASSUME mem \in MemSetups, NEW rr \in Nodes
    PROVE  /\ NextTurn(rr) = IF rr = Cardinality(Nodes) - 1 THEN 0 ELSE rr + 1
           /\ NextTurn(rr) \in Nodes
<1> DEFINE k == Cardinality(Nodes)
           a == rr + 1
<1>1. k \in Nat \ {0} /\ rr \in 0 .. k - 1 /\ Nodes = 0 .. k - 1
  BY NodeCount
<1>2. NextTurn(rr) = a % k
  BY DEF NextTurn
<1> HIDE DEF k
<1>3. CASE rr = k - 1
  <2>1. a \in Nat /\ a = 1 * k + 0 /\ 0 \in 0 .. k - 1
    BY <1>1, <1>3
  <2> HIDE DEF a
  <2>2. a % k = 0
    BY <1>1, <2>1, RemainderIs
  <2> QED
    BY <1>1, <1>2, <1>3, <2>1, <2>2 DEF k
<1>4. CASE rr # k - 1
  <2>1. a \in Nat /\ a = 0 * k + a /\ a \in 0 .. k - 1
    BY <1>1, <1>4
  <2> HIDE DEF a
  <2>2. a % k = a
    BY <1>1, <2>1, RemainderIs
  <2> QED
    BY <1>1, <1>2, <1>4, <2>1, <2>2 DEF k, a
<1> QED
  BY <1>3, <1>4

\* A head that waits a cycle is one turn nearer (SimpleInterconnect::cycle).
LEMMA TurnsStep ==
    ASSUME mem \in MemSetups, NEW n \in Icnts, TurnsOK(n)
    PROVE  TurnsOK(icnt_cycle(n))
<1> DEFINE m == icnt_cycle(n)
           k == Cardinality(Nodes)
<1>1. /\ m \in Icnts /\ m.rr = NextTurn(n.rr)
      /\ \A x \in Nodes : m.waited[x] = IF Ready(n, x) /\ x \notin Delivered(n) THEN n.waited[x] + 1 ELSE 0
  BY IcntCycleIs
<1>2. n.rr \in Nodes /\ m.rr \in Nodes /\ n.waited \in [Nodes -> Nat] /\ k \in Nat \ {0} /\ Nodes = 0 .. k - 1
  BY <1>1, NodeCount DEF Icnts
<1> HIDE DEF m
<1> SUFFICES ASSUME NEW x \in Nodes PROVE m.waited[x] + Turn(m, x) <= k - 1
  BY DEF TurnsOK, m
<1>3. Turn(m, x) \in 0 .. k - 1 /\ Turn(n, x) \in 0 .. k - 1
  BY <1>2, TurnIs
<1>4. CASE ~(Ready(n, x) /\ x \notin Delivered(n))
  <2>1. m.waited[x] = 0
    BY <1>1, <1>4
  <2> HIDE DEF k
  <2> QED
    BY <1>2, <1>3, <2>1
<1>5. CASE Ready(n, x) /\ x \notin Delivered(n)
  <2>1. PICK other \in Nodes : Ready(n, other) /\ ~(Turn(n, x) <= Turn(n, other))
    BY <1>5 DEF Delivered
  <2>2. Turn(n, other) \in 0 .. k - 1
    BY <1>2, TurnIs
  <2>3. Turn(n, x) >= 1
    <3> HIDE DEF k
    <3> QED
      BY <1>2, <1>3, <2>1, <2>2
  <2>4. /\ Turn(n, x) = IF n.rr <= x THEN x - n.rr ELSE x + k - n.rr
        /\ Turn(m, x) = IF m.rr <= x THEN x - m.rr ELSE x + k - m.rr
        /\ m.rr = IF n.rr = k - 1 THEN 0 ELSE n.rr + 1
    BY <1>1, <1>2, TurnIs, NextTurnIs
  <2>5. Turn(m, x) = Turn(n, x) - 1
    <3> HIDE DEF k
    <3> DEFINE r == n.rr
               q == m.rr
               u == Turn(n, x)
               v == Turn(m, x)
    <3> HIDE DEF r, q, u, v
    <3>1. /\ u = IF r <= x THEN x - r ELSE x + k - r
          /\ v = IF q <= x THEN x - q ELSE x + k - q
          /\ q = IF r = k - 1 THEN 0 ELSE r + 1
          /\ k \in Nat \ {0} /\ x \in 0 .. k - 1 /\ r \in 0 .. k - 1 /\ u >= 1
      BY <1>2, <2>3, <2>4 DEF r, q, u, v
    <3>2. v = u - 1
      BY <3>1
    <3> QED
      BY <3>2 DEF u, v
  <2>6. m.waited[x] = n.waited[x] + 1 /\ n.waited[x] \in Nat /\ n.waited[x] + Turn(n, x) <= k - 1
    BY <1>1, <1>2, <1>5 DEF TurnsOK
  <2> DEFINE a == m.waited[x]
             b == n.waited[x]
             u == Turn(n, x)
             v == Turn(m, x)
  <2> HIDE DEF a, b, u, v, k
  <2>7. a = b + 1 /\ b \in Nat /\ b + u <= k - 1 /\ v = u - 1 /\ u \in 0 .. k - 1 /\ k \in Nat
    BY <1>2, <1>3, <2>5, <2>6 DEF a, b, u, v
  <2>8. a + v <= k - 1
    BY <2>7
  <2> QED
    BY <2>8 DEF a, v
<1> QED
  BY <1>4, <1>5

\* Every node's port in turn.
PortsFrom(s, k, g) == g = [i \in 0 .. k |-> IF i = 0 THEN {s} ELSE {Port(t, i - 1) : t \in g[i - 1]}]

\* Serving the ports one after another is well defined for any number of them.
LEMMA PortsExist ==
    ASSUME NEW s
    PROVE  \A k \in Nat : \E g : PortsFrom(s, k, g)
<1> DEFINE P == {k \in Nat : \E g : PortsFrom(s, k, g)}
           Next(S, i) == {Port(t, i) : t \in S}
<1>1. 0 \in P
  <2> DEFINE g == [i \in 0 .. 0 |-> {s}]
  <2>1. PortsFrom(s, 0, g)
    BY DEF PortsFrom
  <2> QED
    BY <2>1
<1>2. ASSUME NEW k \in Nat, k \in P PROVE k + 1 \in P
  <2>1. PICK g : PortsFrom(s, k, g)
    BY <1>2
  <2> DEFINE h == [i \in 0 .. k + 1 |-> IF i <= k THEN g[i] ELSE Next(g[k], k)]
  <2>2. \A i \in 0 .. k : g[i] = IF i = 0 THEN {s} ELSE Next(g[i - 1], i - 1)
    BY <2>1 DEF PortsFrom
  <2> HIDE DEF Next
  <2>3. ASSUME NEW i \in 0 .. k + 1
        PROVE  h[i] = IF i = 0 THEN {s} ELSE Next(h[i - 1], i - 1)
    <3>1. CASE i = 0
      BY <2>2, <3>1
    <3>2. CASE i \in 1 .. k
      <4>1. i - 1 \in 0 .. k /\ i - 1 \in 0 .. k + 1 /\ i \in 0 .. k
        BY <3>2
      <4>2. h[i] = g[i] /\ h[i - 1] = g[i - 1]
        BY <4>1
      <4> QED
        BY <2>2, <3>2, <4>1, <4>2
    <3>3. CASE i = k + 1
      <4>1. h[i] = Next(g[k], k) /\ h[i - 1] = g[k] /\ i # 0 /\ i - 1 = k
        BY <3>3
      <4> QED
        BY <4>1
    <3> QED
      BY <3>1, <3>2, <3>3
  <2>4. h = [i \in 0 .. k + 1 |-> h[i]]
    OBVIOUS
  <2> HIDE DEF h
  <2>5. h = [i \in 0 .. k + 1 |-> IF i = 0 THEN {s} ELSE Next(h[i - 1], i - 1)]
    BY <2>3, <2>4
  <2>6. PortsFrom(s, k + 1, h)
    BY <2>5 DEF PortsFrom, Next
  <2> QED
    BY <2>6
<1> HIDE DEF P
<1>3. \A k \in Nat : k \in P
  BY <1>1, <1>2, NatSetInduction
<1> QED
  BY <1>3 DEF P

\* Any port keeps the transport sound and the turns where they are.
LEMMA PortOK ==
    ASSUME mem \in MemSetups, NEW s, NEW n, FlatSound(s, n), NEW node \in Nodes
    PROVE  FlatSound(Port(s, node), n) /\ SameTurns(s, Port(s, node))
<1>1. CASE node \in MemCores
  BY <1>1, CorePortOK DEF Port
<1>2. CASE node \notin MemCores
  <2>1. node - mem.cores \in Channels
    BY <1>2, SetupIs
  <2> QED
    BY <1>2, <2>1, MemoryPortOK DEF Port
<1> QED
  BY <1>1, <1>2

\* So do all of them, in the order of Simulator::cycle.
LEMMA PortsOK ==
    ASSUME mem \in MemSetups, NEW s, NEW n, FlatSound(s, n), NEW t \in Ports(s)
    PROVE  FlatSound(t, n) /\ SameTurns(s, t)
<1> DEFINE k == Cardinality(Nodes)
           g == CHOOSE h : PortsFrom(s, k, h)
           Good(r) == FlatSound(r, n) /\ SameTurns(s, r)
           P == {i \in Nat : i <= k => \A r \in g[i] : Good(r)}
<1>1. k \in Nat \ {0} /\ Nodes = 0 .. k - 1
  BY NodeCount
<1>2. PortsFrom(s, k, g)
  BY <1>1, PortsExist
<1>3. Ports(s) = g[k]
  BY DEF Ports, PortsFrom
<1> HIDE DEF g, k
<1>4. \A i \in 0 .. k : g[i] = IF i = 0 THEN {s} ELSE {Port(r, i - 1) : r \in g[i - 1]}
  BY <1>2 DEF PortsFrom
<1>5. 0 \in P
  <2>1. g[0] = {s}
    <3>1. 0 \in 0 .. k
      BY <1>1
    <3> QED
      BY <1>4, <3>1
  <2>2. SameTurns(s, s)
    BY DEF SameTurns
  <2> QED
    BY <2>1, <2>2
<1>6. ASSUME NEW i \in Nat, i \in P PROVE i + 1 \in P
  <2> SUFFICES ASSUME i + 1 <= k, NEW r \in g[i + 1] PROVE Good(r)
    OBVIOUS
  <2>1. \A q \in g[i] : Good(q)
    BY <1>1, <1>6
  <2>2. i + 1 \in 0 .. k /\ i + 1 # 0 /\ (i + 1) - 1 = i /\ i \in Nodes
    BY <1>1
  <2>3. g[i + 1] = {Port(q, i) : q \in g[i]}
    BY <1>4, <2>2
  <2>4. PICK q \in g[i] : r = Port(q, i)
    BY <2>3
  <2>5. FlatSound(q, n) /\ SameTurns(s, q)
    BY <2>1
  <2>6. FlatSound(r, n) /\ SameTurns(q, r)
    BY <2>2, <2>4, <2>5, PortOK
  <2> QED
    BY <2>5, <2>6 DEF SameTurns
<1> HIDE DEF P, Good
<1>7. \A i \in Nat : i \in P
  BY <1>5, <1>6, NatSetInduction
<1>8. \A r \in g[k] : Good(r)
  BY <1>1, <1>7 DEF P
<1> QED
  BY <1>3, <1>8 DEF Good

-----------------------------------------------------------------------------
(* The invariant, and what the cores ask for.                              *)

\* The transport as it is, and the invariant.
MemNow == [requests |-> requests, icnt |-> icnt, dram |-> dram, answered |-> answered]
AskedOK(n) == n \in [MemCores -> Nat] /\ \A c \in MemCores : n[c] <= Len(mem.program[c + 1])
MemInv == mem \in MemSetups /\ AskedOK(asked) /\ FlatSound(MemNow, asked) /\ TurnsOK(icnt)

\* The accesses of a program are accesses.
LEMMA ProgramIs ==
    ASSUME mem \in MemSetups, NEW c \in MemCores
    PROVE  /\ mem.program[c + 1] \in Seq([addr : SUBSET Nat, write : BOOLEAN])
           /\ Len(mem.program[c + 1]) \in Nat
           /\ \A nr \in 1 .. Len(mem.program[c + 1]) : Asked(c, nr) \in Accesses
<1> DEFINE p == mem.program
           q == p[c + 1]
           L == [addr : SUBSET Nat, write : BOOLEAN]
<1>1. p \in Seq(Seq(L)) /\ Len(p) = mem.cores /\ mem.cores \in Nat \ {0}
  BY MemSystemAssumption
<1>2. c \in 0 .. mem.cores - 1 /\ c \in Nat
  BY <1>1 DEF MemCores
<1>3. c + 1 \in 1 .. Len(p)
  <2> HIDE DEF p
  <2> QED
    BY <1>1, <1>2
<1>4. q \in Seq(L)
  <2> HIDE DEF p, L
  <2> QED
    BY <1>1, <1>3, ElementOfSeq
<1>5. Len(q) \in Nat
  <2> HIDE DEF q, L
  <2> QED
    BY <1>4, LenProperties
<1>6. ASSUME NEW nr \in 1 .. Len(q) PROVE Asked(c, nr) \in Accesses
  <2> DEFINE e == q[nr]
  <2>1. e \in L
    <3> HIDE DEF q, L
    <3> QED
      BY <1>4, <1>6, ElementOfSeq
  <2>2. nr \in Nat
    <3> HIDE DEF q
    <3> QED
      BY <1>5, <1>6
  <2>3. Asked(c, nr) = [addr |-> e.addr, write |-> e.write, core |-> c, nr |-> nr, request |-> TRUE]
    BY DEF Asked
  <2> HIDE DEF e
  <2> QED
    BY <1>2, <2>1, <2>2, <2>3 DEF Accesses
<1> QED
  BY <1>4, <1>5, <1>6

\* A core asks for some more of its accesses.
LEMMA RequestOK ==
    ASSUME mem \in MemSetups, NEW s, FlatSound(s, asked), AskedOK(asked), s.requests = requests,
           NEW upto \in Demands
    PROVE  /\ AskedOK(upto)
           /\ FlatSound([s EXCEPT !.requests = [c \in MemCores |-> Request(c, upto[c])]], upto)
<1> DEFINE X == [c \in MemCores |-> Request(c, upto[c])]
           t == [s EXCEPT !.requests = X]
<1>1. s \in Transports /\ FlatOK(Flat(s), asked) /\ requests \in [MemCores -> Seq(Accesses)]
  <2>1. s \in Transports /\ FlatOK(Flat(s), asked)
    BY DEF FlatSound
  <2> QED
    BY <2>1, FieldsOf
<1>2. \A c \in MemCores : /\ upto[c] \in Nat /\ asked[c] \in Nat /\ asked[c] <= upto[c]
                          /\ upto[c] <= Len(mem.program[c + 1])
  <2> TAKE c \in MemCores
  <2>1. asked[c] \in Nat /\ asked[c] <= upto[c] /\ upto[c] <= Len(mem.program[c + 1])
    BY DEF AskedOK, Demands
  <2>2. PICK e \in MemCores : upto[c] \in 0 .. Len(mem.program[e + 1])
    BY DEF Demands
  <2> QED
    BY <2>1, <2>2
<1>3. DOMAIN upto = MemCores /\ upto \in [MemCores -> Nat]
  BY <1>2 DEF Demands
<1>4. AskedOK(upto)
  BY <1>2, <1>3 DEF AskedOK
<1>5. ASSUME NEW c \in MemCores
      PROVE  /\ X[c] \in Seq(Accesses) /\ Len(X[c]) = Len(requests[c]) + (upto[c] - asked[c])
             /\ \A i \in 1 .. Len(requests[c]) : X[c][i] = requests[c][i]
             /\ \A i \in 1 .. upto[c] - asked[c] : X[c][Len(requests[c]) + i] = Asked(c, asked[c] + i)
  <2> DEFINE q == requests[c]
             u == upto[c]
             n == asked[c]
             r == [i \in 1 .. u - n |-> Asked(c, n + i)]
             l == Len(mem.program[c + 1])
  <2>1. X[c] = q \o r
    BY DEF Request, Asked
  <2>2. q \in Seq(Accesses) /\ Len(q) \in Nat /\ u \in Nat /\ n \in Nat /\ n <= u /\ u <= l /\ l \in Nat
    BY <1>1, <1>2, <1>5, LenProperties, ProgramIs
  <2> HIDE DEF q, u, n, l, X
  <2>3. \A i \in 1 .. u - n : Asked(c, n + i) \in Accesses
    <3> TAKE i \in 1 .. u - n
    <3>1. n + i \in 1 .. l
      BY <2>2
    <3> QED
      BY <3>1, ProgramIs DEF l
  <2>4. u - n \in Nat /\ r \in [1 .. u - n -> Accesses]
    BY <2>2, <2>3
  <2>5. r \in Seq(Accesses) /\ Len(r) = u - n /\ \A i \in 1 .. u - n : r[i] = Asked(c, n + i)
    <3> DEFINE k == u - n
    <3>1. \A i \in 1 .. k : r[i] = Asked(c, n + i)
      OBVIOUS
    <3>2. k \in Nat /\ r \in [1 .. k -> Accesses]
      BY <2>4
    <3> HIDE DEF r, k
    <3>3. r \in Seq(Accesses) /\ Len(r) = k
      BY <3>2, IsASeq, LenProperties
    <3> QED
      BY <3>1, <3>3 DEF k
  <2> HIDE DEF r
  <2>6. /\ q \o r \in Seq(Accesses) /\ Len(q \o r) = Len(q) + Len(r)
        /\ \A i \in 1 .. Len(q) + Len(r) : (q \o r)[i] = IF i <= Len(q) THEN q[i] ELSE r[i - Len(q)]
    BY <2>2, <2>5, ConcatProperties
  <2> DEFINE z == q \o r
  <2> HIDE DEF z
  <2>7. \A i \in 1 .. Len(q) : z[i] = q[i]
    <3> TAKE i \in 1 .. Len(q)
    <3>1. i \in 1 .. Len(q) + Len(r) /\ i <= Len(q)
      BY <2>2, <2>5
    <3> QED
      BY <2>6, <3>1 DEF z
  <2>8. \A i \in 1 .. u - n : z[Len(q) + i] = r[i]
    <3> TAKE i \in 1 .. u - n
    <3> DEFINE j == Len(q) + i
    <3>1. j \in 1 .. Len(q) + Len(r) /\ ~(j <= Len(q)) /\ j - Len(q) = i
      BY <2>2, <2>5
    <3> HIDE DEF j
    <3>2. z[j] = r[i]
      BY <2>6, <3>1 DEF z
    <3> QED
      BY <3>2 DEF j
  <2> QED
    BY <2>1, <2>5, <2>6, <2>7, <2>8 DEF q, u, n, z
<1>6. X \in [MemCores -> Seq(Accesses)]
  <2>1. \A c \in MemCores : X[c] \in Seq(Accesses)
    BY <1>5
  <2>2. X = [c \in MemCores |-> X[c]]
    OBVIOUS
  <2> HIDE DEF X
  <2> QED
    BY <2>1, <2>2
<1> HIDE DEF X
<1>7. t \in Transports /\ t.requests = X /\ t.icnt = s.icnt /\ t.dram = s.dram /\ t.answered = s.answered
  BY <1>1, <1>6, FieldsOf DEF Transports
<1> HIDE DEF t
<1> DEFINE Q == Flat(s)
           R == Flat(t)
<1>8. \A k \in Stops : \A x \in Side(k) : Q[<<k, x>>] = Queue(s, k, x) /\ R[<<k, x>>] = Queue(t, k, x)
  BY FlatIs
<1>9. \A p \in Spots : p[1] # 8 => R[p] = Q[p]
  <2> SUFFICES ASSUME NEW p \in Spots, p[1] # 8 PROVE R[p] = Q[p]
    OBVIOUS
  <2> DEFINE k == p[1]
             x == p[2]
  <2>1. k \in Stops /\ x \in Side(k) /\ p = <<k, x>>
    BY SpotIs
  <2>2. Queue(t, k, x) = Queue(s, k, x)
    <3> HIDE DEF k, x
    <3> QED
      BY <1>7 DEF Queue, k
  <2> HIDE DEF Q, R
  <2> QED
    BY <1>8, <2>1, <2>2
<1>10. \A c \in MemCores : Q[<<8, c>>] = requests[c] /\ R[<<8, c>>] = X[c]
  <2> TAKE c \in MemCores
  <2>1. Q[<<8, c>>] = Queue(s, 8, c) /\ R[<<8, c>>] = Queue(t, 8, c)
    BY <1>8, StopsAre
  <2>2. Queue(s, 8, c) = s.requests[c] /\ Queue(t, 8, c) = t.requests[c]
    BY FlatIs
  <2> QED
    BY <1>7, <2>1, <2>2
<1> HIDE DEF Q, R
<1>11. \A c \in MemCores : \A nr \in asked[c] + 1 .. upto[c] : Asked(c, nr) \in Accesses
  <2> TAKE c \in MemCores
  <2> TAKE nr \in asked[c] + 1 .. upto[c]
  <2> DEFINE u == upto[c]
             n == asked[c]
             l == Len(mem.program[c + 1])
  <2>1. u \in Nat /\ n \in Nat /\ u <= l /\ l \in Nat /\ nr \in n + 1 .. u
    BY <1>2, ProgramIs
  <2> HIDE DEF u, n, l
  <2>2. nr \in 1 .. l
    BY <2>1
  <2> QED
    BY <2>2, ProgramIs DEF l
<1>12. FlatOK(R, upto)
  <2>1. FlatOK(Q, asked) /\ asked \in [MemCores -> Nat]
    BY <1>1 DEF Q, AskedOK
  <2>2. \A c \in MemCores : MoreAt(Q[<<8, c>>], R[<<8, c>>], c, asked[c], upto[c])
    <3> TAKE c \in MemCores
    <3> DEFINE x == X[c]
               y == requests[c]
               u == upto[c]
               n == asked[c]
    <3>1. Q[<<8, c>>] = y /\ R[<<8, c>>] = x
      BY <1>10
    <3>2. /\ x \in Seq(Accesses) /\ Len(x) = Len(y) + (u - n)
          /\ \A i \in 1 .. Len(y) : x[i] = y[i]
          /\ \A i \in 1 .. u - n : x[Len(y) + i] = Asked(c, n + i)
      BY <1>5
    <3> HIDE DEF x, y
    <3> QED
      BY <3>1, <3>2 DEF MoreAt
  <2>3. \A c \in MemCores : asked[c] <= upto[c]
    BY <1>2
  <2>4. mem.cores \in Nat /\ mem.channels \in Nat
    BY SetupIs
  <2> DEFINE n == asked
  <2> HIDE DEF n
  <2>5. /\ FlatOK(Q, n) /\ n \in [MemCores -> Nat] /\ \A c \in MemCores : n[c] <= upto[c]
        /\ \A c \in MemCores : \A nr \in n[c] + 1 .. upto[c] : Asked(c, nr) \in Accesses
        /\ \A c \in MemCores : MoreAt(Q[<<8, c>>], R[<<8, c>>], c, n[c], upto[c])
    BY <1>11, <2>1, <2>2, <2>3 DEF n
  <2>6. AsksMore(Q, R, n, upto)
    BY <1>9, <2>5 DEF AsksMore
  <2> QED
    BY <1>3, <2>4, <2>5, <2>6, AskOK
<1> QED
  BY <1>4, <1>7, <1>12 DEF FlatSound, R, t, X

-----------------------------------------------------------------------------
(* The invariant from state to state.                                      *)

\* Nothing of it changes while the machine does not.
LEMMA MemSteady ==
    ASSUME NEW s, NEW n, mem' = mem, FlatSound(s, n)
    PROVE  FlatSound(s, n)'
<1>1. MemCores' = MemCores /\ Channels' = Channels /\ Nodes' = Nodes /\ (\A x : NodeOf(x)' = NodeOf(x))
      /\ InOrderMemory' = InOrderMemory
  BY DEF MemCores, Channels, Nodes, NodeOf, InOrderMemory
<1>2. \A x : get_channel_id(x)' = get_channel_id(x)
  BY DEF get_channel_id
<1>3. \A a : ChannelOf(a)' = ChannelOf(a)
  BY <1>2 DEF ChannelOf
<1>4. \A a : get_dest_node(a)' = get_dest_node(a)
  BY <1>1, <1>2 DEF get_dest_node
<1>5. \A k : Side(k)' = Side(k)
  BY <1>1 DEF Side
<1>6. Spots' = Spots
  BY <1>5 DEF Spots
<1>7. Entries' = Entries
  BY <1>4 DEF Entries
<1>8. Icnts' = Icnts /\ Drams' = Drams
  BY <1>1, <1>7 DEF Icnts, Drams
<1>9. Transports' = Transports
  BY <1>1, <1>8 DEF Transports
<1>10. \A k, x : Queue(s, k, x)' = Queue(s, k, x)
  BY <1>1 DEF Queue
<1>11. Flat(s)' = Flat(s)
  BY <1>6, <1>10 DEF Flat
<1>12. \A a, k, x : Routed(a, k, x)' = Routed(a, k, x)
  BY <1>1, <1>3 DEF Routed
<1>13. \A a : Known(a, n)' = Known(a, n)
  BY <1>1 DEF Known
<1> DEFINE Q == Flat(s)
<1>14. AllRouted(Q, n) => AllRouted(Q, n)'
  <2> SUFFICES ASSUME AllRouted(Q, n) PROVE AllRouted(Q, n)'
    OBVIOUS
  <2> QED
    BY <1>6, <1>11, <1>12, <1>13 DEF AllRouted
<1>15. \A q, c, ch : Keys(q, c, ch)' = Keys(q, c, ch)
  BY <1>3 DEF Keys, KeyOf
<1>16. \A c, ch : Way(Q, c, ch)' = Way(Q, c, ch)
  BY <1>11, <1>15 DEF Way
<1>17. AllOrdered(Q) => AllOrdered(Q)'
  BY <1>1, <1>16 DEF AllOrdered
<1> QED
  BY <1>9, <1>14, <1>17 DEF FlatSound, FlatOK

\* Nor do the turns and the counts of what was asked.
LEMMA CountsSteady ==
    ASSUME NEW n, mem' = mem
    PROVE  (TurnsOK(n) => TurnsOK(n)') /\ (AskedOK(n) => AskedOK(n)')
<1>1. MemCores' = MemCores /\ Nodes' = Nodes
  BY DEF MemCores, Nodes
<1>2. \A x : Turn(n, x)' = Turn(n, x)
  BY <1>1 DEF Turn
<1>3. TurnsOK(n) => TurnsOK(n)'
  BY <1>1, <1>2 DEF TurnsOK
<1>4. AskedOK(n) => AskedOK(n)'
  BY <1>1 DEF AskedOK
<1> QED
  BY <1>3, <1>4

\* At the start every queue is empty.
LEMMA MemStarts == MInit => MemInv
<1> SUFFICES ASSUME MInit PROVE MemInv
  OBVIOUS
<1>1. /\ mem \in MemSetups
      /\ asked = [c \in MemCores |-> 0] /\ answered = [c \in MemCores |-> <<>>]
      /\ requests = [c \in MemCores |-> <<>>]
  BY DEF MInit
<1>2. PICK rr \in Nodes : icnt = [in |-> [n \in Nodes |-> <<>>], out |-> [n \in Nodes |-> <<>>], rr |-> rr,
                                  waited |-> [n \in Nodes |-> 0]]
  BY DEF MInit
<1>3. PICK last \in {0, LastBound} : dram = [waiting |-> [ch \in Channels |-> <<>>],
                                             response |-> [ch \in Channels |-> <<>>], last |-> last]
  BY DEF MInit
<1>4. last \in Nat
  BY DEF LastBound
<1>5. AskedOK(asked)
  <2>1. \A c \in MemCores : Len(mem.program[c + 1]) \in Nat
    BY <1>1, ProgramIs
  <2>2. asked \in [MemCores -> Nat] /\ \A c \in MemCores : asked[c] = 0
    BY <1>1
  <2>3. \A c \in MemCores : asked[c] <= Len(mem.program[c + 1])
    BY <2>1, <2>2
  <2> QED
    BY <2>2, <2>3 DEF AskedOK
<1>6. \A S : <<>> \in Seq(S)
  BY EmptySeq
<1>7. MemNow \in Transports
  <2>1. icnt \in Icnts
    BY <1>2, <1>6 DEF Icnts
  <2>2. dram \in Drams
    BY <1>3, <1>4, <1>6 DEF Drams
  <2>3. requests \in [MemCores -> Seq(Accesses)] /\ answered \in [MemCores -> Seq(Accesses)]
    BY <1>1, <1>6
  <2> QED
    BY <2>1, <2>2, <2>3 DEF Transports, MemNow
<1>8. Carried(<<>>) = <<>>
  <2>1. Len(<<>>) = 0 /\ 1 .. 0 = {}
    BY EmptySeq
  <2> DEFINE q == <<>>
             z == Carried(q)
  <2>2. q \in Seq(Entries) /\ Len(q) = 0
    BY EmptySeq
  <2> HIDE DEF q, z
  <2>3. z \in Seq(Accesses) /\ Len(z) = 0
    BY <2>2, CarryAccess, CarriedIs DEF z
  <2>4. z = <<>>
    BY <2>3, EmptySeq
  <2> QED
    BY <2>4 DEF z, q
<1>9. ASSUME NEW k \in Stops, NEW x \in Side(k) PROVE Queue(MemNow, k, x) = <<>>
  <2> DEFINE s == MemNow
  <2>1. s.requests = requests /\ s.icnt = icnt /\ s.dram = dram /\ s.answered = answered
    BY DEF MemNow
  <2> HIDE DEF s
  <2>2. /\ Queue(s, 1, x) = s.answered[x] /\ Queue(s, 2, x) = s.icnt.out[x]
        /\ Queue(s, 3, x) = Carried(s.icnt.in[NodeOf(x)])
        /\ Queue(s, 4, x) = s.dram.response[x]
        /\ Queue(s, 5, x) = Carried(s.dram.waiting[x])
        /\ Queue(s, 6, x) = s.icnt.out[NodeOf(x)]
        /\ Queue(s, 7, x) = Carried(s.icnt.in[x])
        /\ Queue(s, 8, x) = s.requests[x]
    BY <1>1, FlatIs
  <2>3. CASE k \in {1, 2, 7, 8}
    <3>1. x \in MemCores
      BY <2>3, StopsAre
    <3>2. x \in Nodes
      BY <1>1, <3>1, SetupIs
    <3>3. s.answered[x] = <<>> /\ s.requests[x] = <<>> /\ s.icnt.out[x] = <<>> /\ s.icnt.in[x] = <<>>
      BY <1>1, <1>2, <2>1, <3>1, <3>2
    <3>4. Queue(s, k, x) = <<>>
      BY <1>8, <2>2, <2>3, <3>3
    <3> QED
      BY <3>4 DEF s
  <2>4. CASE k \in {3, 4, 5, 6}
    <3>1. x \in Channels
      BY <2>4, StopsAre
    <3>2. NodeOf(x) \in Nodes
      BY <1>1, <3>1, SetupIs
    <3>3. s.dram.waiting[x] = <<>> /\ s.dram.response[x] = <<>> /\ s.icnt.out[NodeOf(x)] = <<>> /\ s.icnt.in[NodeOf(x)] = <<>>
      BY <1>2, <1>3, <2>1, <3>1, <3>2
    <3>4. Queue(s, k, x) = <<>>
      BY <1>8, <2>2, <2>4, <3>3
    <3> QED
      BY <3>4 DEF s
  <2> QED
    BY <2>3, <2>4 DEF Stops
<1> DEFINE Q == Flat(MemNow)
<1>10. \A k \in Stops : \A x \in Side(k) : Q[<<k, x>>] = <<>>
  BY <1>1, <1>9, FlatIs
<1> HIDE DEF Q
<1>11. AllRouted(Q, asked)
  <2> SUFFICES ASSUME NEW p \in Spots
               PROVE  /\ Q[p] \in Seq(Accesses)
                      /\ \A i \in 1 .. Len(Q[p]) : Routed(Q[p][i], p[1], p[2]) /\ Known(Q[p][i], asked)
    BY DEF AllRouted
  <2>1. Q[p] = <<>>
    <3>1. p[1] \in Stops /\ p[2] \in Side(p[1]) /\ p = <<p[1], p[2]>>
      BY <1>1, SpotIs
    <3> QED
      BY <1>10, <3>1
  <2>2. Len(Q[p]) = 0 /\ 1 .. 0 = {}
    BY <2>1, EmptySeq
  <2> QED
    BY <1>6, <2>1, <2>2
<1>12. AllOrdered(Q)
  <2> SUFFICES ASSUME NEW c \in MemCores, NEW ch \in Channels PROVE Ordered(Way(Q, c, ch), InOrderMemory)
    BY DEF AllOrdered
  <2> DEFINE W == Way(Q, c, ch)
  <2>1. ASSUME NEW k \in Stops PROVE Len(W[k]) = 0
    <3> DEFINE x == End(k, c, ch)
               q == Q[<<k, x>>]
    <3>1. x \in Side(k)
      BY DEF End, Side
    <3>2. q = <<>>
      BY <1>10, <3>1
    <3>3. q \in Seq(Accesses) /\ Len(q) = 0
      BY <3>2, EmptySeq
    <3>4. W[k] = Keys(q, c, ch)
      BY DEF Way
    <3> HIDE DEF x, q, W
    <3>5. Len(Keys(q, c, ch)) = Len(q)
      BY <3>3, KeysAre
    <3> QED
      BY <3>3, <3>4, <3>5
  <2> HIDE DEF W
  <2>2. Ordered(W, InOrderMemory)
    <3>1. \A k \in Stops : 1 .. Len(W[k]) = {}
      BY <2>1
    <3> QED
      BY <3>1 DEF Ordered
  <2> QED
    BY <2>2 DEF W
<1>13. TurnsOK(icnt)
  <2> SUFFICES ASSUME NEW x \in Nodes PROVE icnt.waited[x] + Turn(icnt, x) <= Cardinality(Nodes) - 1
    BY DEF TurnsOK
  <2>1. icnt.waited[x] = 0 /\ icnt.rr \in Nodes
    BY <1>2
  <2>2. Turn(icnt, x) \in 0 .. Cardinality(Nodes) - 1 /\ Cardinality(Nodes) \in Nat
    BY <1>1, <2>1, TurnIs, NodeCount
  <2> QED
    BY <2>1, <2>2
<1> QED
  BY <1>1, <1>5, <1>7, <1>11, <1>12, <1>13 DEF MemInv, FlatSound, FlatOK, Q

\* What the transport has become, once it is known to be sound.
LEMMA MemBecomes ==
    ASSUME NEW r, NEW u, NEW m, mem' = mem, mem \in MemSetups, FlatSound(r, u), TurnsOK(m), AskedOK(u),
           MemNow' = r, asked' = u, icnt' = m
    PROVE  MemInv'
<1>1. FlatSound(r, u)'
  BY MemSteady
<1>2. TurnsOK(m)' /\ AskedOK(u)'
  BY CountsSteady
<1>3. FlatSound(MemNow, asked)'
  BY <1>1
<1>4. TurnsOK(icnt)' /\ AskedOK(asked)'
  BY <1>2
<1>5. (mem \in MemSetups)'
  OBVIOUS
<1> QED
  BY <1>3, <1>4, <1>5 DEF MemInv

\* An iteration of Simulator::cycle keeps the invariant.
LEMMA StepMem == MemInv /\ [MNext]_mvars => MemInv'
<1> SUFFICES ASSUME MemInv, [MNext]_mvars PROVE MemInv'
  OBVIOUS
<1>1. mem \in MemSetups /\ AskedOK(asked) /\ FlatSound(MemNow, asked) /\ TurnsOK(icnt)
  BY DEF MemInv
<1>2. CASE Cycle
  <2>1. mem' = mem
    BY <1>2 DEF Cycle
  <2>2. PICK upto \in Demands :
          /\ asked' = upto
          /\ \E d \in (IF "dram" \in Mask THEN dram_cycle(dram) ELSE {dram}) :
             \E s \in {[requests |-> [c \in MemCores |-> Request(c, upto[c])], icnt |-> icnt, dram |-> d, answered |-> answered]} :
             \E t \in (IF "icnt" \in Mask THEN Ports(s) ELSE {s}) :
                /\ requests' = t.requests /\ dram' = t.dram /\ answered' = t.answered
                /\ icnt' = IF "icnt" \in Mask THEN icnt_cycle(t.icnt) ELSE t.icnt
    BY <1>2 DEF Cycle
  <2>3. PICK d \in (IF "dram" \in Mask THEN dram_cycle(dram) ELSE {dram}) :
             \E s \in {[requests |-> [c \in MemCores |-> Request(c, upto[c])], icnt |-> icnt, dram |-> d, answered |-> answered]} :
             \E t \in (IF "icnt" \in Mask THEN Ports(s) ELSE {s}) :
                /\ requests' = t.requests /\ dram' = t.dram /\ answered' = t.answered
                /\ icnt' = IF "icnt" \in Mask THEN icnt_cycle(t.icnt) ELSE t.icnt
    BY <2>2
  <2> DEFINE X == [c \in MemCores |-> Request(c, upto[c])]
             s == [requests |-> X, icnt |-> icnt, dram |-> d, answered |-> answered]
             s1 == [MemNow EXCEPT !.dram = d]
  <2>4. PICK t \in (IF "icnt" \in Mask THEN Ports(s) ELSE {s}) :
                /\ requests' = t.requests /\ dram' = t.dram /\ answered' = t.answered
                /\ icnt' = IF "icnt" \in Mask THEN icnt_cycle(t.icnt) ELSE t.icnt
    BY <2>3
  <2>5. FlatSound(s1, asked) /\ s1.requests = requests /\ s1.icnt = icnt
    <3>1. CASE "dram" \in Mask
      <4>1. d \in dram_cycle(MemNow.dram)
        BY <3>1 DEF MemNow
      <4>2. FlatSound(s1, asked)
        BY <1>1, <4>1, DramCycleOK
      <4> QED
        BY <4>2 DEF MemNow
    <3>2. CASE "dram" \notin Mask
      <4>1. s1 = MemNow
        BY <3>2 DEF MemNow
      <4>2. MemNow.requests = requests /\ MemNow.icnt = icnt
        BY DEF MemNow
      <4> QED
        BY <1>1, <4>1, <4>2
    <3> QED
      BY <3>1, <3>2
  <2>6. s = [s1 EXCEPT !.requests = X]
    <3> HIDE DEF X
    <3>1. s1 = [requests |-> requests, icnt |-> icnt, dram |-> d, answered |-> answered]
      BY DEF MemNow
    <3> HIDE DEF s1
    <3> QED
      BY <3>1
  <2> HIDE DEF s1
  <2>7. AskedOK(upto) /\ FlatSound(s, upto)
    <3>1. AskedOK(upto) /\ FlatSound([s1 EXCEPT !.requests = X], upto)
      BY <1>1, <2>5, RequestOK
    <3> HIDE DEF s, X
    <3> QED
      BY <2>6, <3>1
  <2>8. s.icnt = icnt
    OBVIOUS
  <2> HIDE DEF s
  <2>9. FlatSound(t, upto) /\ SameTurns(s, t)
    <3>1. CASE "icnt" \in Mask
      <4>1. t \in Ports(s)
        BY <3>1
      <4> QED
        BY <1>1, <2>7, <4>1, PortsOK
    <3>2. CASE "icnt" \notin Mask
      <4>1. t = s
        BY <3>2
      <4>2. SameTurns(s, s)
        BY DEF SameTurns
      <4> QED
        BY <2>7, <4>1, <4>2
    <3> QED
      BY <3>1, <3>2
  <2>10. TurnsOK(t.icnt) /\ t.icnt \in Icnts /\ t \in Transports
    <3>1. t \in Transports /\ t.icnt \in Icnts
      <4>1. t \in Transports
        BY <2>9 DEF FlatSound
      <4> QED
        BY <4>1, FieldsOf
    <3>2. t.icnt.rr = icnt.rr /\ t.icnt.waited = icnt.waited
      BY <2>8, <2>9 DEF SameTurns
    <3>3. \A x : Turn(t.icnt, x) = Turn(icnt, x)
      BY <3>2 DEF Turn
    <3>4. TurnsOK(t.icnt)
      BY <1>1, <3>2, <3>3 DEF TurnsOK
    <3> QED
      BY <3>1, <3>4
  <2> DEFINE m == IF "icnt" \in Mask THEN icnt_cycle(t.icnt) ELSE t.icnt
             r == [t EXCEPT !.icnt = m]
  <2>11. t = [requests |-> t.requests, icnt |-> t.icnt, dram |-> t.dram, answered |-> t.answered]
    BY <2>10, FieldsOf
  <2>12. FlatSound(r, upto) /\ TurnsOK(m)
    <3>1. CASE "icnt" \in Mask
      <4>1. r = [t EXCEPT !.icnt = icnt_cycle(t.icnt)] /\ m = icnt_cycle(t.icnt)
        BY <3>1
      <4> HIDE DEF r, m
      <4> QED
        BY <1>1, <2>9, <2>10, <4>1, IcntCycleOK, TurnsStep
    <3>2. CASE "icnt" \notin Mask
      <4>1. m = t.icnt
        BY <3>2
      <4> HIDE DEF m
      <4>2. r = t
        BY <2>11, <4>1
      <4> HIDE DEF r
      <4> QED
        BY <2>9, <2>10, <4>1, <4>2
    <3> QED
      BY <3>1, <3>2
  <2> HIDE DEF m
  <2>13. r = [requests |-> t.requests, icnt |-> m, dram |-> t.dram, answered |-> t.answered]
    BY <2>11
  <2>14. requests' = t.requests /\ dram' = t.dram /\ answered' = t.answered /\ icnt' = m
    BY <2>4 DEF m
  <2> HIDE DEF r
  <2>15. MemNow' = r
    BY <2>13, <2>14 DEF MemNow
  <2> QED
    BY <1>1, <2>1, <2>2, <2>7, <2>12, <2>14, <2>15, MemBecomes
<1>3. CASE UNCHANGED mvars
  <2>1. mem' = mem /\ asked' = asked /\ requests' = requests /\ icnt' = icnt /\ dram' = dram /\ answered' = answered
    BY <1>3 DEF mvars
  <2>2. MemNow' = MemNow
    BY <2>1 DEF MemNow
  <2> DEFINE s == MemNow
             n == asked
             m == icnt
  <2>3. FlatSound(s, n) /\ AskedOK(n) /\ TurnsOK(m)
    BY <1>1
  <2>4. MemNow' = s /\ asked' = n /\ icnt' = m
    BY <2>1, <2>2
  <2>5. PICK r, u, i : r = s /\ u = n /\ i = m
    OBVIOUS
  <2>6. FlatSound(r, u) /\ AskedOK(u) /\ TurnsOK(i) /\ MemNow' = r /\ asked' = u /\ icnt' = i
    BY <2>3, <2>4, <2>5
  <2> QED
    BY <1>1, <2>1, <2>6, MemBecomes
<1> QED
  BY <1>2, <1>3 DEF MNext

-----------------------------------------------------------------------------
(* What the invariant says of the answers.                                 *)

\* The answers of a core, as the last stop of the way.
LEMMA AnswersAre ==
    ASSUME MemInv, NEW c \in MemCores
    PROVE  /\ answered[c] \in Seq(Accesses) /\ asked[c] \in Nat
           /\ \A i \in 1 .. Len(answered[c]) :
                /\ answered[c][i] \in Accesses /\ Known(answered[c][i], asked)
                /\ answered[c][i].core = c /\ answered[c][i].request = FALSE
                /\ ChannelOf(answered[c][i]) \in Channels
           /\ \A ch \in Channels : Ordered(Way(Flat(MemNow), c, ch), InOrderMemory)
           /\ Flat(MemNow)[<<1, c>>] = answered[c]
<1>1. mem \in MemSetups /\ AskedOK(asked) /\ FlatOK(Flat(MemNow), asked) /\ MemNow \in Transports
  BY DEF MemInv, FlatSound
<1> DEFINE Q == Flat(MemNow)
           q == answered[c]
           n == asked
<1>2. Q[<<1, c>>] = q
  <2>1. Q[<<1, c>>] = Queue(MemNow, 1, c) /\ Queue(MemNow, 1, c) = MemNow.answered[c]
    BY <1>1, FlatIs, StopsAre
  <2> QED
    BY <2>1 DEF MemNow
<1>3. <<1, c>> \in Spots
  BY <1>1, SpotIs, StopsAre
<1>4. q \in Seq(Accesses) /\ \A i \in 1 .. Len(q) : Routed(q[i], 1, c) /\ Known(q[i], n)
  <2> DEFINE p == <<1, c>>
  <2>1. p \in Spots /\ p[1] = 1 /\ p[2] = c /\ Q[p] = q /\ AllRouted(Q, n)
    BY <1>1, <1>2, <1>3 DEF FlatOK
  <2> HIDE DEF p, Q, q, n
  <2> QED
    BY <2>1 DEF AllRouted
<1>5. asked[c] \in Nat
  BY <1>1 DEF AskedOK
<1>6. \A ch \in Channels : Ordered(Way(Q, c, ch), InOrderMemory)
  <2> HIDE DEF Q
  <2> QED
    BY <1>1 DEF FlatOK, AllOrdered, Q
<1>7. ASSUME NEW i \in 1 .. Len(q)
      PROVE  q[i] \in Accesses /\ q[i].core = c /\ q[i].request = FALSE /\ ChannelOf(q[i]) \in Channels
  <2>1. q[i] \in Accesses
    <3> HIDE DEF q
    <3> QED
      BY <1>4, <1>7, ElementOfSeq
  <2>2. Routed(q[i], 1, c)
    BY <1>4, <1>7
  <2> DEFINE a == q[i]
  <2> HIDE DEF a
  <2>3. a.core = c /\ a.request = FALSE /\ ChannelOf(a) \in Channels
    BY <2>2, RouteIs DEF a
  <2> QED
    BY <2>1, <2>3 DEF a
<1> QED
  BY <1>2, <1>4, <1>5, <1>6, <1>7

\* Two answers of a core are different, and in order if they have to be.
LEMMA AnswersApart ==
    ASSUME MemInv, NEW c \in MemCores, NEW i \in 1 .. Len(answered[c]), NEW j \in 1 .. i - 1
    PROVE  /\ answered[c][j].nr # answered[c][i].nr
           /\ (mem.dram = "simple" /\ ChannelOf(answered[c][j]) = ChannelOf(answered[c][i])) =>
                 answered[c][j].nr < answered[c][i].nr
<1> DEFINE q == answered[c]
           a == q[i]
           b == q[j]
           ch == ChannelOf(a)
           Q == Flat(MemNow)
           W == Way(Q, c, ch)
<1>1. /\ q \in Seq(Accesses) /\ Q[<<1, c>>] = q
      /\ \A l \in 1 .. Len(q) :
           /\ q[l] \in Accesses /\ Known(q[l], asked)
           /\ q[l].core = c /\ q[l].request = FALSE
           /\ ChannelOf(q[l]) \in Channels
      /\ \A x \in Channels : Ordered(Way(Q, c, x), InOrderMemory)
  BY AnswersAre
<1>2. Len(q) \in Nat /\ i \in 1 .. Len(q) /\ j \in 1 .. Len(q) /\ j < i
  <2>1. Len(q) \in Nat /\ i \in 1 .. Len(q)
    BY <1>1, LenProperties
  <2> HIDE DEF q
  <2> QED
    BY <2>1
<1>3. /\ a \in Accesses /\ Known(a, asked) /\ a.core = c /\ ChannelOf(a) \in Channels
      /\ b \in Accesses /\ Known(b, asked) /\ b.core = c /\ ChannelOf(b) \in Channels
  <2> HIDE DEF q
  <2> QED
    BY <1>1, <1>2
<1>4. a.nr \in Nat \ {0} /\ b.nr \in Nat \ {0}
  <2>1. asked[c] \in Nat
    BY AnswersAre
  <2> HIDE DEF a, b
  <2>2. a.nr \in 1 .. asked[c] /\ b.nr \in 1 .. asked[c]
    BY <1>3 DEF Known
  <2> QED
    BY <2>1, <2>2
<1>5. W[1] = Keys(q, c, ch)
  <2>1. 1 \in Stops /\ End(1, c, ch) = c
    BY StopsAre DEF End
  <2> HIDE DEF Q, q, ch
  <2>2. W[1] = Keys(Q[<<1, End(1, c, ch)>>], c, ch)
    BY <2>1 DEF Way
  <2> QED
    BY <1>1, <2>1, <2>2
<1>6. Ordered(W, InOrderMemory)
  <2> HIDE DEF Q, ch
  <2> QED
    BY <1>1, <1>3 DEF ch
<1>7. ASSUME ChannelOf(b) = ChannelOf(a)
      PROVE  b.nr # a.nr /\ (mem.dram = "simple" => b.nr < a.nr)
  <2> HIDE DEF q, W
  <2>1. /\ Len(W[1]) = Len(q)
        /\ W[1][i] = KeyOf(q[i], c, ch) /\ W[1][j] = KeyOf(q[j], c, ch)
    <3> DEFINE x == ch
    <3> HIDE DEF x
    <3>1. Len(Keys(q, c, x)) = Len(q) /\ \A l \in 1 .. Len(q) : Keys(q, c, x)[l] = KeyOf(q[l], c, x)
      BY <1>1, KeysAre
    <3> QED
      BY <1>2, <1>5, <3>1 DEF x
  <2>2. KeyOf(a, c, ch) = a.nr /\ KeyOf(b, c, ch) = b.nr
    <3> HIDE DEF a, b
    <3> QED
      BY <1>3, <1>7 DEF KeyOf, ch
  <2>3. W[1][i] = a.nr /\ W[1][j] = b.nr /\ a.nr # 0 /\ b.nr # 0
    BY <1>4, <2>1, <2>2
  <2>4. 1 \in Stops /\ Before(1, j, 1, i) /\ i \in 1 .. Len(W[1]) /\ j \in 1 .. Len(W[1])
    BY <1>2, <2>1, StopsAre DEF Before
  <2> HIDE DEF a, b
  <2>5. W[1][j] # W[1][i] /\ (InOrderMemory => W[1][j] < W[1][i])
    BY <1>6, <2>3, <2>4 DEF Ordered
  <2> QED
    BY <2>3, <2>5 DEF InOrderMemory
<1>8. ASSUME ChannelOf(b) # ChannelOf(a) PROVE b.nr # a.nr
  <2> HIDE DEF a, b
  <2>1. a.addr = mem.program[c + 1][a.nr].addr /\ b.addr = mem.program[c + 1][b.nr].addr
    BY <1>3 DEF Known
  <2>2. b.addr # a.addr
    BY <1>8 DEF ChannelOf
  <2> QED
    BY <2>1, <2>2
<1> QED
  BY <1>7, <1>8

\* No head is kept waiting for more than one round.
LEMMA NoneKeptWaiting == MemInv => HeadWaits
<1> SUFFICES ASSUME MemInv, NEW x \in Nodes PROVE icnt.waited[x] < Cardinality(Nodes)
  BY DEF HeadWaits
<1>1. mem \in MemSetups /\ TurnsOK(icnt) /\ MemNow \in Transports
  BY DEF MemInv, FlatSound
<1>2. icnt \in Icnts
  <2>1. MemNow.icnt = icnt
    BY DEF MemNow
  <2>2. MemNow.icnt \in Icnts
    BY <1>1, FieldsOf
  <2> QED
    BY <2>1, <2>2
<1>3. icnt.rr \in Nodes /\ icnt.waited[x] \in Nat
  BY <1>2 DEF Icnts
<1>4. Turn(icnt, x) \in 0 .. Cardinality(Nodes) - 1 /\ Cardinality(Nodes) \in Nat
  BY <1>1, <1>3, TurnIs, NodeCount
<1>5. icnt.waited[x] + Turn(icnt, x) <= Cardinality(Nodes) - 1
  BY <1>1 DEF TurnsOK
<1> DEFINE w == icnt.waited[x]
           k == Cardinality(Nodes)
           u == Turn(icnt, x)
<1> HIDE DEF w, k, u
<1>6. w \in Nat /\ k \in Nat /\ u \in 0 .. k - 1 /\ w + u <= k - 1
  BY <1>3, <1>4, <1>5 DEF w, k, u
<1>7. w < k
  BY <1>6
<1> QED
  BY <1>7 DEF w, k

\* The invariant says of the answers what the run checks.
LEMMA InvAnswers == MemInv => AnsweredInOrder
<1> SUFFICES ASSUME MemInv PROVE AnsweredInOrder
  OBVIOUS
<1>1. ASSUME NEW c \in MemCores, NEW i \in DOMAIN answered[c]
      PROVE  LET a == answered[c][i]
             IN /\ a.core = c /\ ~a.request /\ a.nr <= asked[c]
                /\ \A j \in 1 .. i - 1 :
                     /\ answered[c][j].nr # a.nr
                     /\ (mem.dram = "simple" /\ get_channel_id(answered[c][j].addr) = get_channel_id(a.addr)) =>
                           answered[c][j].nr < a.nr
  <2> DEFINE q == answered[c]
             a == q[i]
  <2>1. DOMAIN q = 1 .. Len(q)
    BY AnswersAre, LenProperties
  <2>2. i \in 1 .. Len(q)
    BY <2>1
  <2>3. a.core = c /\ a.request = FALSE /\ Known(a, asked) /\ asked[c] \in Nat
    <3>1. asked[c] \in Nat
      BY AnswersAre
    <3>2. \A l \in 1 .. Len(q) :
             /\ q[l] \in Accesses /\ Known(q[l], asked)
             /\ q[l].core = c /\ q[l].request = FALSE
             /\ ChannelOf(q[l]) \in Channels
      BY AnswersAre
    <3> HIDE DEF q
    <3> QED
      BY <2>2, <3>1, <3>2
  <2>4. a.nr <= asked[c]
    <3> HIDE DEF a
    <3>1. a.nr \in 1 .. asked[c]
      BY <2>3 DEF Known
    <3> QED
      BY <2>3, <3>1
  <2>5. \A j \in 1 .. i - 1 :
             /\ q[j].nr # a.nr
             /\ (mem.dram = "simple" /\ ChannelOf(q[j]) = ChannelOf(a)) => q[j].nr < a.nr
    BY <2>2, AnswersApart
  <2> HIDE DEF q
  <2> QED
    BY <2>3, <2>4, <2>5 DEF ChannelOf, q
<1> QED
  BY <1>1, NoneKeptWaiting DEF AnsweredInOrder

\* Every access is where it belongs, in the order its core asked, and every
\* waiting head has its turn ahead, at every iteration of Simulator::cycle.
THEOREM MemStays == MSpec => []MemInv
<1>1. MInit => MemInv
  BY MemStarts
<1>2. MemInv /\ [MNext]_mvars => MemInv'
  BY StepMem
<1> QED
  BY <1>1, <1>2, PTL DEF MSpec

\* For every machine and program, answers come once, to the core that asked
\* (Interconnect.cc, Dram.cc), with the simple memory in the order of each
\* channel's requests, and no ready head loses more turns than there are other
\* nodes, wherever _rr_start began.
THEOREM AnswersStayInOrder == MSpec => []AnsweredInOrder
<1>1. MemInv => AnsweredInOrder
  BY InvAnswers
<1> QED
  BY <1>1, MemStays, PTL
=============================================================================
