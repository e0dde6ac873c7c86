-------------------------- MODULE PIMChannelProofs --------------------------
(***************************************************************************)
(* Theorems about one PIM channel (PIMChannel), for every number of         *)
(* requests, depth of the queues and delay: no access is lost or           *)
(* duplicated on its way, and the hold queue is in the order of its         *)
(* deadlines.                                                              *)
(*                                                                         *)
(* The invariant says of the eight places an access can be in (seven        *)
(* queues and DRAM) that none repeats an access, that no two share one, and *)
(* that together they hold exactly the accesses in flight.  Every step of a *)
(* cycle takes a set of accesses out of one place and puts it in another    *)
(* (MoveKeeps), so that each needs only facts about the two queues it       *)
(* touches.                                                                *)
(***************************************************************************)
EXTENDS PIMChannel, DataFacts

Places == {"inq", "ooo", "held", "aau", "ssrc", "dram", "done", "resp"}

\* The accesses of a queue of parked accesses, without their deadlines.
Accs(q) == [i \in DOMAIN q |-> q[i].acc]

ParkedAccesses == [left : Nat, acc : Accesses]

\* The queues of parked accesses that repeat no access.
Lots == {q \in Seq(ParkedAccesses) : Accs(q) \in Distinct(Accesses)}

Channels ==
    [inq : Distinct(Accesses), ooo : Distinct(Accesses),
     held : Lots, aau : Lots, ssrc : Lots, dram : SUBSET Accesses,
     done : Distinct(Accesses), resp : Distinct(Accesses)]

\* What each place of channel c holds.
Holds(c) ==
    [p \in Places |->
       CASE p = "inq" -> ToSet(c.inq) [] p = "ooo" -> ToSet(c.ooo)
         [] p = "held" -> ParkedIn(c.held) [] p = "aau" -> ParkedIn(c.aau)
         [] p = "ssrc" -> ParkedIn(c.ssrc) [] p = "dram" -> c.dram
         [] p = "done" -> ToSet(c.done) [] p = "resp" -> ToSet(c.resp)]

\* No two places share an access, and together they hold the accesses F.
Partitions(H, F) ==
    /\ \A p, q \in Places : p # q => H[p] \cap H[q] = {}
    /\ \A a : a \in F <=> \E p \in Places : a \in H[p]

\* A queue in the order of its deadlines, none later than n.
Ordered(q, n) ==
    \A i \in DOMAIN q :
        /\ q[i].left <= n
        /\ \A j \in 1 .. i : q[j].left <= q[i].left

\* The invariant of a channel.  The command window has no more accesses than
\* entries: Fill would otherwise count back from the end of its room.
ChannelOK(c, F, n) ==
    /\ c \in Channels /\ Partitions(Holds(c), F)
    /\ Len(c.ooo) <= Entries /\ Ordered(c.held, n)

Stages == {"start", "DRAFT", "drafted", "VERIFY"}

\* The inductive invariant: the state of the channel, and the types of the
\* rest.
PIMInv ==
    /\ ChannelOK(ch, flight, hold) /\ IsFiniteSet(flight)
    /\ hold \in 0 .. SwitchCycles /\ mode \in {DLM, TLM}
    /\ lastMode \in [Issuers -> {DLM, TLM}]
    /\ task \in [Issuers -> [stage : Stages, sent : 0 .. PerTask]]
    /\ deferred \subseteq Issuers

-----------------------------------------------------------------------------
(* Queues of parked accesses.                                              *)

\* What the elements of such a queue are.
LEMMA LotElements ==
    ASSUME NEW q \in Lots
    PROVE  /\ q \in Seq(ParkedAccesses) /\ Len(q) \in Nat
           /\ DOMAIN q = 1 .. Len(q)
           /\ \A i \in 1 .. Len(q) : q[i].left \in Nat /\ q[i].acc \in Accesses
           /\ Accs(q) \in Distinct(Accesses)
           /\ ToSet(Accs(q)) = ParkedIn(q)
           /\ Accs(q) \in Seq(Accesses) /\ Len(Accs(q)) = Len(q)
           /\ \A i \in 1 .. Len(q) : Accs(q)[i] = q[i].acc
<1>1. q \in Seq(ParkedAccesses) /\ Accs(q) \in Distinct(Accesses)
  BY DEF Lots
<1>2. /\ Len(q) \in Nat /\ DOMAIN q = 1 .. Len(q)
      /\ \A i \in 1 .. Len(q) : q[i] \in ParkedAccesses
  BY <1>1, LenProperties, ElementOfSeq
<1>3. Accs(q) \in Seq(Accesses) /\ DOMAIN Accs(q) = 1 .. Len(Accs(q))
      /\ Len(Accs(q)) \in Nat
  BY <1>1, LenProperties DEF Distinct
<1>4. /\ DOMAIN Accs(q) = 1 .. Len(q)
      /\ \A i \in 1 .. Len(q) : Accs(q)[i] = q[i].acc
  BY <1>2, SMTT(30) DEF Accs
<1>5. Len(Accs(q)) = Len(q)
  <2>1. \A m, n \in Nat : 1 .. m = 1 .. n => m = n
    <3> SUFFICES ASSUME NEW m \in Nat, NEW n \in Nat, 1 .. m = 1 .. n, m < n
                 PROVE  FALSE
      OBVIOUS
    <3>1. n \in 1 .. n /\ n \notin 1 .. m
      OBVIOUS
    <3> QED
      BY <3>1
  <2>2. 1 .. Len(Accs(q)) = 1 .. Len(q)
    BY <1>3, <1>4
  <2> QED
    BY <1>2, <1>3, <2>1, <2>2
<1>6. ToSet(Accs(q)) = ParkedIn(q)
  BY <1>2, <1>4 DEF ToSet, ParkedIn
<1> QED
  BY <1>1, <1>2, <1>3, <1>4, <1>5, <1>6 DEF ParkedAccesses

\* Parking an access.
LEMMA LotAppend ==
    ASSUME NEW q \in Lots, NEW a \in Accesses, NEW n \in Nat, a \notin ParkedIn(q)
    PROVE  /\ Append(q, Parked(a, n)) \in Lots
           /\ ParkedIn(Append(q, Parked(a, n))) = ParkedIn(q) \cup {a}
<1> DEFINE x == Parked(a, n)
           t == Append(q, x)
<1>1. x \in ParkedAccesses /\ x.acc = a
  BY DEF Parked, ParkedAccesses
<1>2. /\ t \in Seq(ParkedAccesses) /\ Len(t) = Len(q) + 1
      /\ \A i \in 1 .. Len(q) : t[i] = q[i]
      /\ t[Len(q) + 1] = x
      /\ DOMAIN t = 1 .. (Len(q) + 1)
  BY <1>1, LotElements, AppendProperties, LenProperties
<1>3. /\ Append(Accs(q), a) \in Distinct(Accesses)
      /\ ToSet(Append(Accs(q), a)) = ParkedIn(q) \cup {a}
  BY LotElements, DistinctAppend
<1>4. /\ Append(Accs(q), a) \in Seq(Accesses)
      /\ DOMAIN Append(Accs(q), a) = 1 .. (Len(q) + 1)
      /\ Append(Accs(q), a) \in [1 .. (Len(q) + 1) -> Accesses]
      /\ \A i \in 1 .. Len(q) : Append(Accs(q), a)[i] = q[i].acc
      /\ Append(Accs(q), a)[Len(q) + 1] = a
  <2> HIDE DEF x, t
  <2>1. /\ Accs(q) \in Seq(Accesses) /\ Len(Accs(q)) = Len(q) /\ Len(q) \in Nat
        /\ \A i \in 1 .. Len(q) : Accs(q)[i] = q[i].acc
    BY LotElements
  <2> DEFINE s == Accs(q)
  <2> HIDE DEF s
  <2>2. /\ Append(s, a) \in Seq(Accesses) /\ Len(Append(s, a)) = Len(s) + 1
        /\ \A i \in 1 .. Len(s) : Append(s, a)[i] = s[i]
        /\ Append(s, a)[Len(s) + 1] = a
    BY <2>1, AppendProperties DEF s
  <2>3. /\ DOMAIN Append(s, a) = 1 .. (Len(s) + 1)
        /\ Append(s, a) \in [1 .. (Len(s) + 1) -> Accesses]
    BY <2>2, LenProperties
  <2> QED
    BY <2>1, <2>2, <2>3 DEF s
<1> HIDE DEF x, t
<1>5. Accs(t) = Append(Accs(q), a)
  <2>1. \A i \in 1 .. (Len(q) + 1) : t[i].acc = Append(Accs(q), a)[i]
    BY <1>1, <1>2, <1>4, LotElements
  <2>2. Accs(t) = [i \in 1 .. (Len(q) + 1) |-> t[i].acc]
    BY <1>2 DEF Accs
  <2>3. Append(Accs(q), a) = [i \in 1 .. (Len(q) + 1) |-> Append(Accs(q), a)[i]]
    BY <1>4
  <2> QED
    BY <2>1, <2>2, <2>3
<1>6. t \in Lots
  BY <1>2, <1>3, <1>5 DEF Lots
<1> QED
  BY <1>3, <1>5, <1>6, LotElements DEF t, x

\* Taking the first access.
LEMMA LotTail ==
    ASSUME NEW q \in Lots, q # <<>>
    PROVE  /\ Tail(q) \in Lots
           /\ Head(q).acc \in ParkedIn(q) /\ Head(q).left \in Nat
           /\ ParkedIn(Tail(q)) = ParkedIn(q) \ {Head(q).acc}
<1> DEFINE t == Tail(q)
           s == Accs(q)
<1>1. /\ t \in Seq(ParkedAccesses) /\ Len(t) = Len(q) - 1 /\ Len(q) \in Nat \ {0}
      /\ \A i \in 1 .. Len(t) : t[i] = q[i + 1]
      /\ DOMAIN t = 1 .. Len(t)
  BY LotElements, HeadTailProperties, LenProperties, EmptySeq
<1>2. s # <<>> /\ s \in Distinct(Accesses) /\ Len(s) = Len(q)
      /\ \A i \in 1 .. Len(q) : s[i] = q[i].acc
  BY <1>1, LotElements, EmptySeq
<1>3. Head(q) = q[1] /\ Head(s) = s[1]
  BY <1>2, LotElements, MembersOf DEF Distinct
<1>4. Tail(s) \in Distinct(Accesses) /\ ToSet(Tail(s)) = ToSet(s) \ {Head(s)}
  BY <1>2, DistinctTail
<1>5. /\ Tail(s) \in [1 .. Len(q) - 1 -> Accesses]
      /\ \A i \in 1 .. Len(q) - 1 : Tail(s)[i] = s[i + 1]
  BY <1>1, <1>2, HeadTailProperties, LenProperties, ZenonT(30) DEF Distinct
<1> HIDE DEF s, t
<1>6. Accs(t) = Tail(s)
  <2>1. \A i \in 1 .. Len(q) - 1 : t[i].acc = Tail(s)[i]
    BY <1>1, <1>2, <1>5, SMTT(30)
  <2>2. Accs(t) = [i \in 1 .. Len(q) - 1 |-> t[i].acc]
    BY <1>1 DEF Accs
  <2> QED
    BY <1>5, <2>1, <2>2
<1>7. t \in Lots
  BY <1>1, <1>4, <1>6 DEF Lots
<1>8. Head(q).acc = Head(s) /\ Head(q).acc \in ToSet(s) /\ Head(q).left \in Nat
  BY <1>1, <1>2, <1>3, LotElements, MembersOf DEF s
<1> QED
  BY <1>4, <1>6, <1>7, <1>8, LotElements DEF s, t

Aged(q) == [i \in DOMAIN q |-> Parked(q[i].acc, TickDown(q[i].left))]

\* Letting a cycle pass.
LEMMA LotAged ==
    ASSUME NEW q \in Lots
    PROVE  Aged(q) \in Lots /\ ParkedIn(Aged(q)) = ParkedIn(q)
<1>1. \A i \in 1 .. Len(q) : Parked(q[i].acc, TickDown(q[i].left)) \in ParkedAccesses
  BY LotElements DEF Parked, ParkedAccesses, TickDown
<1>2. /\ DOMAIN Aged(q) = 1 .. Len(q)
      /\ Aged(q) \in [1 .. Len(q) -> ParkedAccesses]
      /\ \A i \in 1 .. Len(q) : Aged(q)[i].acc = q[i].acc
  BY <1>1, LotElements DEF Aged, Parked
<1>3. Aged(q) \in Seq(ParkedAccesses)
  BY <1>2, LotElements
<1>4. Accs(Aged(q)) = Accs(q)
  BY <1>2, LotElements DEF Accs
<1>5. Aged(q) \in Lots
  BY <1>3, <1>4, LotElements DEF Lots
<1> QED
  BY <1>4, <1>5, LotElements

-----------------------------------------------------------------------------
(* Deadlines.                                                              *)

LEMMA OrderedTail ==
    ASSUME NEW q \in Lots, q # <<>>, NEW n \in Nat, Ordered(q, n)
    PROVE  Ordered(Tail(q), n)
<1>1. /\ Len(Tail(q)) = Len(q) - 1 /\ Len(q) \in Nat /\ DOMAIN q = 1 .. Len(q)
      /\ \A i \in 1 .. Len(Tail(q)) : Tail(q)[i] = q[i + 1]
      /\ DOMAIN Tail(q) = 1 .. Len(Tail(q))
  BY LotElements, HeadTailProperties, LenProperties
<1>2. ASSUME NEW i \in 1 .. Len(Tail(q))
      PROVE  /\ Tail(q)[i].left <= n
             /\ \A j \in 1 .. i : Tail(q)[j].left <= Tail(q)[i].left
  <2>1. i + 1 \in 1 .. Len(q) /\ Tail(q)[i] = q[i + 1]
    BY <1>1
  <2>2. \A j \in 1 .. i : j + 1 \in 1 .. i + 1 /\ Tail(q)[j] = q[j + 1]
    BY <1>1
  <2> QED
    BY <1>1, <2>1, <2>2 DEF Ordered
<1> QED
  BY <1>1, <1>2 DEF Ordered

LEMMA OrderedAppend ==
    ASSUME NEW q \in Lots, NEW a \in Accesses, NEW n \in Nat, Ordered(q, n)
    PROVE  Ordered(Append(q, Parked(a, n)), n)
<1> DEFINE t == Append(q, Parked(a, n))
<1>1. Parked(a, n) \in ParkedAccesses /\ Parked(a, n).left = n
  BY DEF Parked, ParkedAccesses
<1>2. /\ Len(q) \in Nat /\ DOMAIN t = 1 .. (Len(q) + 1) /\ DOMAIN q = 1 .. Len(q)
      /\ \A i \in 1 .. Len(q) : t[i] = q[i]
      /\ t[Len(q) + 1] = Parked(a, n)
  BY <1>1, LotElements, AppendProperties, LenProperties
<1> HIDE DEF t
<1>3. \A i \in 1 .. Len(q) + 1 : t[i].left <= n
  BY <1>1, <1>2 DEF Ordered
<1>4. ASSUME NEW i \in 1 .. Len(q) + 1, NEW j \in 1 .. i
      PROVE  t[j].left <= t[i].left
  <2>1. CASE i = Len(q) + 1
    BY <1>1, <1>2, <1>3, <2>1
  <2>2. CASE i \in 1 .. Len(q)
    BY <1>2, <2>2 DEF Ordered
  <2> QED
    BY <1>2, <2>1, <2>2
<1> QED
  BY <1>2, <1>3, <1>4 DEF Ordered, t

LEMMA OrderedAged ==
    ASSUME NEW q \in Lots, NEW n \in Nat, Ordered(q, n)
    PROVE  Ordered(Aged(q), TickDown(n))
<1>1. /\ Len(q) \in Nat /\ DOMAIN q = 1 .. Len(q) /\ DOMAIN Aged(q) = 1 .. Len(q)
      /\ \A i \in 1 .. Len(q) :
           q[i].left \in Nat /\ Aged(q)[i].left = TickDown(q[i].left)
  BY LotElements DEF Aged, Parked
<1>2. \A x, y \in Nat : x <= y => TickDown(x) <= TickDown(y)
  BY DEF TickDown
<1>3. ASSUME NEW i \in 1 .. Len(q)
      PROVE  /\ Aged(q)[i].left <= TickDown(n)
             /\ \A j \in 1 .. i : Aged(q)[j].left <= Aged(q)[i].left
  <2>1. q[i].left <= n /\ \A j \in 1 .. i : q[j].left <= q[i].left
    BY <1>1 DEF Ordered
  <2>2. \A j \in 1 .. i : j \in 1 .. Len(q)
    BY <1>1
  <2> QED
    BY <1>1, <1>2, <2>1, <2>2
<1> QED
  BY <1>1, <1>3 DEF Ordered

\* A longer hold.
LEMMA OrderedLonger ==
    ASSUME NEW q \in Lots, NEW m \in Nat, NEW n \in Nat, m <= n, Ordered(q, m)
    PROVE  Ordered(q, n)
BY LotElements DEF Ordered

-----------------------------------------------------------------------------
(* The steps of a cycle.                                                   *)

\* From H to G the accesses D go from place p to place q.
Moved(H, G, p, q, D) ==
    /\ p \in Places /\ q \in Places /\ p # q /\ D \subseteq H[p]
    /\ G[p] = H[p] \ D /\ G[q] = H[q] \cup D
    /\ \A k \in Places : k # p /\ k # q => G[k] = H[k]

\* Taking the accesses D from place p to place q keeps every access in one
\* place.
LEMMA MoveKeeps ==
    ASSUME NEW H, NEW G, NEW F, NEW p, NEW q, NEW D,
           Moved(H, G, p, q, D), Partitions(H, F)
    PROVE  Partitions(G, F)
<1> USE DEF Moved
<1>1. ASSUME NEW a, NEW k \in Places, a \in G[k]
      PROVE  \/ a \in D /\ k = q
             \/ a \notin D /\ a \in H[k]
  BY <1>1 DEF Partitions
<1>2. ASSUME NEW j \in Places, NEW k \in Places, j # k
      PROVE  G[j] \cap G[k] = {}
  <2> SUFFICES ASSUME NEW a, a \in G[j], a \in G[k] PROVE FALSE
    OBVIOUS
  <2>1. a \in H[j] /\ a \in H[k]
    BY <1>1, <1>2
  <2> QED
    BY <1>2, <2>1 DEF Partitions
<1>3. ASSUME NEW a PROVE (\E k \in Places : a \in H[k]) <=> \E k \in Places : a \in G[k]
  <2>1. ASSUME NEW k \in Places, a \in H[k] PROVE \E j \in Places : a \in G[j]
    BY <2>1
  <2>2. ASSUME NEW k \in Places, a \in G[k] PROVE \E j \in Places : a \in H[j]
    BY <1>1, <2>2
  <2> QED
    BY <2>1, <2>2
<1> QED
  BY <1>2, <1>3 DEF Partitions

\* What the places of a channel hold, place by place.
LEMMA HoldsAt ==
    ASSUME NEW c
    PROVE  /\ Holds(c)["inq"] = ToSet(c.inq) /\ Holds(c)["ooo"] = ToSet(c.ooo)
           /\ Holds(c)["held"] = ParkedIn(c.held) /\ Holds(c)["aau"] = ParkedIn(c.aau)
           /\ Holds(c)["ssrc"] = ParkedIn(c.ssrc) /\ Holds(c)["dram"] = c.dram
           /\ Holds(c)["done"] = ToSet(c.done) /\ Holds(c)["resp"] = ToSet(c.resp)
           /\ Places = {"inq", "ooo", "held", "aau", "ssrc", "dram", "done", "resp"}
BY DEF Holds, Places

\* The fields of a channel.
LEMMA ChannelFields ==
    ASSUME NEW c \in Channels
    PROVE  /\ c.inq \in Distinct(Accesses) /\ c.ooo \in Distinct(Accesses)
           /\ c.held \in Lots /\ c.aau \in Lots /\ c.ssrc \in Lots
           /\ c.dram \subseteq Accesses
           /\ c.done \in Distinct(Accesses) /\ c.resp \in Distinct(Accesses)
BY DEF Channels

\* HoldDrain takes the head of the hold queue to DRAM.
LEMMA HoldDrainOK ==
    ASSUME NEW c, NEW F, NEW n \in Nat, ChannelOK(c, F, n)
    PROVE  ChannelOK(HoldDrain(c), F, n)
<1> DEFINE d == HoldDrain(c)
<1>0. c \in Channels /\ Partitions(Holds(c), F) /\ Ordered(c.held, n)
      /\ Len(c.ooo) <= Entries
  BY DEF ChannelOK
<1>1. CASE d = c
  BY <1>0, <1>1 DEF ChannelOK
<1>2. CASE d # c
  <2> DEFINE a == Head(c.held).acc
  <2>1. c.held # <<>> /\ d = [c EXCEPT !.dram = @ \cup {a}, !.held = Tail(@)]
    BY <1>2 DEF HoldDrain
  <2>2. /\ Tail(c.held) \in Lots /\ a \in ParkedIn(c.held)
        /\ ParkedIn(Tail(c.held)) = ParkedIn(c.held) \ {a}
        /\ ParkedIn(c.held) \subseteq Accesses
    BY <1>0, <2>1, ChannelFields, LotTail, LotElements, MembersOf DEF Distinct
  <2> HIDE DEF d, a
  <2>3. d \in Channels /\ d.held = Tail(c.held) /\ d.dram = c.dram \cup {a}
        /\ d.inq = c.inq /\ d.ooo = c.ooo /\ d.aau = c.aau /\ d.ssrc = c.ssrc
        /\ d.done = c.done /\ d.resp = c.resp
    BY <1>0, <2>1, <2>2 DEF Channels
  <2>4. Partitions(Holds(d), F)
    <3>1. Moved(Holds(c), Holds(d), "held", "dram", {a})
      BY <2>2, <2>3, HoldsAt DEF Moved
    <3> QED
      BY <1>0, <3>1, MoveKeeps
  <2>5. Ordered(d.held, n)
    BY <1>0, <2>1, <2>3, ChannelFields, OrderedTail
  <2> QED
    BY <1>0, <2>3, <2>4, <2>5 DEF ChannelOK, d
<1> QED
  BY <1>1, <1>2

\* Fill takes the first accesses of the interconnect's buffer to the command
\* window.
LEMMA FillOK ==
    ASSUME NEW c, NEW F, NEW n \in Nat, ChannelOK(c, F, n)
    PROVE  ChannelOK(Fill(c), F, n)
<1> DEFINE d == Fill(c)
           room == Entries - Len(c.ooo)
           m == IF Len(c.inq) < room THEN Len(c.inq) ELSE room
           a == SubSeq(c.inq, 1, m)
           b == SubSeq(c.inq, m + 1, Len(c.inq))
<1>1. c \in Channels /\ Partitions(Holds(c), F) /\ Ordered(c.held, n)
      /\ Len(c.ooo) <= Entries
  BY DEF ChannelOK
<1>2. c.inq \in Distinct(Accesses) /\ c.ooo \in Distinct(Accesses)
      /\ Len(c.inq) \in Nat /\ Len(c.ooo) \in Nat
      /\ DOMAIN c.inq = 1 .. Len(c.inq)
      /\ \A i, j \in 1 .. Len(c.inq) : c.inq[i] = c.inq[j] => i = j
  BY <1>1, ChannelFields, LenProperties DEF Distinct, IsInjective
<1>3. m \in Nat /\ m <= Len(c.inq) /\ Len(c.ooo) + m <= Entries
  BY <1>1, <1>2, PIMChannelAssumption, SMTT(30)
<1>4. d = [c EXCEPT !.ooo = @ \o a, !.inq = b]
  BY <1>1 DEF Fill, Channels
<1> HIDE DEF m, room
<1>5. a \in Distinct(Accesses) /\ ToSet(a) = {c.inq[i] : i \in 1 .. m}
  BY <1>2, <1>3, DistinctPart
<1>6. b \in Distinct(Accesses) /\ ToSet(b) = {c.inq[i] : i \in m + 1 .. Len(c.inq)}
  BY <1>2, <1>3, DistinctPart, SMTT(30)
<1>7. Len(a) = m
  BY <1>2, <1>3, SubSeqProperties, ElementOfSeq DEF Distinct
<1> HIDE DEF a, b
<1>8. ToSet(c.inq) = {c.inq[i] : i \in 1 .. Len(c.inq)}
  BY <1>2 DEF ToSet
<1>9. ToSet(a) \subseteq ToSet(c.inq) /\ ToSet(b) = ToSet(c.inq) \ ToSet(a)
  <2>1. 1 .. Len(c.inq) = (1 .. m) \cup (m + 1 .. Len(c.inq))
    BY <1>2, <1>3
  <2>2. \A i \in 1 .. m, j \in m + 1 .. Len(c.inq) : c.inq[i] # c.inq[j]
    BY <1>2, <1>3
  <2> QED
    BY <1>5, <1>6, <1>8, <2>1, <2>2
<1>10. ToSet(a) \cap ToSet(c.ooo) = {}
  <2>1. Holds(c)["inq"] \cap Holds(c)["ooo"] = {}
    BY <1>1 DEF Partitions, Places
  <2>2. Holds(c)["inq"] = ToSet(c.inq) /\ Holds(c)["ooo"] = ToSet(c.ooo)
    BY HoldsAt
  <2> QED
    BY <1>9, <2>1, <2>2
<1>11. c.ooo \o a \in Distinct(Accesses) /\ ToSet(c.ooo \o a) = ToSet(c.ooo) \cup ToSet(a)
  BY <1>2, <1>5, <1>10, DistinctConcat
<1>12. Len(c.ooo \o a) <= Entries
  <2>1. c.ooo \in Seq(Accesses) /\ a \in Seq(Accesses)
    BY <1>2, <1>5 DEF Distinct
  <2>2. Len(c.ooo \o a) = Len(c.ooo) + Len(a)
    BY <2>1, ConcatProperties
  <2> QED
    BY <1>2, <1>3, <1>7, <2>2
<1> HIDE DEF d
<1>13. d \in Channels /\ d.held = c.held /\ d.dram = c.dram
       /\ d.inq = b /\ d.ooo = c.ooo \o a /\ d.aau = c.aau /\ d.ssrc = c.ssrc
       /\ d.done = c.done /\ d.resp = c.resp
  BY <1>1, <1>4, <1>6, <1>11 DEF Channels
<1>14. Partitions(Holds(d), F)
  <2> DEFINE A == ToSet(a)
  <2>1. /\ A \subseteq Holds(c)["inq"]
        /\ Holds(d)["inq"] = Holds(c)["inq"] \ A
        /\ Holds(d)["ooo"] = Holds(c)["ooo"] \cup A
    BY <1>9, <1>11, <1>13, HoldsAt, ZenonT(30)
  <2>2. \A k \in Places : k # "inq" /\ k # "ooo" => Holds(d)[k] = Holds(c)[k]
    BY <1>13, HoldsAt
  <2> HIDE DEF A
  <2>3. Moved(Holds(c), Holds(d), "inq", "ooo", A)
    BY <2>1, <2>2 DEF Moved, Places
  <2> QED
    BY <1>1, <2>3, MoveKeeps
<1> QED
  BY <1>1, <1>12, <1>13, <1>14 DEF ChannelOK, d

\* From H to G place p loses, or gains, the accesses D.
Taken(H, G, p, D) ==
    /\ p \in Places /\ D \subseteq H[p] /\ G[p] = H[p] \ D
    /\ \A k \in Places : k # p => G[k] = H[k]
Added(H, G, p, D) ==
    /\ p \in Places /\ G[p] = H[p] \cup D
    /\ \A k \in Places : k # p => G[k] = H[k]

\* Accesses that leave the channel, and accesses that are new to it.
LEMMA TakenFrom ==
    ASSUME NEW H, NEW G, NEW F, NEW p, NEW D, Taken(H, G, p, D), Partitions(H, F)
    PROVE  Partitions(G, F \ D)
<1>1. ASSUME NEW k \in Places PROVE G[k] = H[k] \ D
  BY DEF Taken, Partitions
<1> QED
  BY <1>1 DEF Partitions

LEMMA AddedTo ==
    ASSUME NEW H, NEW G, NEW F, NEW p, NEW D, Added(H, G, p, D), Partitions(H, F),
           D \cap F = {}
    PROVE  Partitions(G, F \cup D)
<1>1. ASSUME NEW j \in Places, NEW k \in Places, j # k
      PROVE  G[j] \cap G[k] = {}
  <2>1. \A i \in Places : H[i] \cap D = {}
    BY DEF Partitions
  <2> QED
    BY <1>1, <2>1 DEF Added, Partitions
<1>2. ASSUME NEW a PROVE a \in F \cup D <=> \E k \in Places : a \in G[k]
  BY DEF Added, Partitions
<1> QED
  BY <1>1, <1>2 DEF Partitions

\* The window's scheduler selects an access of the window.
LEMMA Selected ==
    ASSUME NEW c \in Channels, c.ooo # <<>>
    PROVE  SelectPimCommand(c) \in 1 .. Len(c.ooo)
<1> DEFINE N == 1 .. Len(c.ooo)
           R == {i \in N : IsTlmRead(c.ooo[i]) /\ ~Full(c, c.ooo[i])}
           A == {i \in N : ~Full(c, c.ooo[i])}
           T == {i \in N : IsTlmRead(c.ooo[i])}
           first(I) == IF I # {} THEN Min(I) ELSE 0
<1>1. SelectPimCommand(c) = CASE ~CmdSched -> 1
                              [] first(R) > 0 -> first(R)
                              [] first(A) > 0 -> first(A)
                              [] first(T) > 0 -> first(T)
                              [] OTHER -> 1
  BY DEF SelectPimCommand, SelectInSeq
<1>2. 1 \in N
  BY ChannelFields, EmptySeq DEF Distinct
<1>3. ASSUME NEW I \in SUBSET N, first(I) > 0 PROVE first(I) \in N
  <2>1. CASE I # {}
    <3>1. I \in SUBSET Nat
      OBVIOUS
    <3>2. Min(I) \in I
      BY <2>1, <3>1, MinIs
    <3> QED
      BY <2>1, <3>2
  <2>2. CASE I = {}
    BY <1>3, <2>2
  <2> QED
    BY <2>1, <2>2
<1>4. R \in SUBSET N /\ A \in SUBSET N /\ T \in SUBSET N
  OBVIOUS
<1> HIDE DEF N, R, A, T, first
<1> QED
  BY <1>1, <1>2, <1>3, <1>4 DEF N

\* Route puts an access that is not in the channel in one place of it.
LEMMA RouteOK ==
    ASSUME NEW c, NEW F, hold \in Nat, ChannelOK(c, F, hold),
           NEW a \in Accesses, a \notin F
    PROVE  ChannelOK(Route(c, a), F \cup {a}, hold)
<1> DEFINE d == Route(c, a)
<1>1. c \in Channels /\ Partitions(Holds(c), F) /\ Ordered(c.held, hold)
      /\ Len(c.ooo) <= Entries
  BY DEF ChannelOK
<1>2. c.held \in Lots /\ c.aau \in Lots /\ c.ssrc \in Lots /\ c.dram \subseteq Accesses
  BY <1>1, ChannelFields
<1>3. \A p \in Places : a \notin Holds(c)[p]
  BY <1>1 DEF Partitions
<1>4. a \notin ParkedIn(c.held) /\ a \notin ParkedIn(c.aau) /\ a \notin ParkedIn(c.ssrc)
  BY <1>3, HoldsAt
<1>5. AauCycles \in Nat /\ SsrcCycles \in Nat
  BY PIMChannelAssumption
<1>6. ASSUME NEW p, NEW D, D = {a}, Added(Holds(c), Holds(d), p, D)
      PROVE  Partitions(Holds(d), F \cup {a})
  BY <1>1, <1>6, AddedTo
<1>7. CASE d = [c EXCEPT !.ssrc = Append(@, Parked(a, SsrcCycles))]
  <2> DEFINE t == Append(c.ssrc, Parked(a, SsrcCycles))
  <2>1. t \in Lots /\ ParkedIn(t) = ParkedIn(c.ssrc) \cup {a}
    BY <1>2, <1>4, <1>5, LotAppend
  <2> HIDE DEF d, t
  <2>2. d \in Channels /\ d.held = c.held /\ d.dram = c.dram /\ d.inq = c.inq
        /\ d.ooo = c.ooo /\ d.aau = c.aau
        /\ d.ssrc = t
        /\ d.done = c.done /\ d.resp = c.resp
    BY <1>1, <1>7, <2>1 DEF Channels, t
  <2>3. Added(Holds(c), Holds(d), "ssrc", {a})
    BY <2>1, <2>2, HoldsAt DEF Added
  <2> QED
    BY <1>1, <1>6, <2>2, <2>3 DEF ChannelOK, d
<1>8. CASE d = [c EXCEPT !.aau = Append(@, Parked(a, AauCycles))]
  <2> DEFINE t == Append(c.aau, Parked(a, AauCycles))
  <2>1. t \in Lots /\ ParkedIn(t) = ParkedIn(c.aau) \cup {a}
    BY <1>2, <1>4, <1>5, LotAppend
  <2> HIDE DEF d, t
  <2>2. d \in Channels /\ d.held = c.held /\ d.dram = c.dram /\ d.inq = c.inq
        /\ d.ooo = c.ooo /\ d.aau = t
        /\ d.ssrc = c.ssrc /\ d.done = c.done /\ d.resp = c.resp
    BY <1>1, <1>8, <2>1 DEF Channels, t
  <2>3. Added(Holds(c), Holds(d), "aau", {a})
    BY <2>1, <2>2, HoldsAt DEF Added
  <2> QED
    BY <1>1, <1>6, <2>2, <2>3 DEF ChannelOK, d
<1>9. CASE d = [c EXCEPT !.held = Append(@, Parked(a, hold))]
  <2> DEFINE t == Append(c.held, Parked(a, hold))
  <2>1. t \in Lots /\ ParkedIn(t) = ParkedIn(c.held) \cup {a}
    BY <1>2, <1>4, LotAppend
  <2> HIDE DEF d, t
  <2>2. d \in Channels /\ d.held = t /\ d.dram = c.dram
        /\ d.inq = c.inq /\ d.ooo = c.ooo /\ d.aau = c.aau /\ d.ssrc = c.ssrc
        /\ d.done = c.done /\ d.resp = c.resp
    BY <1>1, <1>9, <2>1 DEF Channels, t
  <2>3. Added(Holds(c), Holds(d), "held", {a})
    BY <2>1, <2>2, HoldsAt DEF Added
  <2>4. Ordered(d.held, hold)
    BY <1>1, <1>2, <2>2, OrderedAppend DEF t
  <2> QED
    BY <1>1, <1>6, <2>2, <2>3, <2>4 DEF ChannelOK, d
<1>10. CASE d = [c EXCEPT !.dram = @ \cup {a}]
  <2> HIDE DEF d
  <2>2. d \in Channels /\ d.held = c.held /\ d.dram = c.dram \cup {a} /\ d.inq = c.inq
        /\ d.ooo = c.ooo /\ d.aau = c.aau /\ d.ssrc = c.ssrc
        /\ d.done = c.done /\ d.resp = c.resp
    BY <1>1, <1>2, <1>10 DEF Channels
  <2>3. Added(Holds(c), Holds(d), "dram", {a})
    BY <2>2, HoldsAt DEF Added
  <2> QED
    BY <1>1, <1>6, <2>2, <2>3 DEF ChannelOK, d
<1> QED
  BY <1>7, <1>8, <1>9, <1>10 DEF Route

\* Issue takes one access out of the command window, or when that is empty
\* out of the interconnect's buffer, and routes it.
LEMMA IssueOK ==
    ASSUME NEW c, NEW F, hold \in Nat, ChannelOK(c, F, hold)
    PROVE  ChannelOK(Issue(c), F, hold)
<1>1. c \in Channels /\ Partitions(Holds(c), F) /\ Ordered(c.held, hold)
      /\ Len(c.ooo) <= Entries
  BY DEF ChannelOK
<1>2. /\ c.inq \in Distinct(Accesses) /\ c.ooo \in Distinct(Accesses)
      /\ c.inq \in Seq(Accesses) /\ c.ooo \in Seq(Accesses)
  BY <1>1, ChannelFields DEF Distinct
<1>3. CASE Issue(c) = c
  BY <1>3
<1>0. ASSUME NEW d, NEW a, NEW p, NEW D, D = {a}, a \in Holds(c)[p],
             Taken(Holds(c), Holds(d), p, D)
      PROVE  Partitions(Holds(d), F \ {a}) /\ a \in F
  <2>1. Partitions(Holds(d), F \ D)
    BY <1>0, <1>1, TakenFrom
  <2>2. p \in Places
    BY <1>0 DEF Taken
  <2> QED
    BY <1>0, <1>1, <2>1, <2>2 DEF Partitions
<1>4. CASE c.ooo # <<>> /\ Issue(c) # c
  <2> DEFINE i == SelectPimCommand(c)
             a == c.ooo[i]
             s == RemoveAt(c.ooo, i)
             d == [c EXCEPT !.ooo = s]
  <2>1. Issue(c) = Route(d, a)
    BY <1>4 DEF Issue
  <2>2. i \in 1 .. Len(c.ooo)
    BY <1>1, <1>4, Selected
  <2> HIDE DEF i
  <2>3. a \in ToSet(c.ooo) /\ a \in Accesses
    BY <1>2, <2>2, MembersOf
  <2>4. s \in Distinct(Accesses) /\ ToSet(s) = ToSet(c.ooo) \ {a}
    BY <1>2, <2>2, DistinctRemoveAt
  <2>5. Len(s) <= Entries
    <3>1. Len(c.ooo) \in Nat /\ \A j \in 1 .. Len(c.ooo) : c.ooo[j] \in Accesses
      BY <1>2, LenProperties, ElementOfSeq
    <3> DEFINE u == SubSeq(c.ooo, 1, i - 1)
               v == SubSeq(c.ooo, i + 1, Len(c.ooo))
    <3>2. /\ u \in Seq(Accesses) /\ Len(u) = i - 1
          /\ v \in Seq(Accesses) /\ Len(v) = Len(c.ooo) - i
      BY <2>2, <3>1, SubSeqProperties
    <3> HIDE DEF u, v
    <3>3. Len(u \o v) = Len(u) + Len(v)
      BY <3>2, ConcatProperties
    <3>4. s = u \o v
      BY DEF RemoveAt, u, v
    <3>5. Len(c.ooo) <= Entries /\ Entries \in Nat
      BY <1>1, PIMChannelAssumption
    <3> HIDE DEF s
    <3>6. Len(s) = Len(u) + Len(v)
      BY <3>3, <3>4
    <3>7. Len(c.ooo) \in Nat /\ i \in 1 .. Len(c.ooo) /\ Len(u) = i - 1 /\ Len(v) = Len(c.ooo) - i
      BY <2>2, <3>1, <3>2
    <3> QED
      BY <3>5, <3>6, <3>7
  <2> HIDE DEF a, s, d
  <2>6. d \in Channels /\ d.held = c.held /\ d.dram = c.dram /\ d.inq = c.inq
        /\ d.ooo = s /\ d.aau = c.aau /\ d.ssrc = c.ssrc
        /\ d.done = c.done /\ d.resp = c.resp
    BY <1>1, <2>4 DEF Channels, d
  <2>7. Taken(Holds(c), Holds(d), "ooo", {a})
    BY <2>3, <2>4, <2>6, HoldsAt DEF Taken
  <2>8. Partitions(Holds(d), F \ {a}) /\ a \in F
    <3>1. a \in Holds(c)["ooo"]
      BY <2>3, HoldsAt
    <3> QED
      BY <1>0, <2>7, <3>1
  <2>9. ChannelOK(d, F \ {a}, hold)
    BY <1>1, <2>5, <2>6, <2>8 DEF ChannelOK
  <2>10. ChannelOK(Route(d, a), (F \ {a}) \cup {a}, hold)
    BY <2>3, <2>9, RouteOK
  <2>11. (F \ {a}) \cup {a} = F
    BY <2>8
  <2> QED
    BY <2>1, <2>10, <2>11
<1>5. CASE c.ooo = <<>> /\ Issue(c) # c
  <2> DEFINE a == Head(c.inq)
             s == Tail(c.inq)
             d == [c EXCEPT !.inq = s]
  <2>1. Issue(c) = Route(d, a) /\ c.inq # <<>>
    BY <1>5 DEF Issue
  <2>2. a \in ToSet(c.inq) /\ a \in Accesses
    BY <1>2, <2>1, MembersOf
  <2>3. s \in Distinct(Accesses) /\ ToSet(s) = ToSet(c.inq) \ {a}
    BY <1>2, <2>1, DistinctTail
  <2> HIDE DEF a, s, d
  <2>4. d \in Channels /\ d.held = c.held /\ d.dram = c.dram /\ d.inq = s
        /\ d.ooo = c.ooo /\ d.aau = c.aau /\ d.ssrc = c.ssrc
        /\ d.done = c.done /\ d.resp = c.resp
    BY <1>1, <2>3 DEF Channels, d
  <2>5. Taken(Holds(c), Holds(d), "inq", {a})
    BY <2>2, <2>3, <2>4, HoldsAt DEF Taken
  <2>6. Partitions(Holds(d), F \ {a}) /\ a \in F
    <3>1. a \in Holds(c)["inq"]
      BY <2>2, HoldsAt
    <3> QED
      BY <1>0, <2>5, <3>1
  <2>7. ChannelOK(d, F \ {a}, hold)
    BY <1>1, <2>4, <2>6 DEF ChannelOK
  <2>8. ChannelOK(Route(d, a), (F \ {a}) \cup {a}, hold)
    BY <2>2, <2>7, RouteOK
  <2>9. (F \ {a}) \cup {a} = F
    BY <2>6
  <2> QED
    BY <2>1, <2>8, <2>9
<1> QED
  BY <1>3, <1>4, <1>5

\* BypassDrain takes the head of the AAU bypass queue to the interconnect.
LEMMA AauDrainOK ==
    ASSUME NEW c, NEW F, NEW n \in Nat, ChannelOK(c, F, n)
    PROVE  ChannelOK(BypassDrain(c, "aau"), F, n)
<1> DEFINE d == BypassDrain(c, "aau")
<1>1. c \in Channels /\ Partitions(Holds(c), F) /\ Ordered(c.held, n)
      /\ Len(c.ooo) <= Entries
  BY DEF ChannelOK
<1>2. CASE d = c
  BY <1>2
<1>3. CASE d # c
  <2> DEFINE a == Head(c.aau).acc
             s == Tail(c.aau)
             t == Append(c.resp, a)
  <2>1. c.aau # <<>> /\ d = [c EXCEPT !.resp = t, !.aau = s]
    BY <1>1, <1>3 DEF BypassDrain, Channels
  <2>2. /\ s \in Lots /\ a \in ParkedIn(c.aau)
        /\ ParkedIn(s) = ParkedIn(c.aau) \ {a}
        /\ a \in Accesses
    BY <1>1, <2>1, ChannelFields, LotTail, LotElements, MembersOf DEF Distinct
  <2> HIDE DEF d, a, s
  <2>3. a \notin ToSet(c.resp)
    <3>1. Holds(c)["aau"] \cap Holds(c)["resp"] = {}
      BY <1>1 DEF Partitions, Places
    <3> QED
      BY <2>2, <3>1, HoldsAt
  <2>4. t \in Distinct(Accesses) /\ ToSet(t) = ToSet(c.resp) \cup {a}
    BY <1>1, <2>2, <2>3, ChannelFields, DistinctAppend
  <2> HIDE DEF t
  <2>5. d \in Channels /\ d.held = c.held /\ d.dram = c.dram /\ d.inq = c.inq
        /\ d.ooo = c.ooo /\ d.aau = s /\ d.ssrc = c.ssrc
        /\ d.done = c.done /\ d.resp = t
    BY <1>1, <2>1, <2>2, <2>4 DEF Channels
  <2>6. Partitions(Holds(d), F)
    <3>1. Moved(Holds(c), Holds(d), "aau", "resp", {a})
      BY <2>2, <2>4, <2>5, HoldsAt DEF Moved
    <3> QED
      BY <1>1, <3>1, MoveKeeps
  <2> QED
    BY <1>1, <2>5, <2>6 DEF ChannelOK, d
<1> QED
  BY <1>2, <1>3

\* BypassDrain takes the head of the SSRC bypass queue to the interconnect.
LEMMA SsrcDrainOK ==
    ASSUME NEW c, NEW F, NEW n \in Nat, ChannelOK(c, F, n)
    PROVE  ChannelOK(BypassDrain(c, "ssrc"), F, n)
<1> DEFINE d == BypassDrain(c, "ssrc")
<1>1. c \in Channels /\ Partitions(Holds(c), F) /\ Ordered(c.held, n)
      /\ Len(c.ooo) <= Entries
  BY DEF ChannelOK
<1>2. CASE d = c
  BY <1>2
<1>3. CASE d # c
  <2> DEFINE a == Head(c.ssrc).acc
             s == Tail(c.ssrc)
             t == Append(c.resp, a)
  <2>1. c.ssrc # <<>> /\ d = [c EXCEPT !.resp = t, !.ssrc = s]
    BY <1>1, <1>3 DEF BypassDrain, Channels
  <2>2. /\ s \in Lots /\ a \in ParkedIn(c.ssrc)
        /\ ParkedIn(s) = ParkedIn(c.ssrc) \ {a}
        /\ a \in Accesses
    BY <1>1, <2>1, ChannelFields, LotTail, LotElements, MembersOf DEF Distinct
  <2> HIDE DEF d, a, s
  <2>3. a \notin ToSet(c.resp)
    <3>1. Holds(c)["ssrc"] \cap Holds(c)["resp"] = {}
      BY <1>1 DEF Partitions, Places
    <3> QED
      BY <2>2, <3>1, HoldsAt
  <2>4. t \in Distinct(Accesses) /\ ToSet(t) = ToSet(c.resp) \cup {a}
    BY <1>1, <2>2, <2>3, ChannelFields, DistinctAppend
  <2> HIDE DEF t
  <2>5. d \in Channels /\ d.held = c.held /\ d.dram = c.dram /\ d.inq = c.inq
        /\ d.ooo = c.ooo /\ d.ssrc = s /\ d.aau = c.aau
        /\ d.done = c.done /\ d.resp = t
    BY <1>1, <2>1, <2>2, <2>4 DEF Channels
  <2>6. Partitions(Holds(d), F)
    <3>1. Moved(Holds(c), Holds(d), "ssrc", "resp", {a})
      BY <2>2, <2>4, <2>5, HoldsAt DEF Moved
    <3> QED
      BY <1>1, <3>1, MoveKeeps
  <2> QED
    BY <1>1, <2>5, <2>6 DEF ChannelOK, d
<1> QED
  BY <1>2, <1>3

\* DramPop takes DRAM's first response to the interconnect.
LEMMA DramPopOK ==
    ASSUME NEW c, NEW F, NEW n \in Nat, ChannelOK(c, F, n)
    PROVE  ChannelOK(DramPop(c), F, n)
<1> DEFINE d == DramPop(c)
<1>1. c \in Channels /\ Partitions(Holds(c), F) /\ Ordered(c.held, n)
      /\ Len(c.ooo) <= Entries
  BY DEF ChannelOK
<1>2. CASE d = c
  BY <1>2
<1>3. CASE d # c
  <2> DEFINE a == Head(c.done)
             s == Tail(c.done)
             t == Append(c.resp, a)
  <2>1. c.done # <<>> /\ d = [c EXCEPT !.resp = t, !.done = s]
    BY <1>3 DEF DramPop
  <2>2. /\ s \in Distinct(Accesses) /\ a \in ToSet(c.done)
        /\ ToSet(s) = ToSet(c.done) \ {a}
        /\ a \in Accesses
    BY <1>1, <2>1, ChannelFields, DistinctTail, MembersOf DEF Distinct
  <2> HIDE DEF d, a, s
  <2>3. a \notin ToSet(c.resp)
    <3>1. Holds(c)["done"] \cap Holds(c)["resp"] = {}
      BY <1>1 DEF Partitions, Places
    <3> QED
      BY <2>2, <3>1, HoldsAt
  <2>4. t \in Distinct(Accesses) /\ ToSet(t) = ToSet(c.resp) \cup {a}
    BY <1>1, <2>2, <2>3, ChannelFields, DistinctAppend
  <2> HIDE DEF t
  <2>5. d \in Channels /\ d.held = c.held /\ d.dram = c.dram /\ d.inq = c.inq
        /\ d.ooo = c.ooo /\ d.aau = c.aau /\ d.ssrc = c.ssrc
        /\ d.done = s /\ d.resp = t
    BY <1>1, <2>1, <2>2, <2>4 DEF Channels
  <2>6. Partitions(Holds(d), F)
    <3>1. Moved(Holds(c), Holds(d), "done", "resp", {a})
      BY <2>2, <2>4, <2>5, HoldsAt DEF Moved
    <3> QED
      BY <1>1, <3>1, MoveKeeps
  <2> QED
    BY <1>1, <2>5, <2>6 DEF ChannelOK, d
<1> QED
  BY <1>2, <1>3

-----------------------------------------------------------------------------
(* The actions.                                                            *)

\* The invariant holds initially.
LEMMA PIMStarts == PIMInit => PIMInv
<1> SUFFICES ASSUME PIMInit PROVE PIMInv
  OBVIOUS
<1>1. <<>> \in Distinct(Accesses) /\ ToSet(<<>>) = {} /\ Len(<<>>) = 0
  BY DEF Distinct, IsInjective, ToSet
<1>2. Accs(<<>>) = <<>> /\ ParkedIn(<<>>) = {}
  BY DEF Accs, ParkedIn
<1>3. <<>> \in Lots
  BY <1>1, <1>2 DEF Lots
<1>4. EmptyChannel \in Channels
  BY <1>1, <1>3 DEF EmptyChannel, Channels
<1>5. \A p \in Places : Holds(EmptyChannel)[p] = {}
  BY <1>1, <1>2, HoldsAt DEF EmptyChannel
<1>6. ChannelOK(EmptyChannel, {}, 0)
  BY <1>1, <1>4, <1>5, PIMChannelAssumption
     DEF ChannelOK, Partitions, Ordered, EmptyChannel
<1>7. IsFiniteSet({})
  BY FS_EmptySet
<1> QED
  BY <1>6, <1>7, PIMChannelAssumption DEF PIMInit, PIMInv, Stages, DLM, TLM

\* A cycle of the channel.
LEMMA IcntCycleOK ==
    ASSUME PIMInv, IcntCycle
    PROVE  PIMInv'
<1> DEFINE a == HoldDrain(ch)
           b == Fill(a)
           c == Issue(b)
           d == BypassDrain(c, "aau")
           e == BypassDrain(d, "ssrc")
<1>0. hold \in Nat /\ ChannelOK(ch, flight, hold)
  BY PIMChannelAssumption DEF PIMInv
<1>1. ChannelOK(a, flight, hold)
  BY <1>0, HoldDrainOK
<1> HIDE DEF a
<1>2. ChannelOK(b, flight, hold)
  BY <1>0, <1>1, FillOK
<1> HIDE DEF b
<1>3. ChannelOK(c, flight, hold)
  BY <1>0, <1>2, IssueOK
<1> HIDE DEF c
<1>4. ChannelOK(d, flight, hold)
  BY <1>0, <1>3, AauDrainOK
<1> HIDE DEF d
<1>5. ChannelOK(e, flight, hold)
  BY <1>0, <1>4, SsrcDrainOK
<1> HIDE DEF e
<1>6. ChannelOK(DramPop(e), flight, hold)
  BY <1>0, <1>5, DramPopOK
<1>7. ch' = DramPop(e) /\ hold' = hold /\ flight' = flight
      /\ UNCHANGED <<mode, lastMode, task, deferred>>
  BY DEF IcntCycle, backendVars, taskVars, a, b, c, d, e
<1>8. ChannelOK(ch', flight', hold')
  BY <1>6, <1>7
<1> QED
  BY <1>7, <1>8 DEF PIMInv

\* A core cycle.
LEMMA TickOK ==
    ASSUME PIMInv, Tick
    PROVE  PIMInv'
<1>1. /\ hold \in Nat /\ hold <= SwitchCycles /\ ch \in Channels
      /\ Partitions(Holds(ch), flight) /\ Ordered(ch.held, hold)
      /\ Len(ch.ooo) <= Entries
  BY PIMChannelAssumption DEF PIMInv, ChannelOK
<1>2. /\ hold' = TickDown(hold)
      /\ ch' = [ch EXCEPT !.held = Aged(@), !.aau = Aged(@), !.ssrc = Aged(@)]
      /\ UNCHANGED <<mode, lastMode, task, deferred, flight>>
  BY DEF Tick, taskVars, Aged
<1>3. \A q \in {ch.held, ch.aau, ch.ssrc} :
        Aged(q) \in Lots /\ ParkedIn(Aged(q)) = ParkedIn(q)
  BY <1>1, ChannelFields, LotAged
<1>4. /\ ch' \in Channels /\ ch'.held = Aged(ch.held) /\ ch'.aau = Aged(ch.aau)
      /\ ch'.ssrc = Aged(ch.ssrc) /\ ch'.inq = ch.inq /\ ch'.ooo = ch.ooo
      /\ ch'.dram = ch.dram /\ ch'.done = ch.done /\ ch'.resp = ch.resp
  BY <1>1, <1>2, <1>3 DEF Channels
<1>5. \A p \in Places : Holds(ch')[p] = Holds(ch)[p]
  <2>1. ParkedIn(Aged(ch.held)) = ParkedIn(ch.held)
        /\ ParkedIn(Aged(ch.aau)) = ParkedIn(ch.aau)
        /\ ParkedIn(Aged(ch.ssrc)) = ParkedIn(ch.ssrc)
    BY <1>3
  <2> QED
    BY <1>4, <2>1, HoldsAt
<1>6. Partitions(Holds(ch'), flight)
  BY <1>1, <1>5 DEF Partitions
<1>7. Ordered(ch'.held, hold')
  BY <1>1, <1>2, <1>4, ChannelFields, OrderedAged
<1>8. ChannelOK(ch', flight', hold')
  BY <1>1, <1>2, <1>4, <1>6, <1>7 DEF ChannelOK
<1>9. hold' \in 0 .. SwitchCycles
  BY <1>1, <1>2, PIMChannelAssumption DEF TickDown
<1> QED
  BY <1>2, <1>8, <1>9 DEF PIMInv

\* DRAM completes an access.
LEMMA DramCycleOK ==
    ASSUME PIMInv, NEW write \in BOOLEAN, DramCycle(write)
    PROVE  PIMInv'
<1>1. /\ hold \in Nat /\ ch \in Channels /\ Partitions(Holds(ch), flight)
      /\ Ordered(ch.held, hold) /\ Len(ch.ooo) <= Entries
  BY PIMChannelAssumption DEF PIMInv, ChannelOK
<1>2. PICK a \in ch.dram : ch' = [ch EXCEPT !.dram = @ \ {a}, !.done = Append(@, a)]
  BY DEF DramCycle
<1>3. UNCHANGED <<hold, mode, lastMode, task, deferred, flight>>
  BY DEF DramCycle, backendVars, taskVars
<1> DEFINE t == Append(ch.done, a)
<1>4. a \in Accesses
  BY <1>1, ChannelFields
<1>5. a \notin ToSet(ch.done)
  <2>1. Holds(ch)["dram"] \cap Holds(ch)["done"] = {}
    BY <1>1 DEF Partitions, Places
  <2> QED
    BY <2>1, HoldsAt
<1>6. t \in Distinct(Accesses) /\ ToSet(t) = ToSet(ch.done) \cup {a}
  BY <1>1, <1>4, <1>5, ChannelFields, DistinctAppend
<1>7. ch' = [ch EXCEPT !.dram = @ \ {a}, !.done = t]
  BY <1>1, <1>2 DEF Channels
<1> HIDE DEF t
<1>8. /\ ch' \in Channels /\ ch'.held = ch.held /\ ch'.aau = ch.aau
      /\ ch'.ssrc = ch.ssrc /\ ch'.inq = ch.inq /\ ch'.ooo = ch.ooo
      /\ ch'.dram = ch.dram \ {a} /\ ch'.done = t /\ ch'.resp = ch.resp
  BY <1>1, <1>6, <1>7, ChannelFields DEF Channels
<1>9. Partitions(Holds(ch'), flight)
  <2>1. Moved(Holds(ch), Holds(ch'), "dram", "done", {a})
    BY <1>6, <1>8, HoldsAt DEF Moved
  <2> QED
    BY <1>1, <2>1, MoveKeeps
<1>10. ChannelOK(ch', flight', hold')
  BY <1>1, <1>3, <1>8, <1>9 DEF ChannelOK
<1> QED
  BY <1>3, <1>10 DEF PIMInv

\* The interconnect delivers its first response to the core.
LEMMA DeliverOK ==
    ASSUME PIMInv, Deliver
    PROVE  PIMInv'
<1>1. /\ hold \in Nat /\ ch \in Channels /\ Partitions(Holds(ch), flight)
      /\ Ordered(ch.held, hold) /\ Len(ch.ooo) <= Entries /\ IsFiniteSet(flight)
  BY PIMChannelAssumption DEF PIMInv, ChannelOK
<1> DEFINE a == Head(ch.resp)
           s == Tail(ch.resp)
<1>2. /\ ch.resp # <<>> /\ flight' = flight \ {a} /\ ch' = [ch EXCEPT !.resp = s]
      /\ UNCHANGED <<hold, mode, lastMode, task, deferred>>
  BY DEF Deliver, backendVars, taskVars
<1>3. s \in Distinct(Accesses) /\ ToSet(s) = ToSet(ch.resp) \ {a} /\ a \in ToSet(ch.resp)
  BY <1>1, <1>2, ChannelFields, DistinctTail, MembersOf DEF Distinct
<1> HIDE DEF a, s
<1>4. /\ ch' \in Channels /\ ch'.held = ch.held /\ ch'.aau = ch.aau
      /\ ch'.ssrc = ch.ssrc /\ ch'.inq = ch.inq /\ ch'.ooo = ch.ooo
      /\ ch'.dram = ch.dram /\ ch'.done = ch.done /\ ch'.resp = s
  BY <1>1, <1>2, <1>3 DEF Channels
<1>5. Taken(Holds(ch), Holds(ch'), "resp", {a})
  BY <1>3, <1>4, HoldsAt DEF Taken
<1>6. Partitions(Holds(ch'), flight')
  <2>1. ASSUME NEW D, D = {a}, Taken(Holds(ch), Holds(ch'), "resp", D)
        PROVE  Partitions(Holds(ch'), flight \ D)
    BY <1>1, <2>1, TakenFrom
  <2>2. Partitions(Holds(ch'), flight \ {a})
    BY <1>5, <2>1
  <2> QED
    BY <1>2, <2>2
<1>7. ChannelOK(ch', flight', hold')
  BY <1>1, <1>2, <1>4, <1>6 DEF ChannelOK
<1>8. IsFiniteSet(flight')
  BY <1>1, <1>2, FS_RemoveElement
<1> QED
  BY <1>2, <1>7, <1>8 DEF PIMInv

\* A core sends an access that it does not already wait for.
LEMMA SendOK ==
    ASSUME PIMInv, NEW r \in Issuers, NEW kind \in Kinds, Send(r, kind)
    PROVE  PIMInv'
<1>1. /\ hold \in Nat /\ ch \in Channels /\ Partitions(Holds(ch), flight)
      /\ Ordered(ch.held, hold) /\ Len(ch.ooo) <= Entries /\ IsFiniteSet(flight)
      /\ task \in [Issuers -> [stage : Stages, sent : 0 .. PerTask]]
  BY PIMChannelAssumption DEF PIMInv, ChannelOK
<1>2. kind.write \in BOOLEAN /\ kind.tagged \in BOOLEAN /\ MaxFlight \in Nat \ {0}
      /\ PerTask \in Nat
  BY PIMChannelAssumption
<1> DEFINE as(id) == [id |-> id, req |-> r, write |-> kind.write,
                      tagged |-> kind.tagged, tlm |-> task[r].stage = "VERIFY"]
           mine == {b \in flight : b.req = r}
           free == {id \in 1 .. MaxFlight : as(id) \notin flight}
           a == as(Min(free))
           t == Append(ch.inq, a)
<1>3. /\ task[r].sent < PerTask /\ Cardinality(mine) < MaxFlight
      /\ flight' = flight \cup {a} /\ ch' = [ch EXCEPT !.inq = t]
      /\ task' = [task EXCEPT ![r].sent = @ + 1]
      /\ UNCHANGED <<hold, mode, lastMode, deferred>>
  BY <1>1 DEF Send, backendVars, Channels
\* Fewer than MaxFlight accesses of r are in flight, so a number is free.
<1>4. free # {}
  <2> SUFFICES ASSUME free = {} PROVE FALSE
    OBVIOUS
  <2> DEFINE f == [id \in 1 .. MaxFlight |-> as(id)]
  <2>1. \A id \in 1 .. MaxFlight : as(id) \in mine
    OBVIOUS
  <2>2. f \in [1 .. MaxFlight -> mine]
    BY <2>1
  <2>3. IsFiniteSet(mine) /\ Cardinality(mine) \in Nat
    BY <1>1, FS_Subset, FS_CardinalityType
  <2>4. IsFiniteSet(1 .. MaxFlight) /\ Cardinality(1 .. MaxFlight) = MaxFlight
    BY <1>2, FS_Interval
  <2>5. \A i, j \in 1 .. MaxFlight : f[i] = f[j] => i = j
    OBVIOUS
  <2> HIDE DEF f, mine, free
  <2>6. \E i, j \in 1 .. MaxFlight : i # j /\ f[i] = f[j]
    BY <1>3, <2>2, <2>3, <2>4, FS_PigeonHole
  <2> QED
    BY <2>5, <2>6
<1>5. a \notin flight /\ a \in Accesses
  <2>1. free \in SUBSET Nat
    BY <1>2
  <2>2. Min(free) \in free
    BY <1>4, <2>1, MinIs
  <2>3. Min(free) \in 1 .. MaxFlight /\ as(Min(free)) \notin flight
    BY <2>2
  <2> HIDE DEF free
  <2> QED
    BY <1>2, <2>3 DEF Accesses
<1> HIDE DEF a, free, mine
<1>6. a \notin ToSet(ch.inq)
  <2>1. "inq" \in Places /\ Holds(ch)["inq"] = ToSet(ch.inq)
    BY HoldsAt
  <2> QED
    BY <1>1, <1>5, <2>1 DEF Partitions
<1>7. t \in Distinct(Accesses) /\ ToSet(t) = ToSet(ch.inq) \cup {a}
  BY <1>1, <1>5, <1>6, ChannelFields, DistinctAppend
<1> HIDE DEF t
<1>8. /\ ch' \in Channels /\ ch'.held = ch.held /\ ch'.aau = ch.aau
      /\ ch'.ssrc = ch.ssrc /\ ch'.inq = t /\ ch'.ooo = ch.ooo
      /\ ch'.dram = ch.dram /\ ch'.done = ch.done /\ ch'.resp = ch.resp
  BY <1>1, <1>3, <1>7 DEF Channels
<1>9. Added(Holds(ch), Holds(ch'), "inq", {a})
  BY <1>7, <1>8, HoldsAt DEF Added
<1>10. Partitions(Holds(ch'), flight')
  <2>1. ASSUME NEW D, D = {a}, Added(Holds(ch), Holds(ch'), "inq", D)
        PROVE  Partitions(Holds(ch'), flight \cup D)
    BY <1>1, <1>5, <2>1, AddedTo
  <2>2. Partitions(Holds(ch'), flight \cup {a})
    BY <1>9, <2>1
  <2> QED
    BY <1>3, <2>2
<1>11. ChannelOK(ch', flight', hold')
  BY <1>1, <1>3, <1>8, <1>10 DEF ChannelOK
<1>12. IsFiniteSet(flight')
  BY <1>1, <1>3, FS_AddElement
<1>13. task' \in [Issuers -> [stage : Stages, sent : 0 .. PerTask]]
  BY <1>1, <1>2, <1>3
<1> QED
  BY <1>3, <1>11, <1>12, <1>13 DEF PIMInv

\* A rank switch only prolongs the hold.
LEMMA RankSwitchOK ==
    ASSUME PIMInv, NEW r \in Issuers, NEW m \in {DLM, TLM}, RankSwitch(r, m),
           UNCHANGED <<ch, flight>>
    PROVE  /\ ChannelOK(ch', flight', hold') /\ IsFiniteSet(flight')
           /\ hold' \in 0 .. SwitchCycles /\ mode' \in {DLM, TLM}
           /\ lastMode' \in [Issuers -> {DLM, TLM}]
<1>1. /\ hold \in Nat /\ hold <= SwitchCycles /\ SwitchCycles \in Nat
      /\ ChannelOK(ch, flight, hold) /\ mode \in {DLM, TLM}
      /\ lastMode \in [Issuers -> {DLM, TLM}] /\ IsFiniteSet(flight)
  BY PIMChannelAssumption DEF PIMInv
<1>2. hold' \in Nat /\ hold <= hold' /\ hold' <= SwitchCycles /\ mode' \in {DLM, TLM}
      /\ lastMode' = [lastMode EXCEPT ![r] = m]
  BY <1>1 DEF RankSwitch
<1>3. ch.held \in Lots /\ Ordered(ch.held, hold)
  BY <1>1, ChannelFields DEF ChannelOK
<1>4. Ordered(ch.held, hold')
  BY <1>1, <1>2, <1>3, OrderedLonger
<1>5. ChannelOK(ch', flight', hold')
  BY <1>1, <1>4 DEF ChannelOK
<1> QED
  BY <1>1, <1>2, <1>5

\* The scheduler starts a round or its verification.
LEMMA StartOK ==
    ASSUME PIMInv, NEW r \in Issuers, StartDraft(r) \/ StartVerify(r)
    PROVE  PIMInv'
<1>1. task \in [Issuers -> [stage : Stages, sent : 0 .. PerTask]]
      /\ deferred \subseteq Issuers /\ PerTask \in Nat
  BY PIMChannelAssumption DEF PIMInv
<1>2. task' \in [Issuers -> [stage : Stages, sent : 0 .. PerTask]]
  BY <1>1 DEF StartDraft, StartVerify, Stages
<1>3. deferred' \subseteq Issuers
  BY <1>1 DEF StartDraft, StartVerify
<1>4. \E m \in {DLM, TLM} : RankSwitch(r, m) /\ UNCHANGED <<ch, flight>>
  BY DEF StartDraft, StartVerify
<1> QED
  BY <1>2, <1>3, <1>4, RankSwitchOK DEF PIMInv

\* The task of a request finishes.
LEMMA FinishTaskOK ==
    ASSUME PIMInv, NEW r \in Issuers, FinishTask(r)
    PROVE  PIMInv'
<1>1. task \in [Issuers -> [stage : Stages, sent : 0 .. PerTask]]
      /\ deferred \subseteq Issuers /\ PerTask \in Nat
  BY PIMChannelAssumption DEF PIMInv
<1>2. task' \in [Issuers -> [stage : Stages, sent : 0 .. PerTask]]
  BY <1>1 DEF FinishTask, Stages
<1>3. deferred' \subseteq Issuers
  BY <1>1 DEF FinishTask
<1> QED
  BY <1>2, <1>3 DEF FinishTask, PIMInv, backendVars

-----------------------------------------------------------------------------
(* The theorems.                                                           *)

\* Every step of the channel or of its environment keeps the invariant.
LEMMA PIMStep == PIMInv /\ [PIMNext]_pimVars => PIMInv'
<1> SUFFICES ASSUME PIMInv, [PIMNext]_pimVars PROVE PIMInv'
  OBVIOUS
<1>1. CASE IcntCycle
  BY <1>1, IcntCycleOK
<1>2. CASE Tick
  BY <1>2, TickOK
<1>3. CASE Deliver
  BY <1>3, DeliverOK
<1>4. CASE \E write \in BOOLEAN : DramCycle(write)
  BY <1>4, DramCycleOK
<1>5. CASE \E r \in Issuers : StartDraft(r) \/ StartVerify(r)
  BY <1>5, StartOK
<1>6. CASE \E r \in Issuers : FinishTask(r)
  BY <1>6, FinishTaskOK
<1>7. CASE \E r \in Issuers, kind \in Kinds : Send(r, kind)
  BY <1>7, SendOK
<1>8. CASE UNCHANGED pimVars
  BY <1>8 DEF PIMInv, ChannelOK, pimVars
<1> QED
  BY <1>1, <1>2, <1>3, <1>4, <1>5, <1>6, <1>7, <1>8 DEF PIMNext

\* The state of the channel: every queue has its type and repeats no access,
\* the window is within its entries, and the hold within a rank switch.
THEOREM ChannelStays == PIMSpec => []PIMInv
<1> QED
  BY PIMStarts, PIMStep, PTL DEF PIMSpec

\* Two disjoint finite sets.
LEMMA DisjointCount ==
    ASSUME NEW S, NEW T, IsFiniteSet(S), IsFiniteSet(T), S \cap T = {}
    PROVE  /\ IsFiniteSet(S \cup T)
           /\ Cardinality(S \cup T) = Cardinality(S) + Cardinality(T)
<1>1. Cardinality(S \cap T) = 0 /\ Cardinality(S) \in Nat /\ Cardinality(T) \in Nat
  BY FS_EmptySet, FS_CardinalityType
<1>2. /\ IsFiniteSet(S \cup T)
      /\ Cardinality(S \cup T) =
           Cardinality(S) + Cardinality(T) - Cardinality(S \cap T)
  BY FS_Union, Zenon
<1> QED
  BY <1>1, <1>2

\* The queues together are as long as there are accesses in flight.
LEMMA CountIs ==
    ASSUME NEW c, NEW F, NEW n \in Nat, ChannelOK(c, F, n), IsFiniteSet(F)
    PROVE  Cardinality(F) =
             Len(c.inq) + Len(c.ooo) + Len(c.held) + Len(c.aau) + Len(c.ssrc)
               + Cardinality(c.dram) + Len(c.done) + Len(c.resp)
<1> DEFINE H == Holds(c)
           Size(p) == Cardinality(H[p])
           U2 == H["inq"] \cup H["ooo"]
           U3 == U2 \cup H["held"]
           U4 == U3 \cup H["aau"]
           U5 == U4 \cup H["ssrc"]
           U6 == U5 \cup H["dram"]
           U7 == U6 \cup H["done"]
           U8 == U7 \cup H["resp"]
<1>1. c \in Channels /\ Partitions(H, F)
  BY DEF ChannelOK
<1>2. /\ Size("inq") = Len(c.inq) /\ Size("ooo") = Len(c.ooo)
      /\ Size("held") = Len(c.held) /\ Size("aau") = Len(c.aau)
      /\ Size("ssrc") = Len(c.ssrc) /\ Size("dram") = Cardinality(c.dram)
      /\ Size("done") = Len(c.done) /\ Size("resp") = Len(c.resp)
  <2>1. \A q \in Lots : Cardinality(ParkedIn(q)) = Len(q)
    BY LotElements, DistinctCount
  <2>2. \A s \in Distinct(Accesses) : Cardinality(ToSet(s)) = Len(s)
    BY DistinctCount
  <2> QED
    BY <1>1, <2>1, <2>2, ChannelFields, HoldsAt
<1> HIDE DEF H
<1>3. \A p \in Places : IsFiniteSet(H[p])
  <2>1. \A p \in Places : H[p] \in SUBSET F
    BY <1>1 DEF Partitions
  <2> QED
    BY <2>1, FS_Subset
<1>4. \A p, q \in Places : p # q => H[p] \cap H[q] = {}
  BY <1>1 DEF Partitions
<1>5. F = U8
  <2>1. \A a : a \in F <=> \E p \in Places : a \in H[p]
    BY <1>1 DEF Partitions
  <2> QED
    BY <2>1 DEF Places
<1> USE DEF Places
<1>6. IsFiniteSet(U2) /\ Cardinality(U2) = Size("inq") + Size("ooo")
  BY <1>3, <1>4, DisjointCount
<1>7. U2 \cap H["held"] = {} /\ U3 \cap H["aau"] = {} /\ U4 \cap H["ssrc"] = {}
      /\ U5 \cap H["dram"] = {} /\ U6 \cap H["done"] = {} /\ U7 \cap H["resp"] = {}
  BY <1>4
<1> HIDE DEF U2, U3, U4, U5, U6, U7, U8
<1>8. IsFiniteSet(U3) /\ Cardinality(U3) = Cardinality(U2) + Size("held")
  BY <1>3, <1>6, <1>7, DisjointCount DEF U3
<1>9. IsFiniteSet(U4) /\ Cardinality(U4) = Cardinality(U3) + Size("aau")
  BY <1>3, <1>7, <1>8, DisjointCount DEF U4
<1>10. IsFiniteSet(U5) /\ Cardinality(U5) = Cardinality(U4) + Size("ssrc")
  BY <1>3, <1>7, <1>9, DisjointCount DEF U5
<1>11. IsFiniteSet(U6) /\ Cardinality(U6) = Cardinality(U5) + Size("dram")
  BY <1>3, <1>7, <1>10, DisjointCount DEF U6
<1>12. IsFiniteSet(U7) /\ Cardinality(U7) = Cardinality(U6) + Size("done")
  BY <1>3, <1>7, <1>11, DisjointCount DEF U7
<1>13. IsFiniteSet(U8) /\ Cardinality(U8) = Cardinality(U7) + Size("resp")
  BY <1>3, <1>7, <1>12, DisjointCount DEF U8
<1>14. \A p \in Places : Size(p) \in Nat
  BY <1>3, FS_CardinalityType
<1> HIDE DEF Size
<1>15. Cardinality(U8) = Size("inq") + Size("ooo") + Size("held") + Size("aau")
         + Size("ssrc") + Size("dram") + Size("done") + Size("resp")
  BY <1>6, <1>8, <1>9, <1>10, <1>11, <1>12, <1>13, <1>14
<1> QED
  BY <1>2, <1>5, <1>15

\* What the cores wait for is what the queues hold, each access once: the
\* drains and bypasses of Simulator::cycle lose and duplicate nothing.
THEOREM NothingLost == PIMSpec => []EachInOneQueue
<1>1. PIMInv => EachInOneQueue
  <2> SUFFICES ASSUME PIMInv PROVE EachInOneQueue
    OBVIOUS
  <2>1. hold \in Nat /\ ChannelOK(ch, flight, hold) /\ IsFiniteSet(flight)
    BY PIMChannelAssumption DEF PIMInv
  <2>2. QueuedCount = Cardinality(flight)
    BY <2>1, CountIs DEF QueuedCount
  <2>3. Queued = flight
    <3>1. \A a : a \in flight <=> \E p \in Places : a \in Holds(ch)[p]
      BY <2>1 DEF ChannelOK, Partitions
    <3>2. \A a : a \in Queued <=> \E p \in Places : a \in Holds(ch)[p]
      BY HoldsAt DEF Queued
    <3> QED
      BY <3>1, <3>2
  <2> QED
    BY <2>2, <2>3 DEF EachInOneQueue
<1> QED
  BY <1>1, ChannelStays, PTL

\* An access is never parked behind one with a later deadline, so that
\* looking at the head of _pim_hold_queues is enough.
THEOREM HoldIsOrdered == PIMSpec => []HeldInOrder
<1>1. PIMInv => HeldInOrder
  BY DEF PIMInv, ChannelOK, Ordered, HeldInOrder
<1> QED
  BY <1>1, ChannelStays, PTL
=============================================================================
