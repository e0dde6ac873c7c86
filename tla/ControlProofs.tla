--------------------------- MODULE ControlProofs ----------------------------
(***************************************************************************)
(* Theorems about the small controls, for every value of their constants.  *)
(* The two drafting controls of the overlay: EDC, polled for the rounds of  *)
(* all requests (DraftControl), and TVC, which decides whether a            *)
(* pre-verification fits (VerifyControl).  Two parts of the PIM device that *)
(* keep clocks and queues of their own: the clock domain crosser never lets *)
(* the memory drift from the host and the address schemes are one-to-one    *)
(* (AddressMap), and the scheduler of the gated tasks serves them in order, *)
(* for exactly their cycles, on powered ranks (GatedTasks).                 *)
(*                                                                         *)
(* EDC is a function on its state, so the invariant is one of a state       *)
(* (EdcOK), kept by a poll and by a verification; the polls that plan a     *)
(* round are a recursive function of their number, and what they do follows *)
(* by induction on it (PollsOK).                                           *)
(***************************************************************************)
EXTENDS DraftControl, VerifyControl, GatedTasks, AddressMap, DataFacts

-----------------------------------------------------------------------------
(* EDC.                                                                    *)

\* The slots the next n polls after the committed history write.
Ahead(e, n) == {(e.commitPtr + i) % LehtSize : i \in 0 .. n - 1}

\* The state of EDC: the LLR counts the pending predictions, and the working
\* history is the committed one with as many polls on top.
EdcOK(e) ==
    /\ e \in [leht : Histories, ptr : Slots, lceht : Histories, commitPtr : Slots,
              llr : Nat, pht : {e.pht}, pending : {e.pending}]
    /\ \E T : e.pending \in Seq(T)
    /\ e.llr = IF Len(e.pending) < LlrMax THEN Len(e.pending) ELSE LlrMax
    /\ e.ptr = (e.commitPtr + Len(e.pending)) % LehtSize
    /\ \A i \in Slots : e.leht[i] # e.lceht[i] => i \in Ahead(e, Len(e.pending))

\* The fields of such a state.
LEMMA EdcFields ==
    ASSUME NEW e, EdcOK(e)
    PROVE  /\ e.leht \in Histories /\ e.lceht \in Histories
           /\ e.ptr \in Slots /\ e.commitPtr \in Slots /\ e.llr \in Nat
           /\ Len(e.pending) \in Nat
           /\ Slots = 0 .. LehtSize - 1 /\ LehtSize \in Nat \ {0}
           /\ LlrMax \in Nat
<1>1. Len(e.pending) \in Nat
  BY LenProperties DEF EdcOK
<1>2. LlrMax \in Nat
  BY PowerOfTwo, EdcAssumption DEF LlrMax
<1> QED
  BY <1>1, <1>2, EdcAssumption DEF EdcOK, Slots

LEMMA FreshOK == EdcOK(EdcFresh)
<1>1. <<>> \in Seq({}) /\ Len(<<>>) = 0
  BY EmptySeq
<1>2. LlrMax \in Nat
  BY PowerOfTwo, EdcAssumption DEF LlrMax
<1>3. LehtSize \in Nat \ {0}
  BY EdcAssumption
<1> QED
  BY <1>1, <1>2, <1>3
     DEF EdcFresh, EdcOK, Histories, Slots, Buckets

\* A poll adds one pending prediction and writes the next slot of the history.
LEMMA PollOK ==
    ASSUME NEW e, EdcOK(e), NEW bucket \in Buckets
    PROVE  /\ EdcOK(Poll(e, bucket))
           /\ Len(Poll(e, bucket).pending) = Len(e.pending) + 1
<1> DEFINE d == Poll(e, bucket)
           n == Len(e.pending)
           x == [index |-> PhtIndex(d.leht, d.llr),
                 go |-> Counter(e.pht, PhtIndex(d.leht, d.llr)) >= WEAKLY_TAKEN]
<1>1. /\ e.leht \in Histories /\ e.lceht \in Histories
      /\ e.ptr \in Slots /\ e.commitPtr \in Slots /\ e.llr \in Nat /\ n \in Nat
      /\ Slots = 0 .. LehtSize - 1 /\ LehtSize \in Nat \ {0} /\ LlrMax \in Nat
  BY EdcFields
<1>2. PICK T : e.pending \in Seq(T)
  BY DEF EdcOK
<1>3. /\ d.leht = [e.leht EXCEPT ![e.ptr] = bucket]
      /\ d.llr = IF e.llr < LlrMax THEN e.llr + 1 ELSE e.llr
      /\ d.ptr = (e.ptr + 1) % LehtSize
      /\ d.pending = Append(e.pending, x)
      /\ d.lceht = e.lceht /\ d.commitPtr = e.commitPtr
      /\ d \in [leht : {d.leht}, ptr : {d.ptr}, lceht : {d.lceht},
                commitPtr : {d.commitPtr}, llr : {d.llr}, pht : {d.pht},
                pending : {d.pending}]
  BY DEF Poll, EdcOK
<1> HIDE DEF d, x
<1>4. /\ e.pending \in Seq(T \cup {x}) /\ x \in T \cup {x}
  BY <1>2, SeqMonotonic
<1>5. d.pending \in Seq(T \cup {x}) /\ Len(d.pending) = n + 1
  BY <1>3, <1>4, AppendProperties
<1> HIDE DEF n
<1>6. d.llr = IF n + 1 < LlrMax THEN n + 1 ELSE LlrMax
  BY <1>1, <1>3, SMTT(30) DEF EdcOK, n
<1>7. d.ptr = (d.commitPtr + (n + 1)) % LehtSize /\ d.ptr \in Slots
  <2>1. e.ptr = (e.commitPtr + n) % LehtSize
    BY DEF EdcOK, n
  <2>2. e.commitPtr + n \in Nat
    BY <1>1
  <2>3. (((e.commitPtr + n) % LehtSize) + 1) % LehtSize = (e.commitPtr + n + 1) % LehtSize
    BY <1>1, <2>2, RingStep
  <2>4. e.commitPtr + n + 1 = e.commitPtr + (n + 1)
    BY <1>1
  <2>5. d.ptr \in 0 .. LehtSize - 1
    BY <1>1, <1>3, SMTT(30)
  <2> QED
    BY <1>1, <1>3, <2>1, <2>3, <2>4, <2>5
<1>8. \A i \in Slots : d.leht[i] # d.lceht[i] => i \in Ahead(d, n + 1)
  <2> SUFFICES ASSUME NEW i \in Slots, d.leht[i] # d.lceht[i]
               PROVE  i \in Ahead(d, n + 1)
    OBVIOUS
  <2>1. CASE i = e.ptr
    <3>1. i = (d.commitPtr + n) % LehtSize
      BY <1>3, <2>1 DEF EdcOK, n
    <3>2. n \in 0 .. (n + 1) - 1
      BY <1>1
    <3> QED
      BY <3>1, <3>2 DEF Ahead
  <2>2. CASE i # e.ptr
    <3>1. e.leht[i] # e.lceht[i]
      BY <1>1, <1>3, <2>2 DEF Histories
    <3>2. PICK j \in 0 .. n - 1 : i = (e.commitPtr + j) % LehtSize
      BY <3>1 DEF EdcOK, Ahead, n
    <3>3. j \in 0 .. (n + 1) - 1
      BY <1>1
    <3> QED
      BY <1>3, <3>2, <3>3 DEF Ahead
  <2> QED
    BY <2>1, <2>2
<1>9. d.leht \in Histories /\ d.llr \in Nat
  BY <1>1, <1>3, SMTT(30) DEF Histories
<1> QED
  BY <1>1, <1>3, <1>5, <1>6, <1>7, <1>8, <1>9 DEF EdcOK, d, n

\* A verification, of a round or of a prefix, clears the pending predictions
\* and makes the two histories equal, whichever one it keeps.
LEMMA UpdateOK ==
    ASSUME NEW e, EdcOK(e), NEW full \in BOOLEAN, NEW accepted
    PROVE  /\ EdcOK(UpdateOnVerification(e, full, accepted))
           /\ UpdateOnVerification(e, full, accepted).pending = <<>>
<1> DEFINE d == UpdateOnVerification(e, full, accepted)
<1>1. /\ e.leht \in Histories /\ e.lceht \in Histories
      /\ e.ptr \in Slots /\ e.commitPtr \in Slots
      /\ Slots = 0 .. LehtSize - 1 /\ LehtSize \in Nat \ {0} /\ LlrMax \in Nat
  BY EdcFields
<1>2. /\ d.pending = <<>> /\ d.llr = 0
      /\ d.leht = d.lceht /\ d.ptr = d.commitPtr
      /\ d.leht \in {e.leht, e.lceht} /\ d.ptr \in {e.ptr, e.commitPtr}
      /\ d \in [leht : {d.leht}, ptr : {d.ptr}, lceht : {d.lceht},
                commitPtr : {d.commitPtr}, llr : {d.llr}, pht : {d.pht},
                pending : {d.pending}]
  BY DEF UpdateOnVerification, EdcOK
<1>3. <<>> \in Seq({}) /\ Len(<<>>) = 0
  BY EmptySeq
<1> HIDE DEF d
<1>4. d.ptr = (d.commitPtr + 0) % LehtSize
  BY <1>1, <1>2, SMTT(30)
<1>5. \E T : d.pending \in Seq(T)
  BY <1>2, <1>3
<1>6. d \in [leht : Histories, ptr : Slots, lceht : Histories, commitPtr : Slots,
             llr : Nat, pht : {d.pht}, pending : {d.pending}]
  BY <1>1, <1>2
<1>7. EdcOK(d)
  BY <1>1, <1>2, <1>3, <1>4, <1>5, <1>6 DEF EdcOK
<1> QED
  BY <1>2, <1>7 DEF d

-----------------------------------------------------------------------------
(* The polls that plan a round.                                            *)

\* g is the state after every number of polls up to m.
PollsFrom(e, bucket, m, g) ==
    g = [n \in 0 .. m |-> IF n = 0 THEN e ELSE Poll(g[n - 1], bucket)]

\* The recursion of PlanOf has a solution.
LEMMA PollsExist ==
    ASSUME NEW e, NEW bucket
    PROVE  \A m \in Nat : \E g : PollsFrom(e, bucket, m, g)
<1> DEFINE P == {m \in Nat : \E g : PollsFrom(e, bucket, m, g)}
<1>1. 0 \in P
  <2> DEFINE g == [n \in 0 .. 0 |-> e]
  <2>1. PollsFrom(e, bucket, 0, g)
    BY DEF PollsFrom
  <2> QED
    BY <2>1
<1>2. ASSUME NEW m \in Nat, m \in P PROVE m + 1 \in P
  <2>1. PICK g : PollsFrom(e, bucket, m, g)
    BY <1>2
  <2> DEFINE h == [n \in 0 .. m + 1 |-> IF n <= m THEN g[n] ELSE Poll(g[m], bucket)]
  <2>2. \A n \in 0 .. m : g[n] = IF n = 0 THEN e ELSE Poll(g[n - 1], bucket)
    BY <2>1 DEF PollsFrom
  <2>3. ASSUME NEW n \in 0 .. m + 1
        PROVE  h[n] = IF n = 0 THEN e ELSE Poll(h[n - 1], bucket)
    <3>1. CASE n = 0
      BY <2>2, <3>1
    <3>2. CASE n \in 1 .. m
      <4>1. n - 1 \in 0 .. m /\ n - 1 \in 0 .. m + 1 /\ n \in 0 .. m
        BY <3>2
      <4>2. h[n] = g[n] /\ h[n - 1] = g[n - 1]
        BY <4>1
      <4> QED
        BY <2>2, <3>2, <4>1, <4>2
    <3>3. CASE n = m + 1
      <4>1. h[n] = Poll(g[m], bucket) /\ h[n - 1] = g[m] /\ n # 0
        BY <3>3
      <4> QED
        BY <4>1
    <3> QED
      BY <3>1, <3>2, <3>3
  <2>4. h = [n \in 0 .. m + 1 |-> h[n]]
    OBVIOUS
  <2> HIDE DEF h
  <2>5. PollsFrom(e, bucket, m + 1, h)
    BY <2>3, <2>4 DEF PollsFrom
  <2> QED
    BY <2>5
<1> HIDE DEF P
<1>3. \A m \in Nat : m \in P
  BY <1>1, <1>2, NatSetInduction
<1> QED
  BY <1>3 DEF P

\* What n polls do to a state of EDC.
LEMMA PollsOK ==
    ASSUME NEW e, EdcOK(e), NEW bucket \in Buckets, NEW m \in Nat,
           NEW g, PollsFrom(e, bucket, m, g)
    PROVE  \A n \in 0 .. m :
             EdcOK(g[n]) /\ Len(g[n].pending) = Len(e.pending) + n
<1> DEFINE Good(n) == EdcOK(g[n]) /\ Len(g[n].pending) = Len(e.pending) + n
           P == {n \in Nat : n <= m => Good(n)}
<1>1. \A n \in 0 .. m : g[n] = IF n = 0 THEN e ELSE Poll(g[n - 1], bucket)
  BY DEF PollsFrom
<1>2. Len(e.pending) \in Nat
  BY EdcFields
<1>3. Good(0)
  BY <1>1, <1>2
<1>4. ASSUME NEW n \in Nat, n + 1 <= m, Good(n) PROVE Good(n + 1)
  <2> DEFINE a == g[n]
             b == g[n + 1]
  <2>1. EdcOK(a) /\ Len(a.pending) = Len(e.pending) + n
    BY <1>4
  <2>2. b = Poll(a, bucket)
    BY <1>1, <1>4
  <2> HIDE DEF a, b
  <2>3. EdcOK(b) /\ Len(b.pending) = Len(a.pending) + 1
    BY <2>1, <2>2, PollOK
  <2> DEFINE x == Len(e.pending)
             y == Len(a.pending)
             z == Len(b.pending)
  <2>5. x \in Nat /\ n \in Nat /\ y = x + n /\ z = y + 1
    BY <1>2, <1>4, <2>1, <2>3
  <2> HIDE DEF x, y, z
  <2>6. z = x + (n + 1)
    BY <2>5
  <2>4. Len(b.pending) = Len(e.pending) + (n + 1)
    BY <2>6 DEF x, z
  <2> QED
    BY <2>3, <2>4 DEF b
<1> HIDE DEF Good
<1>5. 0 \in P /\ \A n \in Nat : n \in P => n + 1 \in P
  BY <1>3, <1>4
<1> HIDE DEF P
<1>6. \A n \in Nat : n \in P
  BY <1>5, NatSetInduction
<1>7. \A n \in 0 .. m : Good(n)
  BY <1>6 DEF P
<1> QED
  BY <1>7 DEF Good

\* decide_draft_length leaves a state of EDC with as many more predictions as
\* it says it made polls.
LEMMA PlanOK ==
    ASSUME EdcOK(edc), NEW bucket \in Buckets, NEW cap \in 1 .. MaxDraft
    PROVE  LET p == PlanOf(bucket, cap)
           IN  /\ EdcOK(p.state) /\ p.polls \in Nat
               /\ Len(p.state.pending) = Len(edc.pending) + p.polls
<1> DEFINE G == CHOOSE g : PollsFrom(edc, bucket, MaxDraft, g)
           stops == {n \in 1 .. cap - 1 : ~Continues(G[n])}
           polls == IF stops = {} THEN cap - 1 ELSE Min(stops)
<1>1. MaxDraft \in Nat
  BY DraftControlAssumption
<1>2. PollsFrom(edc, bucket, MaxDraft, G)
  BY <1>1, PollsExist
<1>3. PlanOf(bucket, cap) =
        [k |-> IF stops = {} THEN cap ELSE polls, polls |-> polls, state |-> G[polls]]
  BY DEF PlanOf, PollsFrom
<1>4. polls \in 0 .. MaxDraft
  <2>1. CASE stops = {}
    BY <1>1, <2>1
  <2>2. CASE stops # {}
    <3>1. stops \in SUBSET Nat
      OBVIOUS
    <3>2. Min(stops) \in stops
      BY <2>2, <3>1, MinIs
    <3>3. stops \subseteq 0 .. MaxDraft
      BY <1>1
    <3> HIDE DEF stops
    <3> QED
      BY <2>2, <3>2, <3>3
  <2> QED
    BY <2>1, <2>2
<1> HIDE DEF G, stops, polls
<1>5. EdcOK(G[polls]) /\ Len(G[polls].pending) = Len(edc.pending) + polls
  BY <1>1, <1>2, <1>4, PollsOK
<1> QED
  BY <1>3, <1>4, <1>5

-----------------------------------------------------------------------------
(* The rounds of all requests.                                             *)

RoundStages == {"idle", "planned", "preverified"}

\* The polls of request r's open round.
PollsOf(rd) ==
    [r \in Requests |-> IF rd[r].stage # "idle" THEN rd[r].polls ELSE 0]

\* The inductive invariant of DraftControl.
ControlInv ==
    /\ EdcOK(edc)
    /\ round \in [Requests -> [stage : RoundStages, k : Int, polls : Nat,
                               hist : Histories]]
    /\ Len(edc.pending) <= SumOver(PollsOf(round), Requests)

\* The sum of PendingBounded.
LEMMA PollSum ==
    MapThenSumSet(LAMBDA r : IF Open(r) THEN round[r].polls ELSE 0, Requests)
      = SumOver(PollsOf(round), Requests)
<1>1. MapThenSumSet(LAMBDA r : IF Open(r) THEN round[r].polls ELSE 0, Requests)
        = SumOver([r \in Requests |-> IF Open(r) THEN round[r].polls ELSE 0], Requests)
  BY ZenonT(30) DEF MapThenSumSet, MapThenFoldSet, SumOver, Partial, Solves, Elem
<1>2. [r \in Requests |-> IF Open(r) THEN round[r].polls ELSE 0] = PollsOf(round)
  BY DEF PollsOf, Open
<1> QED
  BY <1>1, <1>2

LEMMA PollsTypes ==
    ASSUME NEW rd \in [Requests -> [stage : RoundStages, k : Int, polls : Nat,
                                    hist : Histories]]
    PROVE  PollsOf(rd) \in [Requests -> Nat] /\ SumOver(PollsOf(rd), Requests) \in Nat
<1>1. PollsOf(rd) \in [Requests -> Nat]
  BY DEF PollsOf
<1> QED
  BY <1>1, SumType, DraftControlAssumption

LEMMA ControlStarts == ControlInit => ControlInv
<1> SUFFICES ASSUME ControlInit PROVE ControlInv
  OBVIOUS
<1>1. EdcOK(edc) /\ Len(edc.pending) = 0 /\ EdcFresh.leht \in Histories
  <2>1. Len(EdcFresh.pending) = 0 /\ EdcFresh.leht \in Histories
    BY EmptySeq DEF EdcFresh, Histories, Slots, Buckets
  <2> QED
    BY <2>1, FreshOK DEF ControlInit
<1>2. round \in [Requests -> [stage : RoundStages, k : Int, polls : Nat,
                              hist : Histories]]
  BY <1>1 DEF ControlInit, NoRound, RoundStages
<1>3. SumOver(PollsOf(round), Requests) \in Nat
  BY <1>2, PollsTypes
<1> QED
  BY <1>1, <1>2, <1>3 DEF ControlInv

\* Planning a round.
LEMMA PlanStep ==
    ASSUME ControlInv, NEW r \in Requests, NEW cap \in 1 .. MaxDraft, Plan(r, cap)
    PROVE  ControlInv'
<1>1. PICK bucket \in EntropyBuckets :
        LET p == PlanOf(bucket, cap)
        IN  /\ edc' = p.state
            /\ round' = [round EXCEPT ![r] =
                           [stage |-> "planned", k |-> p.k, polls |-> p.polls,
                            hist |-> edc.leht]]
  BY DEF Plan
<1> DEFINE p == PlanOf(bucket, cap)
<1>2. /\ round \in [Requests -> [stage : RoundStages, k : Int, polls : Nat,
                                 hist : Histories]]
      /\ EdcOK(edc) /\ Len(edc.pending) <= SumOver(PollsOf(round), Requests)
      /\ round[r].stage = "idle" /\ edc.leht \in Histories
      /\ Len(edc.pending) \in Nat
  BY EdcFields DEF ControlInv, Plan
<1>3. /\ EdcOK(p.state) /\ p.polls \in Nat
      /\ Len(p.state.pending) = Len(edc.pending) + p.polls
  BY <1>2, PlanOK, DraftControlAssumption
<1>4. p.k \in Int
  <2>1. p.k \in {cap, p.polls}
    BY DEF PlanOf
  <2> QED
    BY <1>3, <2>1
<1> HIDE DEF p
<1>5. /\ edc' = p.state
      /\ round' = [round EXCEPT ![r] = [stage |-> "planned", k |-> p.k,
                                        polls |-> p.polls, hist |-> edc.leht]]
  BY <1>1 DEF p
<1>6. round' \in [Requests -> [stage : RoundStages, k : Int, polls : Nat,
                               hist : Histories]]
  BY <1>2, <1>3, <1>4, <1>5 DEF RoundStages
<1>7. SumOver(PollsOf(round'), Requests) = SumOver(PollsOf(round), Requests) + p.polls
  <2> DEFINE f == PollsOf(round)
             g == PollsOf(round')
  <2>1. f \in [Requests -> Nat] /\ g \in [Requests -> Nat]
    BY <1>2, <1>6, PollsTypes
  <2>2. f[r] = 0 /\ g[r] = p.polls /\ \A y \in Requests \ {r} : g[y] = f[y]
    BY <1>2, <1>5 DEF PollsOf
  <2> HIDE DEF f, g
  <2>3. /\ SumOver(g, Requests) = (SumOver(f, Requests) - f[r]) + g[r]
        /\ SumOver(f, Requests) \in Nat
    BY <2>1, <2>2, SumUpdate, DraftControlAssumption
  <2> QED
    BY <1>3, <2>2, <2>3 DEF f, g
<1>8. SumOver(PollsOf(round), Requests) \in Nat
  BY <1>2, PollsTypes
<1>9. EdcOK(edc') /\ Len(edc'.pending) = Len(edc.pending) + p.polls
  BY <1>3, <1>5
<1>10. Len(edc.pending) + p.polls <= SumOver(PollsOf(round), Requests) + p.polls
  BY <1>2, <1>3, <1>8
<1> QED
  BY <1>6, <1>7, <1>9, <1>10 DEF ControlInv

\* A verification, of a prefix or of the round.
LEMMA OutcomeStep ==
    ASSUME ControlInv, NEW r \in Requests,
           PreVerify(r) \/ \E accepted \in 0 .. round[r].k : Verify(r, accepted)
    PROVE  ControlInv'
<1>1. /\ round \in [Requests -> [stage : RoundStages, k : Int, polls : Nat,
                                 hist : Histories]]
      /\ EdcOK(edc)
  BY DEF ControlInv
<1>2. \E full \in BOOLEAN : \E accepted : edc' = UpdateOnVerification(edc, full, accepted)
  BY DEF PreVerify, Verify
<1>3. EdcOK(edc') /\ edc'.pending = <<>>
  BY <1>1, <1>2, UpdateOK
<1>4. EdcFresh.leht \in Histories
  BY FreshOK, EdcFields
<1>5. round' \in [Requests -> [stage : RoundStages, k : Int, polls : Nat,
                               hist : Histories]]
  BY <1>1, <1>4 DEF PreVerify, Verify, NoRound, RoundStages
<1>6. SumOver(PollsOf(round'), Requests) \in Nat
  BY <1>5, PollsTypes
<1>7. Len(edc'.pending) = 0
  BY <1>3, EmptySeq
<1> QED
  BY <1>3, <1>5, <1>6, <1>7 DEF ControlInv

LEMMA ControlStep == ControlInv /\ [ControlNext]_controlVars => ControlInv'
<1> SUFFICES ASSUME ControlInv, [ControlNext]_controlVars PROVE ControlInv'
  OBVIOUS
<1>1. CASE \E r \in Requests, cap \in 1 .. MaxDraft : Plan(r, cap)
  BY <1>1, PlanStep
<1>2. CASE \E r \in Requests :
             PreVerify(r) \/ \E accepted \in 0 .. round[r].k : Verify(r, accepted)
  BY <1>2, OutcomeStep
<1>3. CASE UNCHANGED controlVars
  BY <1>3 DEF ControlInv, controlVars
<1> QED
  BY <1>1, <1>2, <1>3 DEF ControlNext

THEOREM ControlStays == ControlSpec => []ControlInv
BY ControlStarts, ControlStep, PTL DEF ControlSpec

\* The leading length register and the list of pending predictions are two
\* counts of the same polls, whatever requests they were made for.
THEOREM LlrTracks == ControlSpec => []LlrTracksPending
<1>1. ControlInv => LlrTracksPending
  BY DEF ControlInv, EdcOK, LlrTracksPending
<1> QED
  BY <1>1, ControlStays, PTL

\* The working history is the committed one with the pending polls on top:
\* a rollback of the pointer and of the ring restores a state that was.
THEOREM HistoryStaysAhead == ControlSpec => []HistoryAhead
<1>1. ControlInv => HistoryAhead
  BY DEF ControlInv, EdcOK, HistoryAhead, Ahead
<1> QED
  BY <1>1, ControlStays, PTL

\* The unbounded vector of pending predictions stays within the polls of the
\* rounds in flight.
THEOREM PendingStaysBounded == ControlSpec => []PendingBounded
<1>1. ControlInv => PendingBounded
  BY PollSum DEF ControlInv, PendingBounded
<1> QED
  BY <1>1, ControlStays, PTL

-----------------------------------------------------------------------------
(* The ratios of TVC.                                                      *)

Fractions == Nat \X (Nat \ {0})

LEMMA PlusOK ==
    ASSUME NEW a \in Fractions, NEW b \in Fractions
    PROVE  Plus(a, b) \in Fractions /\ (b[1] > 0 => Plus(a, b)[1] > 0)
<1>1. a[1] \in Nat /\ a[2] \in Nat \ {0} /\ b[1] \in Nat /\ b[2] \in Nat \ {0}
  BY DEF Fractions
<1>2. /\ a[1] * b[2] \in Nat /\ b[1] * a[2] \in Nat /\ a[2] * b[2] \in Nat \ {0}
      /\ b[1] > 0 => b[1] * a[2] > 0
  BY <1>1
<1> QED
  BY <1>2 DEF Plus, Fractions

\* The sum of a sequence of ratios is one, and not zero if one of them is not.
LEMMA RatiosOK ==
    ASSUME NEW n \in Nat, NEW q \in [1 .. n -> Fractions]
    PROVE  /\ FoldLeft(Plus, <<0, 1>>, q) \in Fractions
           /\ n > 0 /\ (\A i \in 1 .. n : q[i][1] > 0)
                => FoldLeft(Plus, <<0, 1>>, q)[1] > 0
<1> DEFINE S == 1 .. n
           Sol(g) == g = [s \in SUBSET S |->
                            IF s = {} THEN <<0, 1>>
                            ELSE Plus(g[s \ {Max(s)}], q[Max(s)])]
           G == CHOOSE g : Sol(g)
           sound(s) == /\ G[s] \in Fractions
                       /\ s # {} /\ (\A i \in s : q[i][1] > 0) => G[s][1] > 0
           P == {s \in SUBSET S : sound(s)}
<1>1. FoldLeft(Plus, <<0, 1>>, q) = G[S]
  BY DEF FoldLeft, MapThenFoldSet
<1>2. IsFiniteSet(S)
  BY FS_Interval
<1>3. \A s \in SUBSET S : s # {} => Max(s) \in s
  <2> SUFFICES ASSUME NEW s \in SUBSET S, s # {} PROVE Max(s) \in s
    OBVIOUS
  <2>1. s \in SUBSET Nat /\ \A y \in s : y <= n
    OBVIOUS
  <2> HIDE DEF S
  <2> QED
    BY <2>1, MaxIs
<1>4. <<0, 1>> \in Fractions
  BY DEF Fractions
<1>5. \E g : Sol(g)
  <2> DEFINE c == [s \in SUBSET S |-> Max(s)]
             h == [p \in (SUBSET S) \X Fractions |->
                     IF p[1] = {} THEN <<0, 1>> ELSE Plus(p[2], q[Max(p[1])])]
  <2>1. h \in [(SUBSET S) \X Fractions -> Fractions]
    <3>1. ASSUME NEW s \in SUBSET S, NEW f \in Fractions, s # {}
          PROVE  Plus(f, q[Max(s)]) \in Fractions
      <4>1. q[Max(s)] \in Fractions
        BY <1>3, <3>1
      <4> QED
        BY <4>1, PlusOK
    <3> QED
      BY <1>4, <3>1
  <2>2. Takes(c, S)
    BY <1>3 DEF Takes
  <2>3. \A s \in SUBSET S, f \in Fractions :
          s # {} => h[<<s, f>>] = Plus(f, q[Max(s)]) /\ c[s] = Max(s)
    OBVIOUS
  <2> DEFINE zero == <<0, 1>>
  <2> HIDE DEF S, c, h
  <2>4. PICK g \in [SUBSET S -> Fractions] : \A s \in SUBSET S :
          g[s] = IF s = {} THEN <<0, 1>> ELSE h[<<s, g[s \ {c[s]}]>>]
    <3>1. zero \in Fractions
      BY <1>4
    <3> HIDE DEF zero
    <3>2. \E g \in [SUBSET S -> Fractions] : FoldsTo(g, S, zero, c, h)
      BY <1>2, <2>1, <2>2, <3>1, FoldExists
    <3> QED
      BY <3>2 DEF zero, FoldsTo
  <2>5. ASSUME NEW s \in SUBSET S
        PROVE  g[s] = IF s = {} THEN <<0, 1>> ELSE Plus(g[s \ {Max(s)}], q[Max(s)])
    <3>1. g[s \ {c[s]}] \in Fractions
      OBVIOUS
    <3> QED
      BY <2>3, <2>4, <3>1
  <2>6. g = [s \in SUBSET S |-> g[s]]
    OBVIOUS
  <2>7. Sol(g)
    BY <2>5, <2>6
  <2> QED
    BY <2>7
<1>6. Sol(G)
  BY <1>5
<1>7. \A s \in SUBSET S :
        G[s] = IF s = {} THEN <<0, 1>> ELSE Plus(G[s \ {Max(s)}], q[Max(s)])
  BY <1>6
<1> HIDE DEF G, Sol
<1>8. ASSUME NEW s \in SUBSET S, \A v \in SUBSET s : v # s => v \in P
      PROVE  s \in P
  <2>1. CASE s = {}
    BY <1>4, <1>7, <2>1
  <2>2. CASE s # {}
    <3> DEFINE m == Max(s)
               v == s \ {m}
    <3>1. m \in s /\ q[m] \in Fractions
      BY <1>3, <2>2
    <3>2. G[v] \in Fractions
      BY <1>8, <3>1
    <3>3. G[s] = Plus(G[v], q[m])
      BY <1>7, <2>2
    <3> HIDE DEF m, v
    <3>4. G[s] \in Fractions /\ (q[m][1] > 0 => G[s][1] > 0)
      BY <3>1, <3>2, <3>3, PlusOK
    <3> QED
      BY <3>1, <3>4
  <2> QED
    BY <2>1, <2>2
<1>9. S \in P
  <2> HIDE DEF P, S
  <2> QED
    BY <1>2, <1>8, SubsetInduction
<1> HIDE DEF S
<1>10. sound(S)
  BY <1>9
<1>11. n > 0 => S # {}
  <2>1. n > 0 => 1 \in S
    BY DEF S
  <2> QED
    BY <2>1
<1> QED
  BY <1>1, <1>10, <1>11 DEF S

\* The samples of a table; those of the drafting table have a length.
Samples == [cycles : Nat \ {0}, length : Nat]
FullSamples == [cycles : Nat \ {0}, length : Nat \ {0}]

LEMMA RatioOK ==
    ASSUME NEW x \in Samples
    PROVE  Ratio(x) \in Fractions /\ (x.length > 0 => Ratio(x)[1] > 0)
BY DEF Ratio, Samples, Fractions

\* The mean of the samples of a table.
LEMMA AvgOK ==
    ASSUME NEW table \in Seq(Samples)
    PROVE  /\ AvgRatio(table) \in Fractions
           /\ table # <<>> /\ table \in Seq(FullSamples) => AvgRatio(table)[1] > 0
<1>1. CASE table = <<>>
  BY <1>1 DEF AvgRatio, Fractions
<1>2. CASE table # <<>>
  <2> DEFINE n == Len(table)
             q == [i \in 1 .. n |-> Ratio(table[i])]
             sum == FoldLeft(Plus, <<0, 1>>, q)
  <2>1. n \in Nat \ {0} /\ \A i \in 1 .. n : table[i] \in Samples
    BY <1>2, LenProperties, EmptySeq, ElementOfSeq
  <2>2. q \in [1 .. n -> Fractions] /\ \A i \in 1 .. n : q[i] = Ratio(table[i])
    BY <2>1, RatioOK
  <2>3. AvgRatio(table) = <<sum[1], sum[2] * n>>
    BY <1>2 DEF AvgRatio
  <2>4. ASSUME table \in Seq(FullSamples) PROVE \A i \in 1 .. n : q[i][1] > 0
    <3>2. \A i \in 1 .. n : table[i] \in FullSamples
      BY <2>4, ElementOfSeq
    <3>1. \A i \in 1 .. n : table[i].length > 0
      BY <3>2 DEF FullSamples
    <3> QED
      BY <2>1, <2>2, <3>1, RatioOK
  <2> HIDE DEF n, q
  <2>5. /\ sum \in Fractions
        /\ (\A i \in 1 .. n : q[i][1] > 0) => sum[1] > 0
    BY <2>1, <2>2, RatiosOK
  <2> HIDE DEF sum
  <2>6. sum[1] \in Nat /\ sum[2] \in Nat \ {0} /\ sum[2] * n \in Nat \ {0}
    <3>1. sum[1] \in Nat /\ sum[2] \in Nat \ {0}
      BY <2>5 DEF Fractions
    <3> QED
      BY <2>1, <3>1
  <2> QED
    BY <2>3, <2>4, <2>5, <2>6 DEF Fractions
<1> QED
  BY <1>1, <1>2

-----------------------------------------------------------------------------
(* TVC's decision.                                                         *)

\* The state of TVC.
TvcStates ==
    [nvct : Seq(Samples), pdct : Seq(FullSamples), pvct : Seq(Samples),
     ncr : Nat, start : Nat]

\* Rounding a product of a ratio down.
LEMMA FloorOK ==
    ASSUME NEW a \in Nat, NEW b \in Nat \ {0}
    PROVE  Floor(<<a, b>>) \in Nat
BY DEF Floor

\* The quantities of the decision.
LEMMA PredictionsOK ==
    ASSUME NEW t \in TvcStates, NEW kv \in Nat
    PROVE  /\ PredictedNpuCycles(t, kv) \in Nat /\ OneDraftCycles(t) \in Nat
           /\ PreVerifyRatio(t)[1] \in Nat /\ PreVerifyRatio(t)[2] \in Nat \ {0}
           /\ t.pdct # <<>> => PreVerifyRatio(t)[1] > 0
<1>0. t.nvct \in Seq(Samples) /\ t.pdct \in Seq(FullSamples) /\ t.pvct \in Seq(Samples)
  BY DEF TvcStates
<1>1. t.pdct \in Seq(Samples)
  <2>1. FullSamples \subseteq Samples
    BY DEF FullSamples, Samples
  <2> QED
    BY <1>0, <2>1, SeqMonotonic
<1> DEFINE n == AvgRatio(t.nvct)
           d == AvgRatio(t.pdct)
           v == AvgRatio(t.pvct)
<1>2. /\ n \in Fractions /\ d \in Fractions /\ v \in Fractions
      /\ t.pdct # <<>> => d[1] > 0
  BY <1>0, <1>1, AvgOK
<1> HIDE DEF n, d, v
<1>3. /\ n[1] \in Nat /\ n[2] \in Nat \ {0} /\ d[1] \in Nat /\ d[2] \in Nat \ {0}
      /\ v[1] \in Nat /\ v[2] \in Nat \ {0} /\ d = <<d[1], d[2]>>
  BY <1>2 DEF Fractions
<1>4. FreqNum \in Nat \ {0} /\ FreqDen \in Nat \ {0}
  BY TvcAssumption
<1>5. PredictedNpuCycles(t, kv) \in Nat
  <2> DEFINE a == n[1] * kv * FreqNum
             b == n[2] * FreqDen
  <2>1. PredictedNpuCycles(t, kv) = Floor(<<a, b>>)
    BY DEF PredictedNpuCycles, n
  <2>2. a \in Nat /\ b \in Nat \ {0}
    BY <1>3, <1>4
  <2> HIDE DEF a, b
  <2> QED
    BY <2>1, <2>2, FloorOK
<1>6. OneDraftCycles(t) \in Nat
  <2>1. OneDraftCycles(t) = Floor(<<d[1], d[2]>>)
    BY <1>3 DEF OneDraftCycles, d
  <2> QED
    BY <1>3, <2>1, FloorOK
<1>7. PreVerifyRatio(t) = IF v[1] = 0 THEN <<d[1] * 4, d[2] * 5>> ELSE v
  BY DEF PreVerifyRatio, v, d
<1>8. /\ PreVerifyRatio(t)[1] \in Nat /\ PreVerifyRatio(t)[2] \in Nat \ {0}
      /\ t.pdct # <<>> => PreVerifyRatio(t)[1] > 0
  <2>1. CASE v[1] = 0
    <3>1. PreVerifyRatio(t)[1] = d[1] * 4 /\ PreVerifyRatio(t)[2] = d[2] * 5
      BY <1>7, <2>1
    <3> QED
      BY <1>2, <1>3, <3>1, SMTT(30)
  <2>2. CASE v[1] # 0
    <3>1. PreVerifyRatio(t)[1] = v[1] /\ PreVerifyRatio(t)[2] = v[2]
      BY <1>7, <2>2
    <3> QED
      BY <1>3, <2>2, <3>1
  <2> QED
    BY <2>1, <2>2
<1> QED
  BY <1>5, <1>6, <1>8

LEMMA DivOK == ASSUME NEW a \in Nat, NEW b \in Nat \ {0} PROVE a \div b \in Nat
OBVIOUS

\* A decision for more than one token fits the cycles the NPU has left.
LEMMA DecisionFits ==
    ASSUME NEW d, d.tvc \in TvcStates, d.kv \in Nat, d.k \in Nat,
           d.pv = DecidePreVerify(d.tvc, d.kv, d.k)
    PROVE  d.pv \in Nat /\ (d.pv > 1 => FitsLeft(d))
<1> DEFINE t == d.tvc
           P == PredictedNpuCycles(t, d.kv)
           O == OneDraftCycles(t)
           r == PreVerifyRatio(t)
           left == P - (t.ncr + O)
           fits == (left * r[2]) \div r[1]
           s == ShouldInsert(t, d.kv, d.k)
           cap == IF PreVerifyMax < d.k THEN PreVerifyMax ELSE d.k
           b == Clamp(0, cap, s)
<1>1. /\ P \in Nat /\ O \in Nat /\ r[1] \in Nat /\ r[2] \in Nat \ {0} /\ t.ncr \in Nat
      /\ t.pdct # <<>> => r[1] > 0
  BY PredictionsOK DEF TvcStates
<1>2. PreVerifyMax \in Nat /\ MinPreVerify \in Nat
  BY TvcAssumption
<1>3. d.pv = IF d.k < MinPreVerify THEN 0
             ELSE IF b >= d.k /\ d.k > 1 THEN d.k - 1 ELSE b
  BY DEF DecidePreVerify
<1>4. s = IF t.nvct = <<>> \/ t.pdct = <<>> \/ d.k = 0 \/ left <= 0 THEN 0
          ELSE Clamp(1, 8, IF fits < d.k THEN fits ELSE d.k)
  BY DEF ShouldInsert
<1>5. FitsLeft(d) <=> d.pv * r[1] <= (P - t.ncr - O) * r[2]
  BY DEF FitsLeft
<1> HIDE DEF P, O, r, s, cap, t
<1>6. left \in Int /\ left = P - t.ncr - O
  BY <1>1
<1> HIDE DEF left, fits
<1>7. s # 0 => left > 0 /\ r[1] > 0
  BY <1>1, <1>4, <1>6
<1>8. s # 0 => fits \in Nat
  <2> SUFFICES ASSUME s # 0 PROVE fits \in Nat
    OBVIOUS
  <2> DEFINE x == left * r[2]
  <2>0. left \in Nat
    BY <1>6, <1>7
  <2>4. r[2] \in Nat
    BY <1>1
  <2>1. x \in Nat
    BY <2>0, <2>4, TimesNat
  <2>2. r[1] \in Nat \ {0}
    BY <1>1, <1>7
  <2> HIDE DEF x
  <2>3. x \div r[1] \in Nat
    BY <2>1, <2>2, DivOK
  <2> QED
    BY <2>3 DEF x, fits
<1>9. s \in Nat
  <2>1. s = 0 \/ (s # 0 /\ s = Clamp(1, 8, IF fits < d.k THEN fits ELSE d.k))
    BY <1>4
  <2> QED
    BY <1>8, <2>1 DEF Clamp
<1>10. cap \in Nat
  BY <1>2 DEF cap
<1>11. d.pv \in Nat /\ d.pv <= s
  <2>1. b \in Nat /\ b <= s
    BY <1>9, <1>10 DEF Clamp
  <2> HIDE DEF b
  <2>2. d.k \in Nat
    OBVIOUS
  <2>3. CASE d.pv = 0
    BY <1>9, <2>3
  <2>4. CASE d.pv = d.k - 1 /\ b >= d.k /\ d.k > 1
    BY <1>9, <2>1, <2>2, <2>4
  <2>5. CASE d.pv = b
    BY <2>1, <2>5
  <2> QED
    BY <1>3, <2>3, <2>4, <2>5
<1> SUFFICES ASSUME d.pv > 1 PROVE FitsLeft(d)
  BY <1>11
<1>12. s > 1 /\ s = Clamp(1, 8, IF fits < d.k THEN fits ELSE d.k)
  BY <1>4, <1>9, <1>11
<1>13. fits \in Nat /\ r[1] \in Nat \ {0} /\ left > 0
  BY <1>1, <1>7, <1>8, <1>12
<1>14. s <= fits
  <2> QED
    BY <1>9, <1>12, <1>13 DEF Clamp
<1>15. fits * r[1] <= left * r[2]
  <2> DEFINE x == left * r[2]
  <2>4. left \in Nat /\ r[2] \in Nat
    BY <1>1, <1>6, <1>13
  <2>1. x \in Nat
    BY <2>4, TimesNat
  <2> HIDE DEF x
  <2>2. (x \div r[1]) * r[1] <= x
    BY <1>13, <2>1
  <2>3. fits = x \div r[1]
    BY DEF x, fits
  <2> QED
    BY <2>2, <2>3 DEF x
<1>16. d.pv <= fits
  BY <1>9, <1>11, <1>13, <1>14
<1>17. d.pv * r[1] <= fits * r[1]
  BY <1>11, <1>13, <1>16
<1>18. d.pv * r[1] \in Nat
  BY <1>11, <1>13
<1>19. fits * r[1] \in Nat
  BY <1>13
<1>20. left * r[2] \in Nat
  <2>1. left \in Nat /\ r[2] \in Nat
    BY <1>1, <1>6, <1>13
  <2> QED
    BY <2>1, TimesNat
<1> QED
  BY <1>5, <1>6, <1>15, <1>17, <1>18, <1>19, <1>20

-----------------------------------------------------------------------------
(* TVC in its environment.                                                 *)

VerifyStages == {"idle", "draft", "await", "pre", "verify"}
VerifyRounds == [stage : VerifyStages, k : Nat, len : Nat, issued : Nat, pv : Nat,
                 asked : BOOLEAN]

\* What TVC answered is what it answers on the state it saw.
DecisionStands ==
    decision.pv > 1 =>
      /\ decision.tvc \in TvcStates /\ decision.kv \in Nat /\ decision.k \in Nat
      /\ decision.pv = DecidePreVerify(decision.tvc, decision.kv, decision.k)

\* The two clocks differ by the cycle that runs, and the register and the
\* start it is measured from are no later than the scheduler's.
ClocksAgree ==
    /\ cycle \in Nat
    /\ \/ step = "sched" /\ coreCycles = cycle
       \/ step = "finish" /\ cycle > 0 /\ coreCycles = cycle - 1
    /\ tvc.start \in 0 .. cycle /\ tvc.ncr \in 0 .. cycle

VcInv ==
    /\ tvc \in TvcStates
    /\ req \in [Clients -> VerifyRounds]
    /\ ClocksAgree
    /\ DecisionStands

LEMMA VcStarts == VcInit => VcInv
<1> SUFFICES ASSUME VcInit PROVE VcInv
  OBVIOUS
<1>1. TvcFresh \in TvcStates
  BY EmptySeq DEF TvcFresh, TvcStates
<1>2. Idle \in VerifyRounds
  BY VerifyControlAssumption DEF Idle, VerifyRounds, VerifyStages
<1>3. TvcFresh.start = 0 /\ TvcFresh.ncr = 0 /\ NoDecision.pv = 0
  BY DEF TvcFresh, NoDecision
<1> QED
  BY <1>1, <1>2, <1>3 DEF VcInit, VcInv, ClocksAgree, DecisionStands

\* A table takes a sample, and forgets its oldest ones.
LEMMA AddOK ==
    ASSUME NEW T, NEW table \in Seq(T), NEW c, NEW l, [cycles |-> c, length |-> l] \in T
    PROVE  AddToTable(table, c, l) \in Seq(T)
<1> DEFINE sample == [cycles |-> c, length |-> l]
           keep == IF Len(table) < TableSize THEN table
                   ELSE SubSeq(table, Len(table) - TableSize + 2, Len(table))
<1>1. keep \in Seq(T)
  <2>1. CASE Len(table) < TableSize
    BY <2>1
  <2>2. CASE ~(Len(table) < TableSize)
    <3> DEFINE m == Len(table) - TableSize + 2
               n == Len(table)
    <3>1. n \in Nat /\ m \in Nat \ {0}
      BY <2>2, LenProperties, TvcAssumption
    <3>2. \A i \in m .. n : i \in 1 .. Len(table)
      BY <3>1
    <3>3. \A i \in m .. n : table[i] \in T
      BY <3>2, ElementOfSeq
    <3>4. m \in Int /\ n \in Int
      BY <3>1
    <3> HIDE DEF m, n
    <3>5. SubSeq(table, m, n) \in Seq(T)
      BY <3>3, <3>4, SubSeqProperties
    <3> QED
      BY <2>2, <3>5 DEF m, n
  <2> QED
    BY <2>1, <2>2
<1>2. AddToTable(table, c, l) = Append(keep, sample)
  BY DEF AddToTable
<1>3. sample \in T
  OBVIOUS
<1> HIDE DEF keep, sample
<1> QED
  BY <1>1, <1>2, <1>3, AppendProperties

\* What a finished task leaves in the tables.
LEMMA RecordsOK ==
    ASSUME NEW t \in TvcStates, NEW c \in Nat \ {0}, NEW l \in Nat
    PROVE  \A u \in {RecordNpuVerification(t, c, l), RecordPimPreVerification(t, c, l),
                       RecordPimDrafting(t, c, 1)} :
                u \in TvcStates /\ u.ncr = t.ncr /\ u.start = t.start
<1>1. /\ t.nvct \in Seq(Samples) /\ t.pdct \in Seq(FullSamples) /\ t.pvct \in Seq(Samples)
      /\ t = [nvct |-> t.nvct, pdct |-> t.pdct, pvct |-> t.pvct, ncr |-> t.ncr,
              start |-> t.start]
      /\ t.ncr \in Nat /\ t.start \in Nat
  BY DEF TvcStates
<1>2. /\ [cycles |-> c, length |-> l] \in Samples
      /\ [cycles |-> c, length |-> 1] \in FullSamples
  BY DEF Samples, FullSamples
<1> DEFINE a == AddToTable(t.nvct, c, l)
           b == AddToTable(t.pvct, c, l)
           d == AddToTable(t.pdct, c, 1)
<1>3. a \in Seq(Samples) /\ b \in Seq(Samples) /\ d \in Seq(FullSamples)
  BY <1>1, <1>2, AddOK
<1>4. /\ RecordNpuVerification(t, c, l) = [t EXCEPT !.nvct = a]
      /\ RecordPimPreVerification(t, c, l) = [t EXCEPT !.pvct = b]
      /\ RecordPimDrafting(t, c, 1) = [t EXCEPT !.pdct = d]
  BY DEF RecordNpuVerification, RecordPimPreVerification, RecordPimDrafting
<1> DEFINE Kept(u) == u \in TvcStates /\ u.ncr = t.ncr /\ u.start = t.start
<1> HIDE DEF a, b, d
<1>5. Kept([t EXCEPT !.nvct = a])
  BY <1>1, <1>3 DEF TvcStates
<1>6. Kept([t EXCEPT !.pvct = b])
  BY <1>1, <1>3 DEF TvcStates
<1>7. Kept([t EXCEPT !.pdct = d])
  BY <1>1, <1>3 DEF TvcStates
<1> HIDE DEF Kept
<1>8. /\ Kept(RecordNpuVerification(t, c, l)) /\ Kept(RecordPimPreVerification(t, c, l))
      /\ Kept(RecordPimDrafting(t, c, 1))
  BY <1>4, <1>5, <1>6, <1>7
<1> QED
  BY <1>8 DEF Kept

\* The registers of TVC when a task starts, and when the beacon comes.
LEMMA RegistersOK ==
    ASSUME NEW t \in TvcStates, NEW a \in Nat
    PROVE  /\ StartNpuTask(t, a) \in TvcStates
           /\ StartNpuTask(t, a).start = a /\ StartNpuTask(t, a).ncr = 0
           /\ t.start <= a =>
                /\ UpdateNpuProgress(t, a) \in TvcStates
                /\ UpdateNpuProgress(t, a).start = t.start
                /\ UpdateNpuProgress(t, a).ncr = a - t.start
<1> DEFINE N == Seq(Samples)
           F == Seq(FullSamples)
           b == a - t.start
<1>1. /\ t.nvct \in N /\ t.pdct \in F /\ t.pvct \in N
      /\ t = [nvct |-> t.nvct, pdct |-> t.pdct, pvct |-> t.pvct, ncr |-> t.ncr,
              start |-> t.start]
      /\ t.ncr \in Nat /\ t.start \in Nat
  BY DEF TvcStates
<1>2. TvcStates = [nvct : N, pdct : F, pvct : N, ncr : Nat, start : Nat]
  BY DEF TvcStates
<1>3. t.start <= a => b \in Nat
  BY <1>1
<1>4. UpdateNpuProgress(t, a) = [t EXCEPT !.ncr = b]
  BY DEF UpdateNpuProgress
<1>5. StartNpuTask(t, a) = [t EXCEPT !.start = a, !.ncr = 0]
  BY DEF StartNpuTask
<1> HIDE DEF N, F, b
<1>6. /\ StartNpuTask(t, a) \in TvcStates
      /\ StartNpuTask(t, a).start = a /\ StartNpuTask(t, a).ncr = 0
  <2>1. [t EXCEPT !.start = a, !.ncr = 0] =
          [nvct |-> t.nvct, pdct |-> t.pdct, pvct |-> t.pvct, ncr |-> 0, start |-> a]
    <3> DEFINE u == [t EXCEPT !.start = a]
    <3>1. u = [nvct |-> t.nvct, pdct |-> t.pdct, pvct |-> t.pvct, ncr |-> t.ncr,
               start |-> a]
      BY <1>1
    <3> HIDE DEF u
    <3>2. [u EXCEPT !.ncr = 0] =
            [nvct |-> t.nvct, pdct |-> t.pdct, pvct |-> t.pvct, ncr |-> 0, start |-> a]
      BY <3>1
    <3> QED
      BY <3>2 DEF u
  <2> QED
    BY <1>1, <1>2, <1>5, <2>1
<1>7. ASSUME b \in Nat
      PROVE  /\ UpdateNpuProgress(t, a) \in TvcStates
             /\ UpdateNpuProgress(t, a).start = t.start
             /\ UpdateNpuProgress(t, a).ncr = b
  BY <1>1, <1>2, <1>4, <1>7
<1> QED
  BY <1>3, <1>6, <1>7 DEF b

LEMMA ElapsedOK ==
    ASSUME VcInv, NEW r \in Clients
    PROVE  Elapsed(r) \in Nat \ {0}
<1>1. cycle \in Nat /\ req[r].issued \in Nat
  BY DEF VcInv, ClocksAgree, VerifyRounds
<1> QED
  BY <1>1 DEF Elapsed

\* A cycle of the scheduler: time passes, and it may issue a task.
LEMMA SchedStep ==
    ASSUME VcInv, Sched
    PROVE  VcInv'
<1> DEFINE now == cycle + 1
<1>1. /\ tvc \in TvcStates /\ req \in [Clients -> VerifyRounds] /\ ClocksAgree
      /\ DecisionStands /\ cycle \in Nat /\ now \in Nat
  BY DEF VcInv, ClocksAgree
<1>2. /\ step = "sched" /\ cycle' = now /\ step' = "finish" /\ coreCycles' = coreCycles
      /\ coreCycles = cycle
  BY DEF Sched, VcInv, ClocksAgree
<1>3. tvc.start \in 0 .. cycle /\ tvc.ncr \in 0 .. cycle
  BY <1>1 DEF ClocksAgree
<1> HIDE DEF now
<1>4. ASSUME tvc' \in TvcStates, tvc'.start \in 0 .. now, tvc'.ncr \in 0 .. now
      PROVE  ClocksAgree'
  BY <1>1, <1>2, <1>4 DEF ClocksAgree, now
<1>5. CASE UNCHANGED <<tvc, req, decision>>
  <2>1. tvc'.start \in 0 .. now /\ tvc'.ncr \in 0 .. now
    BY <1>1, <1>3, <1>5 DEF now
  <2>2. DecisionStands'
    BY <1>1, <1>5 DEF DecisionStands
  <2> QED
    BY <1>1, <1>4, <1>5, <2>1, <2>2 DEF VcInv
<1>6. ASSUME NEW r \in Clients, IssueDraft(r, now)
      PROVE  VcInv'
  <2>1. UNCHANGED <<tvc, decision>>
    BY <1>6 DEF IssueDraft
  <2>2. req' \in [Clients -> VerifyRounds]
    <3>1. PICK k \in 1 .. MaxRound :
            req' = [req EXCEPT ![r] = [@ EXCEPT !.stage = "draft", !.k = k,
                                                !.issued = now, !.asked = FALSE]]
      BY <1>6 DEF IssueDraft
    <3>2. k \in Nat
      BY VerifyControlAssumption
    <3> QED
      BY <1>1, <3>1, <3>2, ZenonT(30) DEF VerifyRounds, VerifyStages
  <2>3. tvc'.start \in 0 .. now /\ tvc'.ncr \in 0 .. now
    BY <1>1, <1>3, <2>1 DEF now
  <2>4. DecisionStands'
    BY <1>1, <2>1 DEF DecisionStands
  <2> QED
    BY <1>1, <1>4, <2>1, <2>2, <2>3, <2>4 DEF VcInv
<1>7. ASSUME NEW r \in Clients, IssueVerify(r, now)
      PROVE  VcInv'
  <2>0. req[r] \in VerifyRounds /\ req[r].len \in Nat /\ req[r].k \in Nat
    BY <1>1 DEF VerifyRounds
  <2>10. PICK t \in {IF req[r].asked THEN tvc ELSE StartNpuTask(tvc, now)} :
          \E pv \in {IF req[r].asked THEN 0 ELSE DecidePreVerify(t, req[r].len, req[r].k)} :
            /\ tvc' = t
            /\ req' = [req EXCEPT ![r] =
                IF pv > 0 /\ pv < req[r].k
                THEN [@ EXCEPT !.stage = "pre", !.pv = pv, !.issued = now, !.asked = TRUE]
                ELSE [@ EXCEPT !.stage = "verify", !.issued = now]]
            /\ decision' = IF req[r].asked THEN decision
                       ELSE [tvc |-> t, kv |-> req[r].len, k |-> req[r].k, pv |-> pv,
                             progress |-> Progress(now)]
    BY <1>7 DEF IssueVerify
  <2>1. PICK pv \in {IF req[r].asked THEN 0
                     ELSE DecidePreVerify(t, req[r].len, req[r].k)} :
        /\ tvc' = t
        /\ req' = [req EXCEPT ![r] =
                IF pv > 0 /\ pv < req[r].k
                THEN [@ EXCEPT !.stage = "pre", !.pv = pv, !.issued = now, !.asked = TRUE]
                ELSE [@ EXCEPT !.stage = "verify", !.issued = now]]
        /\ decision' = IF req[r].asked THEN decision
                       ELSE [tvc |-> t, kv |-> req[r].len, k |-> req[r].k, pv |-> pv,
                             progress |-> Progress(now)]
    BY <2>10
  <2>2. t \in TvcStates /\ t.start \in 0 .. now /\ t.ncr \in 0 .. now
    <3>1. CASE req[r].asked
      BY <1>1, <1>3, <2>10, <3>1 DEF now
    <3>2. CASE ~req[r].asked
      <4>1. t = StartNpuTask(tvc, now)
        BY <2>10, <3>2
      <4>2. t \in TvcStates /\ t.start = now /\ t.ncr = 0
        BY <1>1, <4>1, RegistersOK
      <4> QED
        BY <1>1, <4>2
    <3> QED
      BY <3>1, <3>2
  <2>3. pv \in Nat /\ (~req[r].asked => pv = DecidePreVerify(t, req[r].len, req[r].k))
    <3> DEFINE d == [tvc |-> t, kv |-> req[r].len, k |-> req[r].k, pv |-> pv]
    <3>1. CASE req[r].asked
      BY <2>1, <3>1
    <3>2. CASE ~req[r].asked
      <4>0. pv = DecidePreVerify(t, req[r].len, req[r].k)
        BY <2>1, <3>2
      <4>1. /\ d.tvc = t /\ d.kv = req[r].len /\ d.k = req[r].k
            /\ d.pv = DecidePreVerify(t, req[r].len, req[r].k) /\ d.pv = pv
        BY <4>0
      <4> HIDE DEF d
      <4>2. d.pv \in Nat
        BY <2>0, <2>2, <4>1, DecisionFits
      <4> QED
        BY <4>1, <4>2
    <3> QED
      BY <3>1, <3>2
  <2>4. req' \in [Clients -> VerifyRounds]
    BY <1>1, <2>0, <2>1, <2>3 DEF VerifyRounds, VerifyStages
  <2>5. DecisionStands'
    <3>1. CASE req[r].asked
      BY <1>1, <2>1, <3>1 DEF DecisionStands
    <3>2. CASE ~req[r].asked
      <4>1. /\ decision'.tvc = t /\ decision'.kv = req[r].len /\ decision'.k = req[r].k
            /\ decision'.pv = pv
        BY <2>1, <3>2
      <4> QED
        BY <2>0, <2>2, <2>3, <3>2, <4>1 DEF DecisionStands
    <3> QED
      BY <3>1, <3>2
  <2> QED
    BY <1>4, <2>1, <2>2, <2>4, <2>5 DEF VcInv
<1> QED
  BY <1>5, <1>6, <1>7 DEF Sched, now

\* A task finishes: its duration becomes a sample of one or two tables.
LEMMA FinishStep ==
    ASSUME VcInv, Finish
    PROVE  VcInv'
<1>1. /\ tvc \in TvcStates /\ req \in [Clients -> VerifyRounds] /\ ClocksAgree
      /\ DecisionStands
  BY DEF VcInv
<1>2. UNCHANGED <<step, cycle, coreCycles, decision>>
  BY DEF Finish
<1>3. ASSUME tvc' \in TvcStates, tvc'.start = tvc.start, tvc'.ncr = tvc.ncr,
             req' \in [Clients -> VerifyRounds]
      PROVE  VcInv'
  BY <1>1, <1>2, <1>3 DEF VcInv, ClocksAgree, DecisionStands
<1>4. PICK r \in Clients : FinishDraft(r) \/ FinishPreVerify(r) \/ FinishVerify(r)
  BY DEF Finish
<1> DEFINE c == Elapsed(r)
           q == req[r]
<1>5. c \in Nat \ {0}
  BY ElapsedOK
<1>6. q \in VerifyRounds /\ q.len \in Nat /\ q.pv \in Nat /\ q.k \in Nat
  BY <1>1 DEF VerifyRounds
<1> HIDE DEF c
<1>7. CASE FinishDraft(r)
  <2>1. /\ tvc' = RecordPimDrafting(tvc, c, 1)
        /\ req' = [req EXCEPT ![r].stage = "await"]
    BY <1>7 DEF FinishDraft, c
  <2>2. tvc' \in TvcStates /\ tvc'.start = tvc.start /\ tvc'.ncr = tvc.ncr
    BY <1>1, <1>5, <2>1, RecordsOK
  <2>3. req' \in [Clients -> VerifyRounds]
    BY <1>1, <2>1 DEF VerifyRounds, VerifyStages
  <2> QED
    BY <1>3, <2>2, <2>3
<1>8. CASE FinishPreVerify(r)
  <2> DEFINE u == RecordPimPreVerification(tvc, c, q.pv)
  <2>1. /\ tvc' = RecordNpuVerification(u, c, q.len)
        /\ req' = [req EXCEPT ![r].stage = "await"]
    BY <1>8 DEF FinishPreVerify, c
  <2>2. u \in TvcStates /\ u.start = tvc.start /\ u.ncr = tvc.ncr
    BY <1>1, <1>5, <1>6, RecordsOK, ZenonT(30)
  <2> HIDE DEF u
  <2>3. tvc' \in TvcStates /\ tvc'.start = tvc.start /\ tvc'.ncr = tvc.ncr
    BY <1>5, <1>6, <2>1, <2>2, RecordsOK
  <2>4. req' \in [Clients -> VerifyRounds]
    BY <1>1, <2>1 DEF VerifyRounds, VerifyStages
  <2> QED
    BY <1>3, <2>3, <2>4
<1>9. CASE FinishVerify(r)
  <2>1. PICK accepted \in 0 .. q.k :
          LET len == Clamp(0, TargetLen, q.len + accepted)
          IN  /\ tvc' = RecordNpuVerification(tvc, c, len)
              /\ req' = [req EXCEPT ![r] = [Idle EXCEPT !.len = len]]
    BY <1>9 DEF FinishVerify, c
  <2> DEFINE len == Clamp(0, TargetLen, q.len + accepted)
  <2>2. len \in Nat
    BY <1>6, VerifyControlAssumption DEF Clamp
  <2> HIDE DEF len
  <2>3. tvc' = RecordNpuVerification(tvc, c, len)
        /\ req' = [req EXCEPT ![r] = [Idle EXCEPT !.len = len]]
    BY <2>1 DEF len
  <2>4. tvc' \in TvcStates /\ tvc'.start = tvc.start /\ tvc'.ncr = tvc.ncr
    BY <1>1, <1>5, <2>2, <2>3, RecordsOK
  <2>5. [Idle EXCEPT !.len = len] \in VerifyRounds
    BY <2>2 DEF Idle, VerifyRounds, VerifyStages
  <2>6. req' \in [Clients -> VerifyRounds]
    BY <1>1, <2>3, <2>5
  <2> QED
    BY <1>3, <2>4, <2>6
<1> QED
  BY <1>4, <1>7, <1>8, <1>9

\* The beacon: the core's count catches up with the scheduler's just before
\* the start of the task is subtracted from it.
LEMMA BeaconStep ==
    ASSUME VcInv, Beacon
    PROVE  VcInv'
<1>1. /\ tvc \in TvcStates /\ cycle \in Nat /\ cycle > 0 /\ coreCycles = cycle - 1
      /\ tvc.start \in 0 .. cycle
  BY DEF VcInv, ClocksAgree, Beacon
<1>2. /\ step' = "sched" /\ coreCycles' = cycle /\ cycle' = cycle
      /\ tvc' = UpdateNpuProgress(tvc, cycle)
  BY <1>1 DEF Beacon
<1>3. tvc' \in TvcStates /\ tvc'.start = tvc.start /\ tvc'.ncr = cycle - tvc.start
  <2>1. cycle \in Nat /\ tvc.start <= cycle /\ tvc \in TvcStates
    BY <1>1
  <2>2. /\ UpdateNpuProgress(tvc, cycle) \in TvcStates
        /\ UpdateNpuProgress(tvc, cycle).start = tvc.start
        /\ UpdateNpuProgress(tvc, cycle).ncr = cycle - tvc.start
    BY <2>1, RegistersOK
  <2> QED
    BY <1>2, <2>2
<1>4. ClocksAgree'
  BY <1>1, <1>2, <1>3 DEF ClocksAgree
<1>5. DecisionStands' /\ req' \in [Clients -> VerifyRounds]
  BY DEF VcInv, DecisionStands, Beacon
<1> QED
  BY <1>3, <1>4, <1>5 DEF VcInv

LEMMA VcStep == VcInv /\ [VcNext]_vcVars => VcInv'
<1> SUFFICES ASSUME VcInv, [VcNext]_vcVars PROVE VcInv'
  OBVIOUS
<1>1. CASE UNCHANGED vcVars
  BY <1>1 DEF VcInv, ClocksAgree, DecisionStands, vcVars
<1> QED
  BY <1>1, SchedStep, FinishStep, BeaconStep DEF VcNext

\* The invariant of TVC and of the two clocks it is measured with.
THEOREM VcStays == VcSpec => []VcInv
BY VcStarts, VcStep, PTL DEF VcSpec

\* The progress register, an unsigned difference of the counters of two
\* objects (update_npu_progress), never wraps and never exceeds the cycles
\* there were.
THEOREM NcrStays == VcSpec => []NcrNoWrap
<1>1. VcInv => NcrNoWrap
  BY DEF VcInv, ClocksAgree, NcrNoWrap
<1> QED
  BY <1>1, VcStays, PTL

\* A pre-verification of several tokens and one more draft end, as TVC
\* predicts them, before the NPU does (should_insert_preverification), for
\* all samples the tables may hold.
THEOREM LongPreVerifiesFit == VcSpec => []LongPreVerifyFits
<1>1. VcInv => LongPreVerifyFits
  BY DecisionFits DEF VcInv, DecisionStands, LongPreVerifyFits
<1> QED
  BY <1>1, VcStays, PTL

-----------------------------------------------------------------------------
(* The two clocks.                                                         *)

\* Rounding a quotient up, as update does: the multiple is not below, and not
\* a whole step above.
LEMMA RoundUp ==
    ASSUME NEW d \in Nat \ {0}, NEW h \in Nat \ {0}
    PROVE  /\ (d + h - 1) \div h \in Nat
           /\ ((d + h - 1) \div h) * h - d \in 0 .. h - 1
<1> DEFINE a == d + h - 1
           q == a \div h
           r == a % h
<1>1. a \in Nat
  OBVIOUS
<1>2. q \in Nat /\ r \in 0 .. h - 1 /\ a = h * q + r
  <2> HIDE DEF a
  <2> QED
    BY <1>1
<1>3. q * h = h * q
  BY <1>2
<1> HIDE DEF q, r
<1>4. h * q \in Nat
  BY <1>2
<1> DEFINE p == h * q
<1>5. p \in Nat /\ a = p + r /\ q * h = p
  BY <1>2, <1>3, <1>4
<1> HIDE DEF p
<1>6. q * h - d \in 0 .. h - 1
  BY <1>2, <1>5
<1> QED
  BY <1>2, <1>6 DEF q

\* The slowest clock of the host is one of them.
LEMMA SlowestIs ==
    ASSUME Clocks # {}
    PROVE  Slowest \in Nat \ {0} /\ \A c \in Clocks : c[2] <= Slowest
<1> DEFINE S == {c[2] : c \in Clocks}
           f == [c \in Clocks |-> c[2]]
<1>1. IsFiniteSet(S) /\ S # {} /\ S \subseteq Nat \ {0}
  <2>1. f \in Surjection(Clocks, S)
    BY DEF Surjection
  <2>2. IsFiniteSet(Clocks)
    BY MapAssumption
  <2> HIDE DEF f, S
  <2>3. IsFiniteSet(S)
    BY <2>1, <2>2, FS_Surjection
  <2> QED
    BY <2>3, MapAssumption DEF S
<1>2. \E n \in S : \A c \in Clocks : c[2] <= n
  <2>1. \E n \in S : \A y \in S : y <= n
    BY <1>1, GreatestIs
  <2> QED
    BY <2>1
<1> QED
  BY <1>1, <1>2 DEF Slowest

\* The memory is never behind the host, and less than a cycle of the slowest
\* clock ahead of it.
MapInv ==
    /\ clock \in Clocks
    /\ counter1 \in Nat /\ counter2 \in Nat
    /\ NoDrift

LEMMA MapStarts == ASSUME NEW schemes PROVE MapInit(schemes) => MapInv
<1> SUFFICES ASSUME MapInit(schemes) PROVE MapInv
  OBVIOUS
<1>1. Clocks # {}
  BY DEF MapInit
<1>2. Slowest \in Nat \ {0}
  BY <1>1, SlowestIs
<1> QED
  BY <1>2 DEF MapInit, MapInv, NoDrift

LEMMA HostStep == ASSUME MapInv, HostCycle PROVE MapInv'
<1> DEFINE m == clock[1]
           h == clock[2]
           c1 == counter1 + m
           n == Cycles(c1)
           c2 == counter2 + n * h
           s == Slowest
<1>1. /\ m \in Nat \ {0} /\ h \in Nat \ {0} /\ h <= s /\ s \in Nat \ {0}
      /\ counter1 \in Nat /\ counter2 \in Nat /\ clock \in Clocks
      /\ counter2 - counter1 \in 0 .. s - 1
  BY MapAssumption, SlowestIs DEF MapInv, NoDrift
<1>2. /\ clock' = clock
      /\ \/ UNCHANGED <<counter1, counter2>>
         \/ /\ counter1' = IF c1 = c2 THEN 0 ELSE c1
            /\ counter2' = IF c1 = c2 THEN 0 ELSE c2
  BY DEF HostCycle
<1> HIDE DEF m, h, s
<1>3. c1 \in Nat /\ c2 \in Nat /\ c2 - c1 \in 0 .. s - 1
  <2>1. CASE counter2 >= c1
    <3>1. n = 0
      BY <2>1 DEF Cycles
    <3> QED
      BY <1>1, <2>1, <3>1
  <2>2. CASE ~(counter2 >= c1)
    <3> DEFINE d == c1 - counter2
    <3>1. d \in Nat \ {0} /\ c1 \in Nat
      BY <1>1, <2>2
    <3>2. n = (d + h - 1) \div h
      BY <2>2 DEF Cycles, h
    <3> HIDE DEF d, n
    <3>3. n \in Nat /\ n * h - d \in 0 .. h - 1
      BY <1>1, <3>1, <3>2, RoundUp
    <3> DEFINE p == n * h
    <3>4. p \in Nat
      BY <1>1, <3>3, TimesNat
    <3>5. c2 = counter2 + p /\ p - d \in 0 .. h - 1
      BY <3>3
    <3> HIDE DEF p, c2
    <3> QED
      BY <1>1, <3>1, <3>4, <3>5 DEF d
  <2> QED
    BY <2>1, <2>2
<1> HIDE DEF c1, c2
<1>4. Slowest' = s
  BY DEF Slowest, s
<1>5. counter1' \in Nat /\ counter2' \in Nat /\ counter2' - counter1' \in 0 .. s - 1
  BY <1>1, <1>2, <1>3
<1> QED
  BY <1>1, <1>2, <1>4, <1>5 DEF MapInv, NoDrift

LEMMA MapStep == MapInv /\ [MapNext]_mapVars => MapInv'
<1> SUFFICES ASSUME MapInv, [MapNext]_mapVars PROVE MapInv'
  OBVIOUS
<1>1. Slowest' = Slowest
  BY DEF Slowest
<1>2. CASE SetClock
  BY <1>1, <1>2 DEF MapInv, NoDrift, SetClock
<1>3. CASE UNCHANGED mapVars
  BY <1>1, <1>3 DEF MapInv, NoDrift, mapVars
<1> QED
  BY <1>2, <1>3, HostStep DEF MapNext

\* ClockDomainCrosser::update and setCPUClockSpeed, in any order and for any
\* clocks: the memory never falls behind the host and is never a whole cycle
\* ahead.
THEOREM ClocksNeverDrift == ASSUME NEW schemes PROVE MapSpec(schemes) => []NoDrift
<1>1. MapInit(schemes) => MapInv
  BY MapStarts
<1>2. MapInv => NoDrift
  BY DEF MapInv
<1> QED
  BY <1>1, <1>2, MapStep, PTL DEF MapSpec

-----------------------------------------------------------------------------
(* The address schemes.                                                    *)

\* The fields a scheme may name; "low" is the part of a bank below its group.
FieldNames == {"chan", "rank", "bank", "group", "row", "col", "low"}

\* Every field has a width, the part below the bank group too.
LEMMA WidthType == ASSUME NEW f \in FieldNames PROVE Width(f) \in Nat
<1>1. CASE f = "low"
  BY <1>1, MapAssumption DEF Width
<1>2. CASE f # "low"
  BY <1>2, MapAssumption DEF Width, FieldNames
<1> QED
  BY <1>1, <1>2

\* A field begins where the one below it ends.
LEMMA ShiftStep ==
    ASSUME NEW fs \in Seq(FieldNames), NEW i \in 1 .. Len(fs)
    PROVE  /\ Shift(fs, 1) = 0
           /\ Shift(fs, i) \in Nat
           /\ Shift(fs, i + 1) = Shift(fs, i) + Width(fs[i])
<1> DEFINE g(k) == [j \in 1 .. k - 1 |-> Width(fs[j])]
<1>1. \A j \in 1 .. Len(fs) : Width(fs[j]) \in Nat
  BY WidthType, ElementOfSeq
<1>2. ASSUME NEW k \in 1 .. Len(fs) + 1
      PROVE  /\ g(k) \in [1 .. k - 1 -> Nat] /\ IsFiniteSet(1 .. k - 1)
             /\ Shift(fs, k) = SumOver(g(k), 1 .. k - 1)
  <2>1. \A j \in 1 .. k - 1 : j \in 1 .. Len(fs)
    BY LenProperties
  <2>2. g(k) \in [1 .. k - 1 -> Nat]
    BY <1>1, <2>1
  <2>3. IsFiniteSet(1 .. k - 1)
    BY FS_Interval
  <2>4. Shift(fs, k) = SumOver(g(k), 1 .. k - 1)
    BY DEF Shift, SumFunction, SumFunctionOnSet, FoldFunctionOnSet, MapThenFoldSet,
           SumOver, Partial, Solves, Elem
  <2> QED
    BY <2>2, <2>3, <2>4
<1>3. Len(fs) \in Nat /\ 1 \in 1 .. Len(fs) + 1 /\ i \in 1 .. Len(fs) + 1
      /\ i + 1 \in 1 .. Len(fs) + 1
  BY LenProperties
<1>4. Shift(fs, 1) = 0
  <2>1. 1 .. 1 - 1 = {}
    OBVIOUS
  <2> QED
    BY <1>2, <1>3, <2>1, SumType
<1>5. Shift(fs, i) \in Nat
  <2> HIDE DEF g
  <2> QED
  BY <1>2, <1>3, SumType
<1>6. Shift(fs, i + 1) = Shift(fs, i) + Width(fs[i])
  <2> DEFINE S == 1 .. (i + 1) - 1
             h == g(i + 1)
  <2>1. i \in S /\ S \ {i} = 1 .. i - 1 /\ h[i] = Width(fs[i])
    OBVIOUS
  <2>2. \A j \in 1 .. i - 1 : h[j] = g(i)[j]
    OBVIOUS
  <2>3. /\ h \in [S -> Nat] /\ IsFiniteSet(S) /\ Shift(fs, i + 1) = SumOver(h, S)
        /\ IsFiniteSet(1 .. i - 1) /\ Shift(fs, i) = SumOver(g(i), 1 .. i - 1)
    BY <1>2, <1>3
  <2> HIDE DEF g, h, S
  <2>4. SumOver(h, 1 .. i - 1) = SumOver(g(i), 1 .. i - 1)
    BY <2>2, <2>3, SumSame
  <2>5. SumOver(h, S) = h[i] + SumOver(h, S \ {i}) /\ SumOver(h, S \ {i}) \in Nat
    BY <2>1, <2>3, SumRemove
  <2>6. h[i] \in Nat
    BY <2>1, <2>3
  <2>7. SumOver(h, S \ {i}) = Shift(fs, i)
    BY <2>1, <2>3, <2>4
  <2>8. Shift(fs, i + 1) = Width(fs[i]) + Shift(fs, i)
    BY <2>1, <2>3, <2>5, <2>7
  <2>9. Width(fs[i]) \in Nat /\ Shift(fs, i) \in Nat
    BY <2>1, <2>6, <1>5
  <2> QED
    BY <2>8, <2>9
<1> QED
  BY <1>4, <1>5, <1>6
\* The field an address has at a place of a scheme.
Part(fs, i, a) == (a \div 2 ^ Shift(fs, i)) % 2 ^ Width(fs[i])

\* The lowest fields of an address determine its bits below the next one.
LEMMA PartsDetermine ==
    ASSUME NEW fs \in Seq(FieldNames), fs # <<>>, NEW a \in Nat, NEW b \in Nat,
           \A i \in 1 .. Len(fs) : Part(fs, i, a) = Part(fs, i, b)
    PROVE  LET n == Shift(fs, Len(fs) + 1)
           IN  n \in Nat /\ a % 2 ^ n = b % 2 ^ n
<1> DEFINE Low(k, x) == x % 2 ^ Shift(fs, k + 1)
           P == {k \in Nat : k <= Len(fs) =>
                    Shift(fs, k + 1) \in Nat /\ Low(k, a) = Low(k, b)}
<1>1. Len(fs) \in Nat /\ \A i \in 1 .. Len(fs) : fs[i] \in FieldNames
  BY LenProperties, ElementOfSeq
<1>2. 0 \in P
  <2>1. Shift(fs, 0 + 1) = 0
    <3>1. 1 \in 1 .. Len(fs)
      BY <1>1, EmptySeq
    <3> QED
      BY <3>1, ShiftStep
  <2>2. 2 ^ 0 = 1
    BY PowerZero
  <2>3. a % 1 = 0 /\ b % 1 = 0
    OBVIOUS
  <2>4. Low(0, a) = 0 /\ Low(0, b) = 0
    BY <2>1, <2>2, <2>3
  <2> QED
    BY <2>1, <2>4
<1>3. ASSUME NEW k \in Nat, k \in P PROVE k + 1 \in P
  <2> SUFFICES ASSUME k + 1 <= Len(fs)
               PROVE  Shift(fs, k + 2) \in Nat /\ Low(k + 1, a) = Low(k + 1, b)
    OBVIOUS
  <2> DEFINE i == k + 1
             s == Shift(fs, i)
             w == Width(fs[i])
  <2>1. i \in 1 .. Len(fs) /\ k <= Len(fs)
    BY <1>1
  <2>2. s \in Nat /\ Shift(fs, i + 1) = s + w
    BY <2>1, ShiftStep
  <2>3. w \in Nat
    BY <1>1, <2>1, WidthType
  <2>4. a % 2 ^ s = b % 2 ^ s
    BY <1>3, <2>1
  <2>5. Part(fs, i, a) = Part(fs, i, b)
    BY <2>1
  <2>6. (a \div 2 ^ s) % 2 ^ w = (b \div 2 ^ s) % 2 ^ w
    BY <2>5 DEF Part
  <2> HIDE DEF s, w
  <2>7. 2 ^ (s + w) = 2 ^ s * 2 ^ w /\ 2 ^ s \in Nat \ {0} /\ 2 ^ w \in Nat \ {0}
    BY <2>2, <2>3, PowerSum, PowerOfTwo
  <2> DEFINE p == 2 ^ s
             q == 2 ^ w
  <2> HIDE DEF p, q
  <2>8. p \in Nat \ {0} /\ q \in Nat \ {0}
    BY <2>7 DEF p, q
  <2>9. a % (p * q) = (a % p) + p * ((a \div p) % q)
    BY <2>8, DigitStep
  <2>10. b % (p * q) = (b % p) + p * ((b \div p) % q)
    BY <2>8, DigitStep
  <2>11. a % p = b % p /\ (a \div p) % q = (b \div p) % q
    BY <2>4, <2>6 DEF p, q
  <2>12. a % (p * q) = b % (p * q)
    BY <2>9, <2>10, <2>11
  <2>13. a % 2 ^ (s + w) = b % 2 ^ (s + w)
    BY <2>7, <2>12 DEF p, q
  <2>14. s + w \in Nat /\ i + 1 = k + 2
    BY <2>2, <2>3
  <2> QED
    BY <2>2, <2>13, <2>14
<1> HIDE DEF P
<1>4. Len(fs) \in P
  BY <1>1, <1>2, <1>3, NatSetInduction
<1> QED
  BY <1>1, <1>4 DEF P

\* A part of an address fits its field.
LEMMA PartType ==
    ASSUME NEW fs \in Seq(FieldNames), NEW i \in 1 .. Len(fs), NEW a \in Nat
    PROVE  Part(fs, i, a) \in 0 .. 2 ^ Width(fs[i]) - 1
<1>1. fs[i] \in FieldNames
  BY ElementOfSeq
<1>2. Shift(fs, i) \in Nat /\ Width(fs[i]) \in Nat
  BY <1>1, ShiftStep, WidthType
<1> DEFINE p == 2 ^ Shift(fs, i)
           q == 2 ^ Width(fs[i])
<1>3. p \in Nat \ {0} /\ q \in Nat \ {0}
  BY <1>2, PowerOfTwo
<1>4. Part(fs, i, a) = (a \div p) % q
  BY DEF Part
<1> HIDE DEF p, q
<1>5. a \div p \in Nat
  BY <1>3
<1>6. (a \div p) % q \in 0 .. q - 1
  BY <1>3, <1>5
<1> QED
  BY <1>4, <1>6 DEF q

\* The lengths of the fields of a scheme add up.
LEMMA FiveFields ==
    ASSUME NEW fs \in Seq(FieldNames), Len(fs) = 5
    PROVE  Shift(fs, 6) = Width(fs[1]) + Width(fs[2]) + Width(fs[3]) + Width(fs[4])
                          + Width(fs[5])
<1>1. \A i \in 1 .. 5 : Width(fs[i]) \in Nat
  BY ElementOfSeq, WidthType
<1>2. 1 \in 1 .. Len(fs)
  OBVIOUS
<1>4. Shift(fs, 1) = 0
  BY <1>2, ShiftStep
<1>3. \A i \in 1 .. 5 : Shift(fs, i + 1) = Shift(fs, i) + Width(fs[i])
  BY ShiftStep
<1> QED
  BY <1>1, <1>3, <1>4

\* The same for the scheme with six fields.
LEMMA SixFields ==
    ASSUME NEW fs \in Seq(FieldNames), Len(fs) = 6
    PROVE  Shift(fs, 7) = Width(fs[1]) + Width(fs[2]) + Width(fs[3]) + Width(fs[4])
                          + Width(fs[5]) + Width(fs[6])
<1>1. \A i \in 1 .. 6 : Width(fs[i]) \in Nat
  BY ElementOfSeq, WidthType
<1>2. 1 \in 1 .. Len(fs)
  OBVIOUS
<1>4. Shift(fs, 1) = 0
  BY <1>2, ShiftStep
<1>3. \A i \in 1 .. 6 : Shift(fs, i + 1) = Shift(fs, i) + Width(fs[i])
  BY ShiftStep
<1> QED
  BY <1>1, <1>3, <1>4

\* The fields of the schemes that take the bank whole, and of the one that
\* takes it in two parts.
Plain == {"chan", "rank", "bank", "row", "col"}
Cut   == {"chan", "low", "group", "row", "col", "rank"}
FieldSet(s) == IF s = 8 THEN Cut ELSE Plain

\* What all schemes have in common: no field is taken twice, and together
\* they are as wide as an address.
LEMMA SchemeOK ==
    ASSUME NEW s \in 1 .. 8
    PROVE  LET fs == FieldsOf(s)
           IN  /\ fs \in Seq(FieldNames) /\ fs # <<>>
               /\ \A i, j \in 1 .. Len(fs) : fs[i] = fs[j] => i = j
               /\ {fs[i] : i \in 1 .. Len(fs)} = FieldSet(s)
               /\ Shift(fs, Len(fs) + 1) = AddrBits
<1> DEFINE fs == FieldsOf(s)
<1>1. \A f \in {"chan", "rank", "bank", "row", "col", "group"} :
        f # "low" /\ Width(f) = Widths[f] /\ Widths[f] \in Nat
  BY MapAssumption DEF Width
<1>2. Width("low") = Widths["bank"] - Widths["group"] /\ Width("group") = Widths["group"]
  BY DEF Width
<1>3. AddrBits = Widths["chan"] + Widths["rank"] + Widths["bank"] + Widths["row"] + Widths["col"]
  BY DEF AddrBits
<1>4. CASE s # 8
  <2>1. /\ fs \in Seq(FieldNames) /\ Len(fs) = 5
        /\ \A i, j \in 1 .. 5 : fs[i] = fs[j] => i = j
        /\ {fs[i] : i \in 1 .. 5} = Plain
    <3>1. CASE s = 1
      BY <3>1 DEF FieldsOf, FieldNames, Plain
    <3>2. CASE s = 2
      BY <3>2 DEF FieldsOf, FieldNames, Plain
    <3>3. CASE s = 3
      BY <3>3 DEF FieldsOf, FieldNames, Plain
    <3>4. CASE s = 4
      BY <3>4 DEF FieldsOf, FieldNames, Plain
    <3>5. CASE s = 5
      BY <3>5 DEF FieldsOf, FieldNames, Plain
    <3>6. CASE s = 6
      BY <3>6 DEF FieldsOf, FieldNames, Plain
    <3>7. CASE s = 7
      BY <3>7 DEF FieldsOf, FieldNames, Plain
    <3> QED
      BY <1>4, <3>1, <3>2, <3>3, <3>4, <3>5, <3>6, <3>7, SMTT(30)
  <2>2. Shift(fs, 6) = Width(fs[1]) + Width(fs[2]) + Width(fs[3]) + Width(fs[4])
                          + Width(fs[5])
    BY <2>1, FiveFields
  <2>3. Width(fs[1]) + Width(fs[2]) + Width(fs[3]) + Width(fs[4]) + Width(fs[5])
          = AddrBits
    <3>1. s \in 1 .. 7
      BY <1>4
    <3> QED
      BY <1>1, <1>3, <3>1 DEF FieldsOf
  <2> HIDE DEF fs
  <2>4. fs # <<>> /\ 1 .. Len(fs) = 1 .. 5 /\ Len(fs) + 1 = 6
    BY <2>1
  <2> QED
    BY <1>4, <2>1, <2>2, <2>3, <2>4 DEF fs, FieldSet
<1>5. CASE s = 8
  <2>1. /\ fs \in Seq(FieldNames) /\ Len(fs) = 6
        /\ \A i, j \in 1 .. 6 : fs[i] = fs[j] => i = j
        /\ {fs[i] : i \in 1 .. 6} = Cut
    BY <1>5 DEF FieldsOf, FieldNames, Cut
  <2>2. Shift(fs, 7) = Width(fs[1]) + Width(fs[2]) + Width(fs[3]) + Width(fs[4])
                          + Width(fs[5]) + Width(fs[6])
    BY <2>1, SixFields
  <2>3. Width(fs[1]) + Width(fs[2]) + Width(fs[3]) + Width(fs[4]) + Width(fs[5])
          + Width(fs[6]) = AddrBits
    BY <1>1, <1>2, <1>3, <1>5 DEF FieldsOf
  <2> HIDE DEF fs
  <2>4. fs # <<>> /\ 1 .. Len(fs) = 1 .. 6 /\ Len(fs) + 1 = 7
    BY <2>1
  <2> QED
    BY <1>5, <2>1, <2>2, <2>3, <2>4 DEF fs, FieldSet
<1> QED
  BY <1>4, <1>5

\* FieldOf finds a field where the scheme has it.
LEMMA FieldAt ==
    ASSUME NEW s \in 1 .. 8, NEW i \in 1 .. Len(FieldsOf(s)), NEW a
    PROVE  FieldOf(s, a, FieldsOf(s)[i]) = Part(FieldsOf(s), i, a)
<1> DEFINE fs == FieldsOf(s)
           k == CHOOSE j \in DOMAIN fs : fs[j] = fs[i]
<1>1. /\ fs \in Seq(FieldNames) /\ DOMAIN fs = 1 .. Len(fs)
      /\ \A j, l \in 1 .. Len(fs) : fs[j] = fs[l] => j = l
  BY SchemeOK, LenProperties
<1>2. FieldOf(s, a, fs[i]) = Part(fs, k, a)
  BY DEF FieldOf, Part
<1> HIDE DEF fs
<1>3. i \in DOMAIN fs
  BY <1>1 DEF fs
<1>4. k \in DOMAIN fs /\ fs[k] = fs[i]
  BY <1>3
<1>5. k = i
  BY <1>1, <1>3, <1>4
<1> QED
  BY <1>2, <1>5 DEF fs

\* A field of an address fits its width.
LEMMA FieldType ==
    ASSUME NEW s \in 1 .. 8, NEW a \in Nat, NEW f \in FieldSet(s)
    PROVE  /\ FieldOf(s, a, f) \in 0 .. 2 ^ Width(f) - 1
           /\ Width(f) \in Nat /\ 2 ^ Width(f) \in Nat \ {0}
<1> DEFINE fs == FieldsOf(s)
<1>1. fs \in Seq(FieldNames) /\ FieldSet(s) = {fs[i] : i \in 1 .. Len(fs)}
  BY SchemeOK
<1>2. PICK i \in 1 .. Len(fs) : f = fs[i]
  <2> HIDE DEF fs
  <2> QED
    BY <1>1
<1>3. FieldOf(s, a, f) = Part(fs, i, a)
  BY <1>2, FieldAt
<1> HIDE DEF fs
<1>4. Part(fs, i, a) \in 0 .. 2 ^ Width(fs[i]) - 1
  BY <1>1, PartType
<1>5. f \in FieldNames
  BY <1>1, <1>2, ElementOfSeq
<1> QED
  BY <1>2, <1>3, <1>4, <1>5, WidthType, PowerOfTwo

\* The bank of the eighth scheme, its low part and its group, is one of the
\* banks, and determines both.
LEMMA BankOK ==
    ASSUME NEW s \in 1 .. 8, NEW a \in Nat
    PROVE  /\ BankOf(s, a) \in 0 .. 2 ^ Widths.bank - 1
           /\ s # 8 => BankOf(s, a) = FieldOf(s, a, "bank")
           /\ s = 8 => /\ FieldOf(s, a, "low") = BankOf(s, a) % 2 ^ Width("low")
                       /\ FieldOf(s, a, "group") = BankOf(s, a) \div 2 ^ Width("low")
<1>1. CASE s # 8
  <2>1. FieldOf(s, a, "bank") \in 0 .. 2 ^ Width("bank") - 1
    BY <1>1, FieldType DEF Plain, FieldSet
  <2>2. Width("bank") = Widths.bank /\ BankOf(s, a) = FieldOf(s, a, "bank")
    BY <1>1 DEF Width, BankOf
  <2> QED
    BY <1>1, <2>1, <2>2
<1>2. CASE s = 8
  <2> DEFINE p == 2 ^ Width("low")
             q == 2 ^ Width("group")
             l == FieldOf(s, a, "low")
             h == FieldOf(s, a, "group")
  <2>1. /\ l \in 0 .. p - 1 /\ p \in Nat \ {0} /\ Width("low") \in Nat
        /\ h \in 0 .. q - 1 /\ q \in Nat \ {0} /\ Width("group") \in Nat
    BY <1>2, FieldType DEF Cut, FieldSet
  <2>2. BankOf(s, a) = l + h * p
    BY <1>2 DEF BankOf
  <2>3. Width("group") + Width("low") = Widths.bank
    <3>1. Width("group") = Widths.group /\ Width("low") = Widths.bank - Widths.group
      BY DEF Width
    <3>2. Widths.bank \in Nat /\ Widths.group \in Nat
      BY MapAssumption
    <3> QED
      BY <3>1, <3>2
  <2>4. q * p = 2 ^ Widths.bank
    BY <2>1, <2>3, PowerSum
  <2> HIDE DEF p, q, l, h
  <2>5. (l + h * p) % p = l /\ (l + h * p) \div p = h /\ l + h * p \in 0 .. q * p - 1
    BY <2>1, TwoDigits
  <2> QED
    BY <1>2, <2>2, <2>4, <2>5 DEF p, l, h
<1> QED
  BY <1>1, <1>2

\* Two addresses with the same place are one.
LEMMA DecodeApart ==
    ASSUME NEW s \in 1 .. 8, NEW a \in 0 .. 2 ^ AddrBits - 1,
           NEW b \in 0 .. 2 ^ AddrBits - 1, Decode(s, a) = Decode(s, b)
    PROVE  a = b
<1> DEFINE fs == FieldsOf(s)
<1>1. a \in Nat /\ b \in Nat
  <2>1. AddrBits \in Nat
    BY MapAssumption DEF AddrBits
  <2>2. 2 ^ AddrBits \in Nat \ {0}
    BY <2>1, PowerOfTwo
  <2> QED
    BY <2>2
<1>2. /\ FieldOf(s, a, "chan") = FieldOf(s, b, "chan")
      /\ FieldOf(s, a, "rank") = FieldOf(s, b, "rank")
      /\ BankOf(s, a) = BankOf(s, b)
      /\ FieldOf(s, a, "row") = FieldOf(s, b, "row")
      /\ FieldOf(s, a, "col") = FieldOf(s, b, "col")
  BY DEF Decode
<1>3. s # 8 => FieldOf(s, a, "bank") = FieldOf(s, b, "bank")
  BY <1>1, <1>2, BankOK
<1>4. s = 8 => /\ FieldOf(s, a, "low") = FieldOf(s, b, "low")
               /\ FieldOf(s, a, "group") = FieldOf(s, b, "group")
  BY <1>1, <1>2, BankOK
<1>5. ASSUME NEW i \in 1 .. Len(fs) PROVE Part(fs, i, a) = Part(fs, i, b)
  <2>1. FieldOf(s, a, fs[i]) = Part(fs, i, a) /\ FieldOf(s, b, fs[i]) = Part(fs, i, b)
    BY FieldAt
  <2>2. fs[i] \in FieldSet(s)
    <3>1. FieldSet(s) = {fs[j] : j \in 1 .. Len(fs)}
      BY SchemeOK
    <3> HIDE DEF fs
    <3> QED
      BY <3>1
  <2> HIDE DEF fs
  <2>3. FieldOf(s, a, fs[i]) = FieldOf(s, b, fs[i])
    BY <1>2, <1>3, <1>4, <2>2 DEF Plain, Cut, FieldSet
  <2> QED
    BY <2>1, <2>3
<1>6. fs \in Seq(FieldNames) /\ fs # <<>> /\ Shift(fs, Len(fs) + 1) = AddrBits
  BY SchemeOK
<1> HIDE DEF fs
<1>7. AddrBits \in Nat /\ a % 2 ^ AddrBits = b % 2 ^ AddrBits
  BY <1>1, <1>5, <1>6, PartsDetermine
<1> DEFINE n == 2 ^ AddrBits
<1>8. n \in Nat \ {0} /\ a \in 0 .. n - 1 /\ b \in 0 .. n - 1 /\ a % n = b % n
  BY <1>7, PowerOfTwo
<1> HIDE DEF n
<1> QED
  BY <1>8

\* The places of all addresses are as many as there are addresses.
LEMMA Bijective == ASSUME NEW s \in 1 .. 8
    PROVE  /\ Cardinality({Decode(s, a) : a \in 0 .. 2 ^ AddrBits - 1}) = 2 ^ AddrBits
           /\ \A a \in 0 .. 2 ^ AddrBits - 1 : BankOf(s, a) < 2 ^ Widths.bank
<1> DEFINE n == 2 ^ AddrBits
           A == 0 .. n - 1
           D == {Decode(s, a) : a \in A}
           f == [a \in A |-> Decode(s, a)]
<1>1. n \in Nat \ {0}
  <2>1. AddrBits \in Nat
    BY MapAssumption DEF AddrBits
  <2> QED
    BY <2>1, PowerOfTwo
<1>2. \A a, b \in A : Decode(s, a) = Decode(s, b) => a = b
  BY DecodeApart
<1>3. ASSUME NEW a \in A PROVE BankOf(s, a) < 2 ^ Widths.bank
  <2>1. a \in Nat
    BY <1>1
  <2>2. BankOf(s, a) \in 0 .. 2 ^ Widths.bank - 1
    BY <2>1, BankOK
  <2>3. Widths.bank \in Nat
    BY MapAssumption
  <2>4. 2 ^ Widths.bank \in Nat
    BY <2>3, PowerOfTwo
  <2> QED
    BY <2>2, <2>4
<1> HIDE DEF n
<1>4. IsFiniteSet(A) /\ Cardinality(A) = n
  <2>1. n - 1 \in Int /\ 0 \in Int
    BY <1>1
  <2>2. IsFiniteSet(A) /\ Cardinality(A) = IF 0 > n - 1 THEN 0 ELSE (n - 1) - 0 + 1
    BY <2>1, FS_Interval
  <2> QED
    BY <1>1, <2>2
<1> HIDE DEF A
<1>5. f \in Bijection(A, D)
  BY <1>2 DEF Bijection, Injection, Surjection, IsInjective
<1>6. Cardinality(D) = n
  BY <1>4, <1>5, FS_Bijection DEF ExistsBijection
<1> QED
  BY <1>3, <1>6 DEF n, A

\* addressMapping: whatever the widths of the fields, every scheme gives
\* different transactions different places within the configured memory.
THEOREM MappingStays == MapSpec(1 .. 8) => [](MappingBijective /\ MappingHolds)
<1>1. MapInit(1 .. 8) => scheme \in 1 .. 8
  BY DEF MapInit
<1>2. scheme \in 1 .. 8 /\ [MapNext]_mapVars => (scheme \in 1 .. 8)'
  BY DEF MapNext, HostCycle, SetClock, mapVars
<1>3. scheme \in 1 .. 8 => MappingBijective /\ MappingHolds
  BY Bijective DEF MappingHolds, MappingBijective
<1> QED
  BY <1>1, <1>2, <1>3, PTL DEF MapSpec

-----------------------------------------------------------------------------
(* The gated tasks.                                                        *)

N == Len(Jobs)
Kinds == {"DRAFTING", "PRE_VERIFICATION"}

\* The cycles a rank is given: its counter is narrower than the task's.
Asked(i) == Jobs[i].cycles % 2 ^ CounterBits

\* The fields of the scheduler.
Whole(g) ==
    g = [queue |-> g.queue, cap |-> g.cap, active |-> g.active, dangling |-> g.dangling,
         ran |-> g.ran, on |-> g.on, busy |-> g.busy, left |-> g.left,
         switching |-> g.switching, delay |-> g.delay]
TaskTypes(g) ==
    /\ Whole(g)
    /\ g.queue \in Seq(1 .. N) /\ g.active \in 0 .. N /\ g.ran \in Nat
    /\ g.on \in {0 .. Last0 - 1, {Last0}} /\ g.busy \in SUBSET Gated
    /\ g.left \in [Gated -> Nat] /\ g.switching \in BOOLEAN

\* The tasks wait in the order of their submission: those served, then those
\* queued, and the active one is the first of the queue.
InLine(g, done, sub) ==
    /\ done \in Nat /\ sub \in 0 .. N
    /\ done + Len(g.queue) = sub
    /\ \A i \in 1 .. Len(g.queue) : g.queue[i] = done + i
    /\ g.active # 0 => g.queue # <<>> /\ g.active = done + 1

\* While a task is active its ranks are busy, powered and agree on what is
\* left; during a switch the ranks of the next task are the powered ones.
RanksAgree(g) ==
    /\ g.active = 0 => g.busy = {}
    /\ g.active # 0 =>
         /\ ~g.switching
         /\ g.busy = RanksOf(Jobs[g.active].kind) /\ g.busy \subseteq g.on
         /\ \A r \in g.busy : g.left[r] + g.ran = Asked(g.active)
    /\ g.switching =>
         g.queue # <<>> /\ RanksOf(Jobs[Head(g.queue)].kind) \subseteq g.on

TasksOK(g, done, sub) == TaskTypes(g) /\ InLine(g, done, sub) /\ RanksAgree(g)

\* A served task has run for what it was given.
ServedRan(sv) ==
    /\ sv \in Seq((1 .. N) \X Nat)
    /\ \A i \in 1 .. Len(sv) :
         sv[i][1] = i /\ (RanksOf(Jobs[i].kind) # {} => sv[i][2] = Asked(i))

GtsInv == TasksOK(gts, Len(served), subs) /\ ServedRan(served)

LEMMA CountsOK ==
    /\ N \in Nat /\ Last0 \in Nat /\ DOMAIN Jobs = 1 .. N
    /\ \A i \in 1 .. N : Jobs[i].kind \in Kinds /\ Jobs[i].cycles \in Nat /\ Asked(i) \in Nat
<1>1. 2 ^ CounterBits \in Nat \ {0}
  BY GatedAssumption, PowerOfTwo
<1> DEFINE w == 2 ^ CounterBits
<1> HIDE DEF w
<1>2. \A c \in Nat : c % w \in Nat
  BY <1>1 DEF w
<1>3. ASSUME NEW i \in 1 .. N
      PROVE  Jobs[i].kind \in Kinds /\ Jobs[i].cycles \in Nat
  <2>1. Jobs[i] \in [kind : Kinds, cycles : Nat]
    BY GatedAssumption, ElementOfSeq DEF N, Kinds
  <2> QED
    BY <2>1
<1>4. N \in Nat /\ Last0 \in Nat /\ DOMAIN Jobs = 1 .. N
  BY GatedAssumption, LenProperties DEF N, Last0
<1> QED
  BY <1>2, <1>3, <1>4 DEF Asked, w

\* The first task of the queue is the next to be served.
LEMMA HeadIs ==
    ASSUME NEW g, NEW done, NEW sub, TasksOK(g, done, sub), g.queue # <<>>
    PROVE  /\ Head(g.queue) = done + 1 /\ Head(g.queue) \in 1 .. N /\ Head(g.queue) # 0
           /\ Len(g.queue) \in Nat \ {0}
<1> DEFINE q == g.queue
<1>1. q \in Seq(1 .. N) /\ q # <<>>
  BY DEF TasksOK, TaskTypes
<1>2. done \in Nat /\ \A i \in 1 .. Len(q) : q[i] = done + i
  BY DEF TasksOK, InLine
<1> HIDE DEF q
<1>3. Head(q) = q[1] /\ Len(q) \in Nat \ {0}
  BY <1>1, HeadTailProperties, LenProperties, EmptySeq
<1>4. q[1] \in 1 .. N
  <2> DEFINE S == 1 .. N
  <2>1. q \in Seq(S) /\ 1 \in 1 .. Len(q)
    BY <1>1, <1>3
  <2> HIDE DEF S
  <2>2. q[1] \in S
    BY <2>1, ElementOfSeq
  <2> QED
    BY <2>2 DEF S
<1>5. q[1] = done + 1
  BY <1>2, <1>3
<1> QED
  BY <1>3, <1>4, <1>5, CountsOK DEF q

LEMMA GtsStarts == GtsInit => GtsInv
<1> SUFFICES ASSUME GtsInit PROVE GtsInv
  OBVIOUS
<1>1. /\ gts = [queue |-> <<>>, cap |-> 0, active |-> 0, dangling |-> FALSE, ran |-> 0,
                on |-> 0 .. Last0 - 1, busy |-> {}, left |-> [r \in Gated |-> 0],
                switching |-> FALSE, delay |-> 0]
      /\ subs = 0 /\ served = <<>>
  BY DEF GtsInit
<1>2. N \in Nat
  BY CountsOK
<1>3. TaskTypes(gts)
  BY <1>1, <1>2 DEF TaskTypes, Whole
<1>4. InLine(gts, 0, 0)
  BY <1>1, <1>2 DEF InLine
<1>5. RanksAgree(gts)
  BY <1>1 DEF RanksAgree
<1>6. ServedRan(<<>>)
  BY DEF ServedRan
<1>7. Len(<<>>) = 0
  OBVIOUS
<1> QED
  BY <1>1, <1>3, <1>4, <1>5, <1>6, <1>7 DEF GtsInv, TasksOK

\* The powered ranks that lead a kind are the ranks of the kind.
LEMMA LeadsAll ==
    ASSUME NEW kind \in Kinds, NEW on \in {0 .. Last0 - 1, {Last0}},
           LeadRank(kind) \in on
    PROVE  RanksOf(kind) \subseteq on
<1>1. Last0 \in Nat
  BY CountsOK
<1> QED
  BY <1>1 DEF LeadRank, RanksOf, Kinds

\* Starting a task on powered ranks.
LEMMA StartOK ==
    ASSUME NEW g, NEW done, NEW sub, TasksOK(g, done, sub),
           g.active = 0, ~g.switching, g.queue # <<>>,
           RanksOf(Jobs[Head(g.queue)].kind) \subseteq g.on
    PROVE  TasksOK(StartTask(g), done, sub)
<1> DEFINE i == Head(g.queue)
           R == RanksOf(Jobs[i].kind)
           c == Asked(i)
           left == [r \in Gated |-> IF r \in R THEN c ELSE g.left[r]]
           h == StartTask(g)
<1>1. i = done + 1 /\ i \in 1 .. N /\ i # 0
  BY HeadIs
<1>2. c \in Nat /\ R \subseteq Gated
  BY <1>1, CountsOK DEF RanksOf, Gated
<1>3. h = [g EXCEPT !.active = i, !.ran = 0, !.busy = @ \cup R, !.left = left]
  BY DEF StartTask, Asked
<1>4. g.busy = {} /\ g.left \in [Gated -> Nat]
  BY DEF TasksOK, TaskTypes, RanksAgree
<1>5. left \in [Gated -> Nat]
  BY <1>2, <1>4
<1>6. \A r \in R : left[r] = c
  BY <1>2
<1> HIDE DEF left
<1>7. TaskTypes(g)
  BY DEF TasksOK
<1>8. /\ h.active = i /\ h.ran = 0 /\ h.busy = R /\ h.left = left /\ h.queue = g.queue
      /\ h.on = g.on /\ h.switching = g.switching
  BY <1>3, <1>4, <1>7 DEF TaskTypes, Whole
<1>9. TaskTypes(h)
  <2> DEFINE a == [g EXCEPT !.active = i]
             b == [a EXCEPT !.ran = 0]
             w == g.busy \cup R
             d == [b EXCEPT !.busy = w]
             e == [d EXCEPT !.left = left]
  <2>1. a = [queue |-> g.queue, cap |-> g.cap, active |-> i, dangling |-> g.dangling,
             ran |-> g.ran, on |-> g.on, busy |-> g.busy, left |-> g.left,
             switching |-> g.switching, delay |-> g.delay]
    BY <1>7, SMTT(30) DEF TaskTypes, Whole
  <2> HIDE DEF a
  <2>2. b = [queue |-> g.queue, cap |-> g.cap, active |-> i, dangling |-> g.dangling,
             ran |-> 0, on |-> g.on, busy |-> g.busy, left |-> g.left,
             switching |-> g.switching, delay |-> g.delay]
    BY <2>1
  <2>6. b.busy = g.busy
    BY <2>2
  <2> HIDE DEF b, w
  <2>3. d = [queue |-> g.queue, cap |-> g.cap, active |-> i, dangling |-> g.dangling,
             ran |-> 0, on |-> g.on, busy |-> w, left |-> g.left,
             switching |-> g.switching, delay |-> g.delay]
    BY <2>2
  <2> HIDE DEF d
  <2>4. e = [queue |-> g.queue, cap |-> g.cap, active |-> i, dangling |-> g.dangling,
             ran |-> 0, on |-> g.on, busy |-> w, left |-> left,
             switching |-> g.switching, delay |-> g.delay]
    BY <2>3
  <2> HIDE DEF e
  <2>5. h = e
    BY <1>3, <2>6 DEF a, b, d, e, w
  <2> HIDE DEF h, i
  <2> QED
    BY <1>1, <1>2, <1>4, <1>5, <1>7, <2>4, <2>5 DEF TaskTypes, Whole, w
<1> HIDE DEF h
<1>10. InLine(h, done, sub)
  <2> HIDE DEF i
  <2> QED
    BY <1>1, <1>8 DEF TasksOK, InLine
<1>11. RanksAgree(h)
  <2> HIDE DEF i, c
  <2>1. h.active # 0 /\ h.switching = FALSE /\ h.busy \subseteq h.on
    BY <1>1, <1>8, <1>7 DEF TaskTypes, i
  <2>2. \A r \in h.busy : h.left[r] + h.ran = Asked(h.active)
    BY <1>2, <1>6, <1>8 DEF c
  <2> QED
    BY <1>8, <2>1, <2>2 DEF RanksAgree
<1> QED
  BY <1>9, <1>10, <1>11 DEF TasksOK, h

\* schedule_next_task: a switch or a start, when nothing runs.
LEMMA ScheduleOK ==
    ASSUME NEW g, NEW done, NEW sub, TasksOK(g, done, sub)
    PROVE  TasksOK(ScheduleNext(g), done, sub)
<1> DEFINE kind == Jobs[Head(g.queue)].kind
           h == Switch(g, kind)
<1>1. CASE g.active # 0 \/ g.switching \/ g.queue = <<>>
  BY <1>1 DEF ScheduleNext
<1>2. CASE ~(g.active # 0 \/ g.switching \/ g.queue = <<>>)
  <2>1. kind \in Kinds /\ TaskTypes(g)
    BY <1>2, HeadIs, CountsOK DEF TasksOK
  <2> HIDE DEF kind
  <2>2. CASE LeadRank(kind) \notin g.on
    <3> DEFINE on == IF kind = "PRE_VERIFICATION" THEN {Last0} ELSE 0 .. Last0 - 1
    <3>1. on \in {0 .. Last0 - 1, {Last0}} /\ RanksOf(kind) = on
      BY <2>1 DEF RanksOf, Kinds
    <3>2. h = [g EXCEPT !.switching = TRUE, !.delay = SwitchLatency, !.on = on]
      BY DEF Switch
    <3> HIDE DEF on, h
    <3>3. h = [queue |-> g.queue, cap |-> g.cap, active |-> g.active,
               dangling |-> g.dangling, ran |-> g.ran, on |-> on, busy |-> g.busy,
               left |-> g.left, switching |-> TRUE, delay |-> SwitchLatency]
      BY <2>1, <3>2 DEF TaskTypes, Whole
    <3>4. TaskTypes(h) /\ InLine(h, done, sub)
      BY <2>1, <3>1, <3>3 DEF TaskTypes, Whole, TasksOK, InLine
    <3>5. h.active = 0 /\ h.busy = {} /\ h.queue # <<>> /\ h.queue = g.queue /\ h.on = on
      BY <1>2, <3>3 DEF TasksOK, RanksAgree
    <3>6. RanksAgree(h)
      BY <3>1, <3>5 DEF RanksAgree, kind
    <3>7. ScheduleNext(g) = h
      BY <1>2, <2>2 DEF ScheduleNext, h, kind
    <3> QED
      BY <3>4, <3>6, <3>7 DEF TasksOK
  <2>3. CASE LeadRank(kind) \in g.on
    <3>1. RanksOf(kind) \subseteq g.on
      BY <2>1, <2>3, LeadsAll DEF TaskTypes, Whole
    <3>2. ScheduleNext(g) = StartTask(g)
      BY <1>2, <2>3 DEF ScheduleNext, kind
    <3>3. g.active = 0 /\ ~g.switching /\ g.queue # <<>>
      BY <1>2
    <3>4. TasksOK(StartTask(g), done, sub)
      BY <3>1, <3>3, StartOK DEF kind
    <3> QED
      BY <3>2, <3>4
  <2> QED
    BY <2>2, <2>3
<1> QED
  BY <1>1, <1>2

\* Whether update ended the active task.
Ended(g) == g.active # 0 /\ UpdateGts(g).active = 0

\* The scheduler with one field changed.
LEMMA DelaySet ==
    ASSUME NEW g, Whole(g), NEW d
    PROVE  [g EXCEPT !.delay = d] =
             [queue |-> g.queue, cap |-> g.cap, active |-> g.active,
              dangling |-> g.dangling, ran |-> g.ran, on |-> g.on, busy |-> g.busy,
              left |-> g.left, switching |-> g.switching, delay |-> d]
BY DEF Whole

LEMMA SwitchingSet ==
    ASSUME NEW g, Whole(g), NEW d
    PROVE  [g EXCEPT !.switching = d] =
             [queue |-> g.queue, cap |-> g.cap, active |-> g.active,
              dangling |-> g.dangling, ran |-> g.ran, on |-> g.on, busy |-> g.busy,
              left |-> g.left, switching |-> d, delay |-> g.delay]
BY DEF Whole

\* update while the ranks switch.
LEMMA SwitchingOK ==
    ASSUME NEW g, NEW done, NEW sub, TasksOK(g, done, sub), g.switching
    PROVE  TasksOK(UpdateGts(g), done, sub) /\ ~Ended(g)
<1>1. TaskTypes(g) /\ g.active = 0 /\ g.busy = {} /\ g.queue # <<>>
      /\ RanksOf(Jobs[Head(g.queue)].kind) \subseteq g.on
  BY DEF TasksOK, TaskTypes, RanksAgree
<1>2. CASE g.delay > 0
  <2> DEFINE d == g.delay - 1
             h == [g EXCEPT !.delay = d]
  <2>1. UpdateGts(g) = h
    BY <1>2 DEF UpdateGts
  <2> HIDE DEF d
  <2>2. h = [queue |-> g.queue, cap |-> g.cap, active |-> g.active,
             dangling |-> g.dangling, ran |-> g.ran, on |-> g.on, busy |-> g.busy,
             left |-> g.left, switching |-> g.switching, delay |-> d]
    <3>1. Whole(g)
      BY <1>1 DEF TaskTypes
    <3> QED
      BY <3>1, DelaySet
  <2> HIDE DEF h
  <2>3. TaskTypes(h) /\ InLine(h, done, sub) /\ RanksAgree(h)
    BY <1>1, <2>2 DEF TaskTypes, Whole, TasksOK, InLine, RanksAgree
  <2> QED
    BY <1>1, <2>1, <2>3 DEF TasksOK, Ended
<1>3. CASE ~(g.delay > 0)
  <2> DEFINE f == [g EXCEPT !.switching = FALSE]
  <2>1. UpdateGts(g) = StartTask(f)
    BY <1>1, <1>3 DEF UpdateGts
  <2>2. f = [queue |-> g.queue, cap |-> g.cap, active |-> g.active,
             dangling |-> g.dangling, ran |-> g.ran, on |-> g.on, busy |-> g.busy,
             left |-> g.left, switching |-> FALSE, delay |-> g.delay]
    <3>1. Whole(g)
      BY <1>1 DEF TaskTypes
    <3> QED
      BY <3>1, SwitchingSet
  <2> HIDE DEF f
  <2>3. TaskTypes(f) /\ InLine(f, done, sub) /\ RanksAgree(f)
    BY <1>1, <2>2 DEF TaskTypes, Whole, TasksOK, InLine, RanksAgree
  <2>4. f.active = 0 /\ ~f.switching /\ f.queue = g.queue /\ f.on = g.on
    BY <1>1, <2>2
  <2>5. TasksOK(StartTask(f), done, sub)
    BY <1>1, <2>3, <2>4, StartOK DEF TasksOK
  <2> QED
    BY <1>1, <2>1, <2>5 DEF Ended
<1> QED
  BY <1>2, <1>3

\* update while a task runs: one cycle of its ranks, or its end.
LEMMA RunningOK ==
    ASSUME NEW g, NEW done, NEW sub, TasksOK(g, done, sub), g.active # 0
    PROVE  /\ TasksOK(UpdateGts(g), IF Ended(g) THEN done + 1 ELSE done, sub)
           /\ Ended(g) => /\ g.active = done + 1 /\ g.active \in 1 .. N
                          /\ RanksOf(Jobs[g.active].kind) # {} => g.ran = Asked(g.active)
<1> DEFINE i == g.active
           R == RanksOf(Jobs[i].kind)
           c == Asked(i)
           runs == {r \in g.busy : g.left[r] > 0}
           left == [r \in Gated |-> IF r \in runs THEN g.left[r] - 1 ELSE g.left[r]]
           h == UpdateGts(g)
<1>1. /\ TaskTypes(g) /\ i \in 1 .. N /\ i = done + 1 /\ g.queue # <<>> /\ done \in Nat
      /\ ~g.switching /\ g.busy = R /\ R \subseteq g.on
      /\ \A r \in R : g.left[r] + g.ran = c
      /\ R \subseteq Gated /\ g.left \in [Gated -> Nat] /\ g.ran \in Nat
  BY DEF TasksOK, TaskTypes, InLine, RanksAgree
<1>2. c \in Nat
  BY <1>1, CountsOK
<1>3. CASE runs = {}
  <2> DEFINE q == Tail(g.queue)
  <2>1. h = [g EXCEPT !.left = left, !.busy = @ \cap runs, !.ran = g.ran, !.active = 0,
                      !.queue = q]
    BY <1>1, <1>3 DEF UpdateGts
  <2>2. left = g.left
    BY <1>1, <1>3
  <2>3. R # {} => g.ran = c
    BY <1>1, <1>2, <1>3
  <2>4. /\ q \in Seq(1 .. N) /\ Len(q) \in Nat /\ Len(g.queue) = Len(q) + 1
        /\ \A k \in 1 .. Len(q) : q[k] = g.queue[k + 1]
    BY <1>1, HeadTailProperties, LenProperties, EmptySeq DEF TaskTypes, Whole
  <2> HIDE DEF q
  <2>5. h = [queue |-> q, cap |-> g.cap, active |-> 0,
             dangling |-> g.dangling, ran |-> g.ran, on |-> g.on, busy |-> {},
             left |-> g.left, switching |-> g.switching, delay |-> g.delay]
    <3> DEFINE a == [g EXCEPT !.left = left]
               b == [a EXCEPT !.busy = @ \cap runs]
               d == [b EXCEPT !.ran = g.ran]
    <3>1. a = g
      BY <1>1, <2>2 DEF TaskTypes, Whole
    <3>2. b = [queue |-> g.queue, cap |-> g.cap, active |-> g.active,
               dangling |-> g.dangling, ran |-> g.ran, on |-> g.on, busy |-> {},
               left |-> g.left, switching |-> g.switching, delay |-> g.delay]
      <4>1. b = [g EXCEPT !.busy = {}]
        BY <1>3, <3>1
      <4>2. Whole(g)
        BY <1>1 DEF TaskTypes, Whole
      <4> QED
        BY <4>1, <4>2 DEF Whole
    <3>3. h = [d EXCEPT !.active = 0, !.queue = q]
      BY <2>1
    <3> HIDE DEF b, h
    <3>4. d = b
      BY <3>2
    <3> HIDE DEF d
    <3> QED
      BY <3>2, <3>3, <3>4
  <2>6. Ended(g)
    BY <1>1, <2>5 DEF Ended
  <2> HIDE DEF h
  <2>7. TaskTypes(h)
    <3>1. N \in Nat
      BY CountsOK
    <3> QED
      BY <1>1, <2>4, <2>5, <3>1 DEF TaskTypes, Whole
  <2>8. InLine(h, done + 1, sub)
    <3>1. /\ done + Len(g.queue) = sub /\ sub \in 0 .. N
          /\ \A k \in 1 .. Len(g.queue) : g.queue[k] = done + k
      BY DEF TasksOK, InLine
    <3>2. \A k \in 1 .. Len(q) : q[k] = done + 1 + k
      <4> SUFFICES ASSUME NEW k \in 1 .. Len(q) PROVE q[k] = done + 1 + k
        OBVIOUS
      <4>1. k + 1 \in 1 .. Len(g.queue) /\ q[k] = g.queue[k + 1]
        BY <2>4
      <4>2. q[k] = done + (k + 1)
        BY <3>1, <4>1
      <4> QED
        BY <1>1, <4>2
    <3> QED
      BY <1>1, <2>4, <2>5, <3>1, <3>2 DEF InLine
  <2>9. RanksAgree(h)
    BY <1>1, <2>5 DEF RanksAgree
  <2> QED
    BY <1>1, <2>3, <2>6, <2>7, <2>8, <2>9 DEF TasksOK, h
<1>4. CASE runs # {}
  <2>1. h = [g EXCEPT !.left = left, !.busy = @ \cap runs, !.ran = @ + 1]
    BY <1>1, <1>4 DEF UpdateGts
  <2>2. runs = R
    BY <1>1, <1>2, <1>4
  <2> DEFINE n == g.ran + 1
             e == [a \in Gated |-> IF a \in R THEN g.left[a] - 1 ELSE g.left[a]]
  <2>3. left = e /\ e \in [Gated -> Nat] /\ \A r \in R : e[r] + n = c
    <3>1. left = e
      BY <2>2
    <3>2. \A r \in R : g.left[r] > 0 /\ g.left[r] \in Nat
      BY <1>1, <2>2
    <3>3. e \in [Gated -> Nat]
      BY <1>1, <3>2
    <3>4. \A r \in R : e[r] = g.left[r] - 1
      BY <1>1
    <3>5. ASSUME NEW r \in R PROVE e[r] + n = c
      <4> DEFINE l == g.left[r]
      <4>1. e[r] = l - 1 /\ l \in Nat /\ l + g.ran = c /\ g.ran \in Nat
        BY <1>1, <3>2, <3>4
      <4> HIDE DEF l, e
      <4> QED
        BY <1>2, <4>1
    <3> QED
      BY <3>1, <3>3, <3>5
  <2>4. n \in Nat
    BY <1>1
  <2> HIDE DEF e, n, left, h
  <2>5. h = [queue |-> g.queue, cap |-> g.cap, active |-> g.active,
             dangling |-> g.dangling, ran |-> n, on |-> g.on, busy |-> g.busy,
             left |-> e, switching |-> g.switching, delay |-> g.delay]
    <3> DEFINE a == [g EXCEPT !.left = e]
               b == [a EXCEPT !.busy = g.busy]
    <3>1. a = [queue |-> g.queue, cap |-> g.cap, active |-> g.active,
               dangling |-> g.dangling, ran |-> g.ran, on |-> g.on, busy |-> g.busy,
               left |-> e, switching |-> g.switching, delay |-> g.delay]
      BY <1>1, SMTT(30) DEF TaskTypes, Whole
    <3>2. g.busy \cap runs = g.busy
      BY <1>1, <2>2
    <3>3. h = [a EXCEPT !.busy = g.busy, !.ran = n]
      BY <2>1, <2>3, <3>2, <3>1 DEF n
    <3> HIDE DEF a
    <3> QED
      BY <3>1, <3>3
  <2>6. h.active # 0 /\ ~Ended(g)
    BY <2>5 DEF Ended, h
  <2>7. TaskTypes(h) /\ InLine(h, done, sub)
    BY <1>1, <2>3, <2>4, <2>5 DEF TaskTypes, Whole, TasksOK, InLine
  <2>8. RanksAgree(h)
    <3>1. /\ h.active = i /\ h.busy = R /\ h.left = e /\ h.ran = n /\ h.on = g.on
          /\ h.switching = g.switching
      BY <1>1, <2>5
    <3> HIDE DEF R, c, i
    <3> QED
      BY <1>1, <2>3, <2>6, <3>1 DEF RanksAgree, R, c
  <2> QED
    BY <2>6, <2>7, <2>8 DEF TasksOK, h
<1> QED
  BY <1>3, <1>4

LEMMA UpdateGtsOK ==
    ASSUME NEW g, NEW done, NEW sub, TasksOK(g, done, sub)
    PROVE  /\ TasksOK(UpdateGts(g), IF Ended(g) THEN done + 1 ELSE done, sub)
           /\ Ended(g) => /\ g.active = done + 1 /\ g.active \in 1 .. N
                          /\ RanksOf(Jobs[g.active].kind) # {} => g.ran = Asked(g.active)
<1>1. CASE g.active # 0
  BY <1>1, RunningOK
<1>2. CASE g.active = 0 /\ g.switching
  <2>1. TasksOK(UpdateGts(g), done, sub) /\ ~Ended(g)
    BY <1>2, SwitchingOK
  <2> QED
    BY <2>1
<1>3. CASE g.active = 0 /\ ~g.switching
  <2>1. UpdateGts(g) = g /\ ~Ended(g)
    BY <1>3 DEF UpdateGts, Ended
  <2> QED
    BY <2>1
<1> QED
  BY <1>1, <1>2, <1>3

LEMMA TickStep == ASSUME GtsInv, Tick PROVE GtsInv'
<1> DEFINE done == Len(served)
           last == <<gts.active, gts.ran>>
<1>1. TasksOK(gts, done, subs) /\ ServedRan(served) /\ done \in Nat
  BY LenProperties DEF GtsInv, ServedRan
<1>2. PICK g \in {UpdateGts(gts)} :
        /\ gts' = IF g.active = 0 /\ ~g.switching THEN ScheduleNext(g) ELSE g
        /\ served' = IF gts.active # 0 /\ g.active = 0 THEN Append(served, last) ELSE served
  BY DEF Tick
<1>3. subs' = subs
  BY DEF Tick
<1>4. g = UpdateGts(gts) /\ served' = IF Ended(gts) THEN Append(served, last) ELSE served
  BY <1>2 DEF Ended
<1> HIDE DEF done
<1>5. /\ TasksOK(g, IF Ended(gts) THEN done + 1 ELSE done, subs)
      /\ Ended(gts) =>
           /\ gts.active = done + 1 /\ gts.active \in 1 .. N
           /\ RanksOf(Jobs[gts.active].kind) # {} => gts.ran = Asked(gts.active)
  BY <1>1, <1>4, UpdateGtsOK
<1>6. TasksOK(gts', IF Ended(gts) THEN done + 1 ELSE done, subs)
  BY <1>2, <1>5, ScheduleOK
<1>7. CASE Ended(gts)
  <2> DEFINE T == (1 .. N) \X Nat
             sv == Append(served, last)
  <2>1. last \in T /\ served \in Seq(T)
    BY <1>1, <1>5, <1>7 DEF ServedRan, TasksOK, TaskTypes
  <2>2. last[1] = done + 1 /\ last[2] = gts.ran
    BY <1>5, <1>7
  <2> HIDE DEF T, last
  <2>3. /\ sv \in Seq(T) /\ Len(sv) = done + 1 /\ sv[done + 1] = last
        /\ \A i \in 1 .. done : sv[i] = served[i]
    BY <2>1, AppendProperties DEF done
  <2> HIDE DEF sv
  <2>4. ASSUME NEW i \in 1 .. Len(sv)
        PROVE  sv[i][1] = i /\ (RanksOf(Jobs[i].kind) # {} => sv[i][2] = Asked(i))
    <3>1. CASE i = done + 1
      BY <1>5, <1>7, <2>2, <2>3, <3>1
    <3>2. CASE i # done + 1
      <4>1. i \in 1 .. done
        BY <1>1, <2>3, <3>2
      <4> QED
        BY <1>1, <2>3, <4>1 DEF ServedRan, done
    <3> QED
      BY <3>1, <3>2
  <2>5. ServedRan(sv)
    BY <2>3, <2>4 DEF ServedRan, T
  <2> QED
    BY <1>3, <1>4, <1>6, <1>7, <2>3, <2>5 DEF GtsInv, sv
<1>8. CASE ~Ended(gts)
  BY <1>1, <1>3, <1>4, <1>6, <1>8 DEF GtsInv, done
<1> QED
  BY <1>7, <1>8

\* A task joins the end of the queue.
LEMMA SubmitStep == ASSUME GtsInv, Submit PROVE GtsInv'
<1> DEFINE done == Len(served)
           q == Append(gts.queue, subs + 1)
           cap == IF Len(gts.queue) = gts.cap
                  THEN IF gts.cap = 0 THEN 1 ELSE 2 * gts.cap ELSE gts.cap
           dangling == gts.dangling \/ (Len(gts.queue) = gts.cap /\ gts.active # 0)
           h == [gts EXCEPT !.queue = q, !.cap = cap, !.dangling = dangling]
<1>1. /\ TaskTypes(gts) /\ InLine(gts, done, subs) /\ RanksAgree(gts) /\ ServedRan(served)
  BY DEF GtsInv, TasksOK
<1>2. gts' = h /\ subs' = subs + 1 /\ served' = served /\ subs < N
  BY DEF Submit, N
<1>3. /\ gts.queue \in Seq(1 .. N) /\ subs \in 0 .. N /\ N \in Nat /\ done \in Nat
      /\ done + Len(gts.queue) = subs /\ Len(gts.queue) \in Nat
  BY <1>1, CountsOK, LenProperties DEF TaskTypes, InLine
<1>4. /\ q \in Seq(1 .. N) /\ Len(q) = Len(gts.queue) + 1 /\ q # <<>>
      /\ q[Len(gts.queue) + 1] = subs + 1
      /\ \A i \in 1 .. Len(gts.queue) : q[i] = gts.queue[i]
  <2> DEFINE T == 1 .. N
             n == subs + 1
  <2>1. n \in T /\ gts.queue \in Seq(T)
    BY <1>2, <1>3
  <2> HIDE DEF T, n
  <2>2. /\ Append(gts.queue, n) \in Seq(T)
        /\ Len(Append(gts.queue, n)) = Len(gts.queue) + 1
        /\ Append(gts.queue, n)[Len(gts.queue) + 1] = n
        /\ \A i \in 1 .. Len(gts.queue) : Append(gts.queue, n)[i] = gts.queue[i]
    BY <2>1, AppendProperties
  <2>3. Append(gts.queue, n) # <<>>
    BY <1>3, <2>2, EmptySeq, SMTT(30)
  <2> QED
    BY <2>2, <2>3 DEF T, n
<1> HIDE DEF q, cap, dangling, done
<1>5. h = [queue |-> q, cap |-> cap, active |-> gts.active,
           dangling |-> dangling, ran |-> gts.ran, on |-> gts.on, busy |-> gts.busy,
           left |-> gts.left, switching |-> gts.switching, delay |-> gts.delay]
  <2> DEFINE a == [gts EXCEPT !.queue = q]
             b == [a EXCEPT !.cap = cap]
  <2>1. Whole(gts)
    BY <1>1 DEF TaskTypes
  <2>2. a = [queue |-> q, cap |-> gts.cap, active |-> gts.active,
             dangling |-> gts.dangling, ran |-> gts.ran, on |-> gts.on,
             busy |-> gts.busy, left |-> gts.left, switching |-> gts.switching,
             delay |-> gts.delay]
    BY <2>1 DEF Whole
  <2>3. h = [b EXCEPT !.dangling = dangling]
    OBVIOUS
  <2> HIDE DEF a, h
  <2>4. b = [queue |-> q, cap |-> cap, active |-> gts.active,
             dangling |-> gts.dangling, ran |-> gts.ran, on |-> gts.on,
             busy |-> gts.busy, left |-> gts.left, switching |-> gts.switching,
             delay |-> gts.delay]
    BY <2>2
  <2> HIDE DEF b
  <2> QED
    BY <2>3, <2>4
<1> HIDE DEF h
<1>6. TaskTypes(h)
  BY <1>1, <1>4, <1>5 DEF TaskTypes, Whole
<1>7. InLine(h, done, subs + 1)
  <2>1. \A i \in 1 .. Len(q) : q[i] = done + i
    <3> SUFFICES ASSUME NEW i \in 1 .. Len(q) PROVE q[i] = done + i
      OBVIOUS
    <3>1. CASE i = Len(gts.queue) + 1
      BY <1>3, <1>4, <3>1, SMTT(30)
    <3>2. CASE i # Len(gts.queue) + 1
      <4>1. i \in 1 .. Len(gts.queue)
        BY <1>3, <1>4, <3>2, SMTT(30)
      <4> QED
        BY <1>1, <1>4, <4>1 DEF InLine
    <3> QED
      BY <3>1, <3>2
  <2> QED
    BY <1>1, <1>2, <1>3, <1>4, <1>5, <2>1, SMTT(30) DEF InLine
<1>8. RanksAgree(h)
  <2>1. gts.queue # <<>> => Head(q) = Head(gts.queue)
    <3> SUFFICES ASSUME gts.queue # <<>> PROVE Head(q) = Head(gts.queue)
      OBVIOUS
    <3>1. Head(q) = q[1] /\ Head(gts.queue) = gts.queue[1] /\ Len(gts.queue) \in Nat \ {0}
      BY <1>3, <1>4, HeadTailProperties, EmptySeq
    <3> QED
      BY <1>4, <3>1
  <2> QED
    BY <1>1, <1>4, <1>5, <2>1 DEF RanksAgree
<1>9. ServedRan(served) /\ done' = done
  BY <1>1, <1>2 DEF done
<1> QED
  BY <1>2, <1>6, <1>7, <1>8, <1>9 DEF GtsInv, TasksOK, done

LEMMA GtsStep == GtsInv /\ [GtsNext]_gtsVars => GtsInv'
<1> SUFFICES ASSUME GtsInv, [GtsNext]_gtsVars PROVE GtsInv'
  OBVIOUS
<1>1. CASE ExecuteAau
  BY <1>1 DEF GtsInv, ExecuteAau
<1>2. CASE UNCHANGED gtsVars
  BY <1>2 DEF GtsInv, gtsVars
<1> QED
  BY <1>1, <1>2, TickStep, SubmitStep DEF GtsNext

\* The invariant of the task scheduler.
THEOREM TasksStay == GtsSpec => []GtsInv
BY GtsStarts, GtsStep, PTL DEF GtsSpec

\* submit_task, schedule_next_task and update in any order: tasks complete in
\* the order they were submitted, on powered ranks, and each has run for
\* exactly the cycles it asked for, as long as a task's cycles fit the counter
\* of a rank (a uint32_t that gets a uint64_t).
THEOREM TasksServed ==
    ASSUME \A i \in 1 .. Len(Jobs) : Jobs[i].cycles < 2 ^ CounterBits
    PROVE  GtsSpec => []ServedInOrder
<1>1. ASSUME NEW i \in 1 .. N PROVE Asked(i) = Jobs[i].cycles
  <2> DEFINE w == 2 ^ CounterBits
             c == Jobs[i].cycles
  <2>1. w \in Nat \ {0} /\ c \in Nat /\ c < w
    BY <1>1, GatedAssumption, PowerOfTwo, CountsOK DEF N
  <2> HIDE DEF w, c
  <2>2. c % w = c
    BY <2>1
  <2> QED
    BY <2>2 DEF w, c, Asked
<1>2. GtsInv => ServedInOrder
  <2> SUFFICES ASSUME GtsInv PROVE ServedInOrder
    OBVIOUS
  <2>1. TaskTypes(gts) /\ InLine(gts, Len(served), subs) /\ RanksAgree(gts) /\ ServedRan(served)
    BY DEF GtsInv, TasksOK
  <2>2. BusyIsPowered
    BY <2>1 DEF RanksAgree, BusyIsPowered, TaskTypes
  <2>3. \A i \in DOMAIN served :
          /\ served[i][1] = i
          /\ RanksOf(Jobs[i].kind) # {} => served[i][2] = Jobs[i].cycles
    <3> SUFFICES ASSUME NEW i \in DOMAIN served
                 PROVE  /\ served[i][1] = i
                        /\ RanksOf(Jobs[i].kind) # {} => served[i][2] = Jobs[i].cycles
      OBVIOUS
    <3>1. i \in 1 .. Len(served)
      BY <2>1, LenProperties DEF ServedRan
    <3>2. i \in 1 .. N
      BY <2>1, <3>1, LenProperties, CountsOK DEF InLine, TaskTypes
    <3> QED
      BY <1>1, <2>1, <3>1, <3>2 DEF ServedRan
  <2> QED
    BY <2>2, <2>3 DEF ServedInOrder
<1> QED
  BY <1>2, TasksStay, PTL
=============================================================================
