--------------------------- MODULE ServingProofs ---------------------------
(***************************************************************************)
(* Proofs about Serving: whatever the trace, the batch bound, the mode and *)
(* the networks beside it, the caches follow the tokens and no step holds  *)
(* more requests than the batch.                                           *)
(*                                                                         *)
(* The invariant StateOK has two parts.  LangOK: a request is in exactly   *)
(* one place (waiting, active, done), in the order of the trace, and its   *)
(* record agrees with the trace and with what was computed.  OneBatch and  *)
(* Computes: of all registered and queued models at most one is a language *)
(* model, and its inputs are the records of the requests in_model, as they *)
(* were when it was made; so the pass that ends counts the tokens that     *)
(* were computed (LangScheduler::finish_model).                            *)
(***************************************************************************)
EXTENDS Serving, DataFacts

-----------------------------------------------------------------------------
(* The shape of the tables, and facts about numbers and orders.            *)

Trace == serving.requests
Least(i) == Trace[i].cached + Trace[i].prompt + 1
Full(i) == Trace[i].cached + Trace[i].prompt + Trace[i].output

LangFields == {"waiting", "active", "in_model", "done", "computed", "exited"}
ReqFields == {"id", "time", "prompt", "len", "target", "gen", "running"}

\* The record of the i-th request of the trace.
RequestOK(a, i, computed) ==
    /\ a = [f \in ReqFields |-> a[f]]
    /\ a.id = i - 1 /\ a.prompt = Trace[i].prompt /\ a.target = Full(i)
    /\ a.gen \in BOOLEAN /\ a.len \in Nat /\ computed \in Nat
    /\ a.len = computed + (IF a.gen THEN 1 ELSE 0)
    /\ a.gen => Least(i) <= a.len /\ a.len < a.target
    /\ ~a.gen => a.len = Trace[i].cached

\* The lengths a request can end with.
EndOK(end, i, computed) ==
    end = Largest({Least(i), Full(i)}) /\ computed = end - 1

ActiveBound == serving.max_batch + (IF serving.mode = "iter" THEN 1 ELSE 0)
Taken(l) == Len(Trace) - Len(l.waiting)
SmallBatch(l) ==
    (Language /\ serving.max_batch > 0) =>
        Len(l.in_model) <= serving.max_batch /\ Cardinality(DOMAIN l.active) <= ActiveBound

TablesOK(l) ==
    /\ \A id \in DOMAIN l.active : RequestOK(l.active[id], id + 1, l.computed[id])
    /\ \A id \in DOMAIN l.done : EndOK(l.done[id], id + 1, l.computed[id])
QueueOK(l) ==
    /\ l.waiting \in Seq({l.waiting[i] : i \in DOMAIN l.waiting}) /\ Len(l.waiting) <= Len(Trace)
    /\ \A i \in 1 .. Len(l.waiting) : l.waiting[i] = parse_request_trace(Trace)[Taken(l) + i]
LangOK(l) ==
    /\ l = [f \in LangFields |-> l[f]]
    /\ QueueOK(l)
    /\ DOMAIN l.computed = 0 .. Taken(l) - 1
    /\ DOMAIN l.active \cup DOMAIN l.done = 0 .. Taken(l) - 1
    /\ DOMAIN l.active \cap DOMAIN l.done = {}
    /\ TablesOK(l)
    /\ l.in_model \in Seq(DOMAIN l.active)
    /\ SmallBatch(l)

\* The requests of a setup are numbers.
LEMMA TraceTypes ==
    ASSUME serving \in ServingSetups
    PROVE  /\ Trace \in Seq([time : Nat, prompt : Nat, output : Nat, cached : Nat])
           /\ Len(Trace) \in Nat /\ serving.max_batch \in Nat
           /\ serving.mode \in {"simple", "iter", "onnx"}
           /\ \A i \in 1 .. Len(Trace) : /\ Trace[i].cached \in Nat /\ Trace[i].prompt \in Nat
                                         /\ Trace[i].output \in Nat
                                         /\ Least(i) \in Nat /\ Full(i) \in Nat
<1>1. /\ Trace \in Seq([time : Nat, prompt : Nat, output : Nat, cached : Nat])
      /\ serving.max_batch \in Nat /\ serving.mode \in {"simple", "iter", "onnx"}
  BY ServingAssumption DEF Trace
<1> HIDE DEF Trace
<1>2. Len(Trace) \in Nat
  BY <1>1, LenProperties
<1>3. \A i \in 1 .. Len(Trace) : Trace[i] \in [time : Nat, prompt : Nat, output : Nat, cached : Nat]
  BY <1>1, ElementOfSeq
<1>4. \A i \in 1 .. Len(Trace) :
        Trace[i].cached \in Nat /\ Trace[i].prompt \in Nat /\ Trace[i].output \in Nat
  BY <1>3
<1>5. \A i \in 1 .. Len(Trace) : Least(i) \in Nat /\ Full(i) \in Nat
  BY <1>4, SMTT(30) DEF Least, Full
<1> QED
  BY <1>1, <1>2, <1>4, <1>5

\* Largest of a set of naturals.
LEMMA LargestIs ==
    ASSUME NEW S \in SUBSET Nat, NEW n \in Nat, \A x \in S : x <= n
    PROVE  /\ Largest(S) \in Nat /\ Largest(S) \in S \cup {0}
           /\ \A x \in S : x <= Largest(S)
<1> DEFINE M == {0} \cup S
<1>1. M \in SUBSET Nat /\ M # {} /\ \A x \in M : x <= n
  OBVIOUS
<1>2. Max(M) \in M /\ \A y \in M : Max(M) >= y
  <2> HIDE DEF M
  <2> QED
    BY <1>1, MaxIs
<1>3. Largest(S) = Max(M)
  BY DEF Largest
<1> DEFINE x == Max(M)
<1>4. x \in M /\ (\A y \in M : x >= y) /\ Largest(S) = x
  BY <1>2, <1>3
<1> HIDE DEF x
<1>5. x \in Nat
  BY <1>1, <1>4
<1> QED
  BY <1>1, <1>4, <1>5

\* The greater of two.
LEMMA LargestOfTwo ==
    ASSUME NEW a \in Nat, NEW b \in Nat
    PROVE  Largest({a, b}) = IF a >= b THEN a ELSE b
<1> DEFINE S == {a, b}
           n == a + b
<1>1. S \in SUBSET Nat /\ n \in Nat /\ \A x \in S : x <= n
  OBVIOUS
<1> DEFINE x == Largest(S)
<1>2. x \in Nat /\ x \in S \cup {0} /\ \A y \in S : y <= x
  <2> HIDE DEF S, n
  <2> QED BY <1>1, LargestIs
<1> HIDE DEF x
<1>3. x = IF a >= b THEN a ELSE b
  BY <1>2
<1> QED
  BY <1>3 DEF x

\* Of one.
LEMMA LargestOfOne ==
    ASSUME NEW a \in Nat
    PROVE  Largest({a}) = a
<1>1. {a} = {a, a}
  OBVIOUS
<1> QED
  BY <1>1, LargestOfTwo

\* A finite set of naturals in ascending order.
LEMMA AscendingIs ==
    ASSUME NEW S \in SUBSET Nat, IsFiniteSet(S)
    PROVE  Ascending(S) \in [1 .. Cardinality(S) -> S]
<1> DEFINE Up(s) == \A i, j \in DOMAIN s : i < j => s[i] < s[j]
           P == {U \in SUBSET S : \E s \in [1 .. Cardinality(U) -> U] : Up(s)}
<1>1. \A U \in SUBSET S : IsFiniteSet(U) /\ Cardinality(U) \in Nat
  BY FS_Subset, FS_CardinalityType
<1>2. ASSUME NEW U \in SUBSET S, \A V \in SUBSET U : V # U => V \in P
      PROVE  U \in P
  <2>1. CASE U = {}
    <3>1. Cardinality(U) = 0
      BY <2>1, FS_EmptySet
    <3>2. 1 .. Cardinality(U) = {}
      BY <3>1
    <3>3. [x \in {} |-> x] \in [1 .. Cardinality(U) -> U] /\ Up([x \in {} |-> x])
      BY <3>2
    <3> QED
      BY <3>3
  <2>2. CASE U # {}
    <3>2. PICK m \in U : \A y \in U : y <= m
      <4>1. U \in SUBSET Nat /\ IsFiniteSet(U)
        BY <1>1
      <4> QED
        BY <2>2, <4>1, GreatestIs
    <3> DEFINE V == U \ {m}
    <3>3. m \in Nat
      OBVIOUS
    <3>4. V \in SUBSET U /\ V # U /\ Cardinality(V) = Cardinality(U) - 1
      BY <1>1, FS_RemoveElement
    <3>5. PICK s \in [1 .. Cardinality(V) -> V] : Up(s)
      BY <1>2, <3>4
    <3> DEFINE n == Cardinality(U)
               t == [i \in 1 .. n |-> IF i = n THEN m ELSE s[i]]
    <3>6. n \in Nat /\ Cardinality(V) = n - 1
      BY <1>1, <3>4
    <3> HIDE DEF n
    <3>7. s \in [1 .. n - 1 -> V]
      BY <3>5, <3>6
    <3>8. t \in [1 .. n -> U]
      BY <3>3, <3>6, <3>7
    <3>9. \A i, j \in 1 .. n : i < j => t[i] < t[j]
      <4> TAKE i, j \in 1 .. n
      <4> HAVE i < j
      <4>1. t[i] = s[i] /\ s[i] \in V /\ s[i] \in Nat /\ s[i] <= m /\ s[i] # m /\ m \in Nat
        <5>1. i \in 1 .. n - 1
          BY <3>6
        <5>2. s[i] \in V
          BY <3>7, <5>1
        <5>3. s[i] \in U /\ s[i] # m
          BY <5>2
        <5>4. t[i] = s[i]
          BY <3>6, <5>1
        <5> QED
          BY <3>2, <3>3, <5>2, <5>3, <5>4
      <4>2. CASE j = n
        BY <4>1, <4>2
      <4>3. CASE j # n
        <5>1. t[j] = s[j] /\ i \in 1 .. n - 1 /\ j \in 1 .. n - 1
          BY <3>6, <4>3
        <5>2. s[i] < s[j]
          BY <3>5, <3>7, <5>1
        <5> QED
          BY <4>1, <5>1, <5>2
      <4> QED
        BY <4>2, <4>3
    <3>10. Up(t)
      BY <3>8, <3>9
    <3> HIDE DEF t, Up
    <3> QED
      BY <3>8, <3>10 DEF n
  <2> QED
    BY <2>1, <2>2
<1>3. S \in P
  <2> HIDE DEF P
  <2> QED
    BY <1>2, SubsetInduction
<1>4. \E s \in [1 .. Cardinality(S) -> S] : Up(s)
  BY <1>3
<1> QED
  BY <1>4 DEF Ascending

-----------------------------------------------------------------------------
(* Admission.                                                              *)

Parsed == parse_request_trace(Trace)

\* A parsed request is one nothing has been computed of.
LEMMA ParsedIs ==
    ASSUME serving \in ServingSetups, NEW k \in 1 .. Len(Trace)
    PROVE  /\ Parsed[k].id = k - 1
           /\ RequestOK(Parsed[k], k, Parsed[k].len)
<1>1. DOMAIN Trace = 1 .. Len(Trace) /\ Trace[k].cached \in Nat
  BY TraceTypes, LenProperties
<1>2. Parsed[k] = [id |-> k - 1, time |-> Trace[k].time, prompt |-> Trace[k].prompt, len |-> Trace[k].cached,
         target |-> Full(k), gen |-> FALSE, running |-> FALSE]
  <2> HIDE DEF Trace
  <2> QED
    BY <1>1 DEF Parsed, parse_request_trace, Full
<1>3. Parsed[k] = [f \in ReqFields |-> Parsed[k][f]]
  BY <1>2 DEF ReqFields
<1>4. /\ Parsed[k].id = k - 1 /\ Parsed[k].prompt = Trace[k].prompt /\ Parsed[k].len = Trace[k].cached
      /\ Parsed[k].target = Full(k) /\ Parsed[k].gen = FALSE
  BY <1>2
<1> DEFINE p == Parsed[k]
<1> HIDE DEF Trace, p
<1>5. RequestOK(p, k, p.len)
  <2>1. /\ p = [f \in ReqFields |-> p[f]]
        /\ p.id = k - 1 /\ p.prompt = Trace[k].prompt /\ p.len = Trace[k].cached
        /\ p.target = Full(k) /\ p.gen = FALSE /\ p.len \in Nat
    BY <1>1, <1>3, <1>4 DEF p
  <2>2. p.len = p.len + 0
    BY <2>1
  <2> QED
    BY <2>1, <2>2 DEF RequestOK
<1> QED
  BY <1>4, <1>5 DEF p

\* The requests that wait, and how many of them admission takes.
LEMMA WaitingIs ==
    ASSUME serving \in ServingSetups, NEW l, QueueOK(l)
    PROVE  /\ Len(l.waiting) \in Nat /\ Taken(l) \in Nat /\ DOMAIN l.waiting = 1 .. Len(l.waiting)
           /\ Taken(l) + Len(l.waiting) = Len(Trace)
           /\ \A i \in 1 .. Len(l.waiting) :
                /\ l.waiting[i].id = (Taken(l) + i) - 1
                /\ RequestOK(l.waiting[i], Taken(l) + i, l.waiting[i].len)
<1>1. Len(l.waiting) \in Nat /\ DOMAIN l.waiting = 1 .. Len(l.waiting)
  BY LenProperties DEF QueueOK
<1>2. Len(Trace) \in Nat
  BY TraceTypes
<1>3. Taken(l) \in Nat /\ Taken(l) + Len(l.waiting) = Len(Trace)
  BY <1>1, <1>2 DEF Taken, QueueOK
<1>4. ASSUME NEW i \in 1 .. Len(l.waiting)
      PROVE  /\ l.waiting[i].id = (Taken(l) + i) - 1
             /\ RequestOK(l.waiting[i], Taken(l) + i, l.waiting[i].len)
  <2>1. Taken(l) + i \in 1 .. Len(Trace)
    BY <1>1, <1>2, <1>3
  <2>2. l.waiting[i] = Parsed[Taken(l) + i]
    BY DEF QueueOK, Parsed
  <2> QED
    BY <2>1, <2>2, ParsedIs
<1> QED
  BY <1>1, <1>3, <1>4

Admitted(l, now) == IF MayAdmit(l) THEN Min({Due(l, now), Room(l)}) ELSE 0

\* Only requests taken from the trace are active, finitely many.
LEMMA ActiveFinite ==
    ASSUME serving \in ServingSetups, NEW l, LangOK(l)
    PROVE  IsFiniteSet(DOMAIN l.active) /\ Cardinality(DOMAIN l.active) \in Nat
<1>1. Taken(l) \in Nat
  BY WaitingIs DEF LangOK
<1>2. IsFiniteSet(0 .. Taken(l) - 1)
  BY <1>1, FS_Interval
<1>3. DOMAIN l.active \subseteq 0 .. Taken(l) - 1
  BY DEF LangOK
<1> QED
  BY <1>2, <1>3, FS_Subset, FS_CardinalityType

\* admit takes at most what waits, and what the batch has room for.
LEMMA AdmittedIs ==
    ASSUME serving \in ServingSetups, NEW l, LangOK(l), NEW now
    PROVE  /\ Admitted(l, now) \in 0 .. Len(l.waiting)
           /\ (Language /\ serving.max_batch > 0 /\ Admitted(l, now) # 0) =>
                 Cardinality(DOMAIN l.active) + Admitted(l, now) <= ActiveBound
<1> DEFINE w == Len(l.waiting)
           c == Cardinality(DOMAIN l.active)
           mb == serving.max_batch
           a == Admitted(l, now)
           S == {i \in DOMAIN l.waiting : \A j \in 1 .. i : l.waiting[j].time <= now}
           due == Largest(S)
           room == Room(l)
<1>1. w \in Nat /\ c \in Nat /\ mb \in Nat /\ DOMAIN l.waiting = 1 .. w
  BY WaitingIs, ActiveFinite, TraceTypes DEF LangOK
<1>2. CASE ~MayAdmit(l)
  <2>1. a = 0
    BY <1>2 DEF Admitted
  <2> QED
    BY <1>1, <2>1
<1>3. CASE MayAdmit(l)
  <2>1. due \in Nat /\ due <= w
    <3>1. S \in SUBSET Nat /\ \A x \in S : x <= w
      BY <1>1
    <3>2. S \subseteq 1 .. w
      BY <1>1
    <3> HIDE DEF S
    <3>3. due \in Nat /\ due \in S \cup {0}
      BY <1>1, <3>1, LargestIs
    <3> QED
      BY <1>1, <3>2, <3>3
  <2>2. c = 0 \/ (serving.mode # "simple" /\ (mb = 0 \/ c <= mb))
    BY <1>3, FS_EmptySet DEF MayAdmit
  <2>3. mb # 0 => room = IF mb - c >= 1 THEN mb - c ELSE 1
    <3>1. ASSUME mb # 0 PROVE mb - c \in Nat
      BY <1>1, <2>2, <3>1
    <3>2. ASSUME mb # 0 PROVE room = Largest({1, mb - c})
      BY <3>2 DEF Room
    <3> HIDE DEF mb, c, room
    <3>3. ASSUME mb # 0 PROVE Largest({1, mb - c}) = IF 1 >= mb - c THEN 1 ELSE mb - c
      BY <3>1, <3>3, LargestOfTwo
    <3>4. ASSUME mb # 0 PROVE room = IF mb - c >= 1 THEN mb - c ELSE 1
      BY <1>1, <3>1, <3>2, <3>3, <3>4
    <3> QED
      BY <3>4
  <2>4. mb = 0 => room = w
    BY DEF Room
  <2>5. room \in Nat
    BY <1>1, <2>3, <2>4
  <2>6. a = Min({due, room})
    BY <1>3 DEF Admitted, Due
  <2> HIDE DEF due, room, a
  <2>7. a \in {due, room} /\ a <= due /\ a <= room
    <3>1. {due, room} \in SUBSET Nat /\ {due, room} # {}
      BY <2>1, <2>5
    <3> QED
      BY <2>6, <3>1, MinIs
  <2>8. a \in 0 .. w
    BY <1>1, <2>1, <2>5, <2>7
  <2>9. ASSUME Language, mb > 0
        PROVE  c + a <= ActiveBound
    <3>1. serving.mode = "simple" \/ serving.mode = "iter"
      BY <2>9, TraceTypes DEF Language
    <3>2. CASE c = 0
      <4>1. room = mb
        BY <1>1, <2>3, <2>9, <3>2
      <4>2. ActiveBound = mb \/ ActiveBound = mb + 1
        BY <1>1 DEF ActiveBound
      <4> QED
        BY <1>1, <2>7, <2>8, <3>2, <4>1, <4>2
    <3>3. CASE c # 0
      <4>1. serving.mode = "iter" /\ c <= mb
        BY <2>2, <2>9, <3>1, <3>3
      <4>2. ActiveBound = mb + 1
        BY <4>1 DEF ActiveBound
      <4> QED
        BY <1>1, <2>3, <2>7, <2>8, <2>9, <4>1, <4>2
    <3> QED
      BY <3>2, <3>3
  <2> QED
    BY <2>8, <2>9 DEF a
<1> QED
  BY <1>2, <1>3

\* The tokens of the batch that is under way: generate_model's view of it.
Batch(l) == [i \in DOMAIN l.in_model |->
               [id |-> l.in_model[i], rows |-> l.active[l.in_model[i]].len,
                tokens |-> IF l.active[l.in_model[i]].gen THEN 1 ELSE l.active[l.in_model[i]].prompt]]

\* Admission moves requests from the front of the trace into the tables.
LEMMA AdmitOK ==
    ASSUME serving \in ServingSetups, NEW l, LangOK(l), NEW now
    PROVE  /\ LangOK(admit(l, now)) /\ admit(l, now).in_model = l.in_model
           /\ Batch(admit(l, now)) = Batch(l)
<1> DEFINE n == Admitted(l, now)
           w == Len(l.waiting)
           t == Taken(l)
           new == {l.waiting[i].id : i \in 1 .. n}
           Arrived(id) == CHOOSE r \in ToSet(l.waiting) : r.id = id
           x == admit(l, now)
<1>1. /\ w \in Nat /\ t \in Nat /\ t + w = Len(Trace) /\ n \in 0 .. w /\ DOMAIN l.waiting = 1 .. w
      /\ \A i \in 1 .. w : /\ l.waiting[i].id = (t + i) - 1
                           /\ RequestOK(l.waiting[i], t + i, l.waiting[i].len)
  BY WaitingIs, AdmittedIs DEF LangOK
<1>2. /\ l = [f \in LangFields |-> l[f]]
      /\ QueueOK(l)
      /\ DOMAIN l.computed = 0 .. t - 1 /\ DOMAIN l.active \cup DOMAIN l.done = 0 .. t - 1
      /\ DOMAIN l.active \cap DOMAIN l.done = {}
      /\ TablesOK(l) /\ l.in_model \in Seq(DOMAIN l.active) /\ SmallBatch(l)
  BY DEF LangOK
<1>3. /\ x = [f \in LangFields |-> x[f]]
      /\ x.waiting = SubSeq(l.waiting, n + 1, w)
      /\ x.active = [id \in new \cup DOMAIN l.active |-> IF id \in new THEN Arrived(id) ELSE l.active[id]]
      /\ x.computed = [id \in new \cup DOMAIN l.computed |-> IF id \in new THEN Arrived(id).len ELSE l.computed[id]]
      /\ x.in_model = l.in_model /\ x.done = l.done
  BY <1>2 DEF admit, Admitted, LangFields
<1>4. new = t .. (t + n) - 1
  <2>0. /\ w \in Nat /\ t \in Nat /\ n \in 0 .. w
        /\ \A i \in 1 .. w : l.waiting[i].id = (t + i) - 1
    BY <1>1
  <2>1. ASSUME NEW k \in t .. (t + n) - 1 PROVE k \in new
    <3> DEFINE i == (k - t) + 1
    <3>1. i \in 1 .. n /\ i \in 1 .. w /\ (t + i) - 1 = k
      BY <2>0, SMTT(30)
    <3> HIDE DEF i
    <3>2. l.waiting[i].id = k
      BY <2>0, <3>1
    <3> QED
      BY <3>1, <3>2
  <2>2. ASSUME NEW i \in 1 .. n PROVE l.waiting[i].id \in t .. (t + n) - 1
    <3>1. i \in 1 .. w /\ (t + i) - 1 \in t .. (t + n) - 1
      BY <2>0
    <3>2. l.waiting[i].id = (t + i) - 1
      BY <2>0, <3>1
    <3> QED
      BY <3>1, <3>2
  <2> QED
    BY <2>1, <2>2
<1> HIDE DEF n, w, t, x, new, Arrived
<1>5. \A id \in new : /\ id - t + 1 \in 1 .. n /\ Arrived(id) = l.waiting[id - t + 1]
                      /\ RequestOK(Arrived(id), id + 1, Arrived(id).len)
  <2> TAKE id \in new
  <2>1. id \in Nat /\ id - t + 1 \in 1 .. n /\ id - t + 1 \in 1 .. w /\ t + (id - t + 1) = id + 1
    BY <1>1, <1>4, SMTT(30)
  <2> DEFINE i == id - t + 1
  <2>2. ToSet(l.waiting) = {l.waiting[j] : j \in 1 .. w}
    BY <1>1 DEF ToSet
  <2>3. \A j \in 1 .. w : l.waiting[j].id = id => j = i
    BY <1>1, <2>1
  <2>4. l.waiting[i] \in ToSet(l.waiting) /\ l.waiting[i].id = id
    BY <1>1, <2>1, <2>2
  <2>5. \A r \in ToSet(l.waiting) : r.id = id => r = l.waiting[i]
    BY <2>2, <2>3
  <2>6. Arrived(id) = l.waiting[i]
    BY <2>4, <2>5 DEF Arrived
  <2>7. RequestOK(l.waiting[i], t + i, l.waiting[i].len)
    BY <1>1, <2>1
  <2> QED
    BY <2>1, <2>6, <2>7
<1>6. new \cap (DOMAIN l.active \cup DOMAIN l.done) = {} /\ new \cup (0 .. t - 1) = 0 .. (t + n) - 1
  <2>1. \A k \in t .. (t + n) - 1 : k \notin 0 .. t - 1
    BY <1>1
  <2>2. new \cap (0 .. t - 1) = {}
    BY <1>4, <2>1
  <2>3. (t .. (t + n) - 1) \cup (0 .. t - 1) = 0 .. (t + n) - 1
    BY <1>1
  <2> QED
    BY <1>2, <1>4, <2>2, <2>3
<1>7. QueueOK(x) /\ Taken(x) = t + n /\ Len(x.waiting) = w - n
  <2>1. /\ l.waiting \in Seq({l.waiting[i] : i \in DOMAIN l.waiting}) /\ Len(Trace) \in Nat
        /\ \A i \in 1 .. w : l.waiting[i] = parse_request_trace(Trace)[t + i]
    BY <1>2, TraceTypes DEF QueueOK, w, t
  <2> DEFINE A == {l.waiting[i] : i \in DOMAIN l.waiting}
             y == x.waiting
  <2>2. /\ y \in Seq(A) /\ Len(y) = w - n
        /\ \A i \in 1 .. w - n : y[i] = l.waiting[n + i]
    <3>1. y = SubSeq(l.waiting, n + 1, w)
      BY <1>3
    <3> HIDE DEF A, y
    <3>2. /\ y \in Seq(A)
          /\ Len(y) = IF n + 1 <= w THEN (w - (n + 1)) + 1 ELSE 0
          /\ \A i \in 1 .. (w - (n + 1)) + 1 : y[i] = l.waiting[((n + 1) + i) - 1]
      <4>1. l.waiting \in Seq(A) /\ n + 1 \in Int /\ w \in Int
        BY <1>1, <2>1 DEF A
      <4>2. \A i \in (n + 1) .. w : l.waiting[i] \in A
        BY <1>1, SMTT(30) DEF A
      <4> QED
        BY <1>1, <3>1, <4>1, <4>2, SubSeqProperties DEF w
    <3>3. Len(y) = w - n
      BY <1>1, <3>2
    <3>4. ASSUME NEW i \in 1 .. w - n PROVE y[i] = l.waiting[n + i]
      <4>1. i \in 1 .. (w - (n + 1)) + 1 /\ ((n + 1) + i) - 1 = n + i
        BY <1>1
      <4> QED
        BY <3>2, <4>1
    <3> QED
      BY <3>2, <3>3, <3>4
  <2> HIDE DEF y
  <2>3. Len(Trace) - Len(y) = t + n
    <3>1. Len(Trace) = t + w /\ Len(y) = w - n
      BY <1>1, <2>2
    <3> QED
      BY <1>1, <3>1
  <2>4. ASSUME NEW i \in 1 .. w - n
        PROVE  y[i] = parse_request_trace(Trace)[(t + n) + i]
    <3>1. n + i \in 1 .. w /\ t + (n + i) = (t + n) + i
      BY <1>1
    <3> QED
      BY <2>1, <2>2, <3>1
  <2>5. y \in Seq({y[i] : i \in DOMAIN y})
    <3>1. DOMAIN y = 1 .. Len(y) /\ Len(y) \in Nat
      BY <2>2, LenProperties
    <3>2. y = [i \in 1 .. Len(y) |-> y[i]]
      BY <2>2, <3>1, LenProperties
    <3> QED
      BY <3>1, <3>2, IsASeq
  <2>6. Len(y) <= Len(Trace)
    BY <1>1, <2>1, <2>2
  <2> QED
    BY <2>2, <2>3, <2>4, <2>5, <2>6 DEF QueueOK, Taken, y
<1>8. /\ DOMAIN x.computed = 0 .. Taken(x) - 1 /\ DOMAIN x.active \cup DOMAIN x.done = 0 .. Taken(x) - 1
      /\ DOMAIN x.active \cap DOMAIN x.done = {}
      /\ DOMAIN x.active = new \cup DOMAIN l.active
  <2> QED
    BY <1>2, <1>3, <1>6, <1>7
<1>9. TablesOK(x)
  <2>1. ASSUME NEW id \in DOMAIN x.active
        PROVE  RequestOK(x.active[id], id + 1, x.computed[id])
    <3>1. id \in DOMAIN x.computed
      BY <1>8
    <3>2. CASE id \in new
      <4>1. x.active[id] = Arrived(id) /\ x.computed[id] = Arrived(id).len
        BY <1>3, <3>2
      <4> QED
        BY <1>5, <3>2, <4>1
    <3>3. CASE id \notin new
      <4>1. id \in DOMAIN l.active /\ x.active[id] = l.active[id] /\ id \in 0 .. t - 1
        BY <1>2, <1>3, <1>8, <3>3
      <4>2. x.computed[id] = l.computed[id]
        BY <1>2, <1>3, <3>3, <4>1
      <4> QED
        BY <1>2, <4>1, <4>2 DEF TablesOK
    <3> QED
      BY <3>2, <3>3
  <2>2. ASSUME NEW id \in DOMAIN x.done
        PROVE  EndOK(x.done[id], id + 1, x.computed[id])
    <3>1. id \in DOMAIN l.done /\ x.done[id] = l.done[id] /\ id \in 0 .. t - 1 /\ id \notin new
      BY <1>2, <1>3, <1>6
    <3>2. x.computed[id] = l.computed[id]
      BY <1>2, <1>3, <3>1
    <3> QED
      BY <1>2, <3>1, <3>2 DEF TablesOK
  <2> QED
    BY <2>1, <2>2 DEF TablesOK
<1>10. x.in_model \in Seq(DOMAIN x.active)
  BY <1>2, <1>3, <1>8, SeqMonotonic
<1>11. SmallBatch(x)
  <2> SUFFICES ASSUME Language, serving.max_batch > 0
               PROVE  Len(x.in_model) <= serving.max_batch /\ Cardinality(DOMAIN x.active) <= ActiveBound
    BY DEF SmallBatch
  <2>1. Len(l.in_model) <= serving.max_batch /\ Cardinality(DOMAIN l.active) <= ActiveBound
    BY <1>2 DEF SmallBatch
  <2>2. CASE n = 0
    <3>1. new = {}
      BY <1>1, <1>4, <2>2
    <3> QED
      BY <1>3, <1>8, <2>1, <3>1
  <2>3. CASE n # 0
    <3>1. Cardinality(DOMAIN l.active) + n <= ActiveBound
      BY <2>3, AdmittedIs DEF n
    <3>2. IsFiniteSet(new) /\ Cardinality(new) = n
      <4>1. /\ IsFiniteSet(t .. (t + n) - 1)
            /\ Cardinality(t .. (t + n) - 1) = IF t > (t + n) - 1 THEN 0 ELSE (((t + n) - 1) - t) + 1
        <5>1. t \in Int /\ (t + n) - 1 \in Int
          BY <1>1
        <5> QED
          BY <5>1, FS_Interval
      <4> QED
        BY <1>1, <1>4, <2>3, <4>1
    <3>3. IsFiniteSet(DOMAIN l.active) /\ Cardinality(DOMAIN l.active) \in Nat
      BY ActiveFinite
    <3> DEFINE D == DOMAIN l.active
    <3>4. new \cap D = {}
      BY <1>6
    <3> HIDE DEF new, D
    <3>5. Cardinality(new \cup D) = Cardinality(new) + Cardinality(D) - Cardinality(new \cap D)
      <4>1. IsFiniteSet(D)
        BY <3>3 DEF D
      <4> QED
        BY <3>2, <4>1, FS_Union
    <3>6. Cardinality(new \cap D) = 0
      BY <3>4, FS_EmptySet
    <3>7. Cardinality(DOMAIN x.active) = n + Cardinality(D)
      BY <1>1, <1>8, <3>2, <3>3, <3>5, <3>6 DEF D
    <3>8. Cardinality(DOMAIN x.active) <= ActiveBound
      BY <1>1, <3>1, <3>3, <3>7 DEF D
    <3> QED
      BY <1>3, <2>1, <3>8
  <2> QED
    BY <2>2, <2>3
<1>12. Batch(x) = Batch(l)
  <2>1. DOMAIN x.in_model = DOMAIN l.in_model /\ x.in_model = l.in_model
    BY <1>3
  <2>2. \A i \in DOMAIN l.in_model : l.in_model[i] \in DOMAIN l.active
    BY <1>2, LenProperties, ElementOfSeq
  <2>3. \A i \in DOMAIN l.in_model : x.active[l.in_model[i]] = l.active[l.in_model[i]]
    <3> QED
      BY <1>3, <1>6, <2>2
  <2> QED
    BY <2>1, <2>3 DEF Batch
<1> QED
  BY <1>3, <1>7, <1>8, <1>9, <1>10, <1>11, <1>12 DEF LangOK, x

-----------------------------------------------------------------------------
(* The end of a pass.                                                      *)

\* The tokens a pass computes for a request.
Tokens(a) == IF a.gen THEN 1 ELSE a.prompt

\* One more pass over a request: it goes on, or it ends.
LEMMA SteppedOK ==
    ASSUME serving \in ServingSetups, NEW i \in 1 .. Len(Trace), NEW a, NEW c, RequestOK(a, i, c)
    PROVE  /\ Tokens(a) \in Nat
           /\ ~Completed(Stepped(a)) => RequestOK(Stepped(a), i, c + Tokens(a))
           /\ Completed(Stepped(a)) => EndOK(Stepped(a).len, i, c + Tokens(a))
<1> DEFINE x == Stepped(a)
           f == Full(i)
           g == Least(i)
           pr == Trace[i].prompt
           ca == Trace[i].cached
<1>1. /\ a = [h \in ReqFields |-> a[h]]
      /\ a.id = i - 1 /\ a.prompt = pr /\ a.target = f
      /\ a.gen \in BOOLEAN /\ a.len \in Nat /\ c \in Nat
      /\ a.len = c + (IF a.gen THEN 1 ELSE 0)
      /\ a.gen => g <= a.len /\ a.len < f
      /\ ~a.gen => a.len = ca
  BY DEF RequestOK
<1>2. f \in Nat /\ g \in Nat /\ pr \in Nat /\ ca \in Nat /\ g = ca + pr + 1
  BY TraceTypes DEF Least
<1>3. /\ x = [h \in ReqFields |-> x[h]] /\ x.id = a.id /\ x.prompt = a.prompt /\ x.target = a.target
      /\ x.gen = TRUE /\ x.len = (a.len + 1) + (IF a.gen THEN 0 ELSE a.prompt)
  BY <1>1 DEF Stepped, ReqFields
<1>4. Tokens(a) = IF a.gen THEN 1 ELSE pr
  BY <1>1 DEF Tokens
<1> HIDE DEF x, f, g, pr, ca
<1>5. CASE a.gen
  <2>1. Tokens(a) = 1 /\ x.len = a.len + 1 /\ a.len = c + 1 /\ x.len \in Nat /\ c + 1 \in Nat
    BY <1>1, <1>3, <1>4, <1>5
  <2>2. g <= a.len /\ a.len < f
    BY <1>1, <1>5
  <2>3. ~(x.len >= f) => RequestOK(x, i, c + Tokens(a))
    <3> SUFFICES ASSUME ~(x.len >= f) PROVE RequestOK(x, i, c + Tokens(a))
      OBVIOUS
    <3>1. /\ x = [h \in ReqFields |-> x[h]]
          /\ x.id = i - 1 /\ x.prompt = pr /\ x.target = f /\ x.gen = TRUE
      BY <1>1, <1>3
    <3>2. /\ x.len \in Nat /\ c + Tokens(a) \in Nat /\ x.len = (c + Tokens(a)) + 1
          /\ g <= x.len /\ x.len < f
      BY <1>1, <1>2, <2>2, <2>1, SMTT(30)
    <3> QED
      BY <3>1, <3>2 DEF RequestOK, f, g, pr
  <2>4. ASSUME x.len >= f PROVE EndOK(x.len, i, c + Tokens(a))
    <3>1. x.len = f /\ g <= f
      BY <1>1, <1>2, <2>1, <2>2, <2>4, SMTT(30)
    <3>2. Largest({g, f}) = f
      BY <1>2, <3>1, LargestOfTwo
    <3> QED
      BY <1>1, <2>1, <3>1, <3>2 DEF EndOK, f, g
  <2> QED
    BY <1>1, <1>3, <2>1, <2>3, <2>4 DEF Completed, x
<1>6. CASE ~a.gen
  <2>1. Tokens(a) = pr /\ x.len = a.len + 1 + pr /\ a.len = c /\ a.len = ca /\ x.len \in Nat /\ x.len = g
        /\ c + pr \in Nat
    BY <1>1, <1>2, <1>3, <1>4, <1>6, SMTT(30)
  <2>3. ~(x.len >= f) => RequestOK(x, i, c + Tokens(a))
    <3> SUFFICES ASSUME ~(x.len >= f) PROVE RequestOK(x, i, c + Tokens(a))
      OBVIOUS
    <3>1. /\ x = [h \in ReqFields |-> x[h]]
          /\ x.id = i - 1 /\ x.prompt = pr /\ x.target = f /\ x.gen = TRUE
      BY <1>1, <1>3
    <3>2. /\ x.len \in Nat /\ c + Tokens(a) \in Nat /\ x.len = (c + Tokens(a)) + 1
          /\ g <= x.len /\ x.len < f
      BY <1>1, <1>2, <2>1, SMTT(30)
    <3> QED
      BY <3>1, <3>2 DEF RequestOK, f, g, pr
  <2>4. ASSUME x.len >= f PROVE EndOK(x.len, i, c + Tokens(a))
    <3>2. Largest({g, f}) = g
      BY <1>2, <2>1, <2>4, LargestOfTwo, SMTT(30)
    <3> QED
      BY <1>1, <1>2, <2>1, <3>2, SMTT(30) DEF EndOK, f, g
  <2> QED
    BY <1>1, <1>2, <1>3, <2>1, <2>3, <2>4 DEF Completed, x
<1> QED
  BY <1>1, <1>5, <1>6

\* finish_model for the requests of the batch.
LEMMA FinishModelOK ==
    ASSUME serving \in ServingSetups, NEW l, LangOK(l)
    PROVE  /\ LangOK(finish_model(l, Batch(l)))
           /\ finish_model(l, Batch(l)).in_model = <<>>
<1> DEFINE x == finish_model(l, Batch(l))
           ids == ToSet(l.in_model)
           D == DOMAIN l.active
           t == Taken(l)
           next == [id \in D |-> IF id \in ids THEN Stepped(l.active[id]) ELSE l.active[id]]
           over == {id \in ids : Completed(next[id])}
           more(id) == Largest({r.tokens : r \in {q \in ToSet(Batch(l)) : q.id = id}})
<1>1. /\ l = [f \in LangFields |-> l[f]]
      /\ QueueOK(l)
      /\ DOMAIN l.computed = 0 .. t - 1 /\ D \cup DOMAIN l.done = 0 .. t - 1
      /\ D \cap DOMAIN l.done = {}
      /\ TablesOK(l) /\ l.in_model \in Seq(D) /\ SmallBatch(l)
  BY DEF LangOK
<1>2. /\ x = [f \in LangFields |-> x[f]]
      /\ x.waiting = l.waiting /\ x.in_model = <<>>
      /\ x.active = [id \in DOMAIN next \ over |-> next[id]]
      /\ x.done = [id \in over \cup DOMAIN l.done |-> IF id \in over THEN next[id].len ELSE l.done[id]]
      /\ x.computed = [id \in DOMAIN l.computed |-> l.computed[id] + more(id)]
  <2> HIDE DEF Batch
  <2> QED
    BY <1>1 DEF finish_model, LangFields
<1>3. t \in Nat /\ t <= Len(Trace) /\ Len(Trace) \in Nat
  BY <1>1, WaitingIs, TraceTypes, SMTT(30)
<1>4. ids \subseteq D /\ ids = {l.in_model[i] : i \in 1 .. Len(l.in_model)} /\ DOMAIN l.in_model = 1 .. Len(l.in_model)
  <2>1. DOMAIN l.in_model = 1 .. Len(l.in_model)
    BY <1>1, LenProperties
  <2>2. ids = {l.in_model[i] : i \in 1 .. Len(l.in_model)}
    BY <2>1 DEF ToSet
  <2>3. \A i \in 1 .. Len(l.in_model) : l.in_model[i] \in D
    BY <1>1, ElementOfSeq
  <2> QED
    BY <2>1, <2>2, <2>3
<1>5. \A id \in D : /\ RequestOK(l.active[id], id + 1, l.computed[id]) /\ id + 1 \in 1 .. Len(Trace)
                    /\ Tokens(l.active[id]) \in Nat
  <2> TAKE id \in D
  <2>1. id \in 0 .. t - 1
    BY <1>1
  <2>2. id + 1 \in 1 .. Len(Trace)
    BY <1>3, <2>1
  <2>3. RequestOK(l.active[id], id + 1, l.computed[id])
    BY <1>1 DEF TablesOK
  <2> QED
    BY <2>2, <2>3, SteppedOK
<1>6. \A id \in ids : more(id) = Tokens(l.active[id])
  <2> TAKE id \in ids
  <2> DEFINE B == Batch(l)
             S == {r.tokens : r \in {q \in ToSet(B) : q.id = id}}
             k == Tokens(l.active[id])
  <2>1. DOMAIN B = DOMAIN l.in_model
        /\ \A i \in DOMAIN B : B[i].id = l.in_model[i] /\ B[i].tokens = Tokens(l.active[l.in_model[i]])
    BY DEF Batch, Tokens
  <2>2. PICK i \in DOMAIN l.in_model : l.in_model[i] = id
    BY <1>4
  <2> HIDE DEF B
  <2>3. ToSet(B) = {B[j] : j \in DOMAIN B}
    BY DEF ToSet
  <2>4. S = {k}
    <3>1. ASSUME NEW q \in ToSet(B), q.id = id PROVE q.tokens = k
      BY <2>1, <2>3, <3>1
    <3>2. B[i] \in ToSet(B) /\ B[i].id = id /\ B[i].tokens = k
      BY <2>1, <2>2, <2>3
    <3> HIDE DEF k
    <3> QED
      BY <3>1, <3>2
  <2>5. k \in Nat
    BY <1>4, <1>5
  <2> HIDE DEF S, k
  <2>6. Largest(S) = k
    BY <2>4, <2>5, LargestOfOne
  <2> QED
    BY <2>6 DEF S, k, B
<1>7. \A id : id \notin ids => more(id) = 0
  <2> TAKE id
  <2> HAVE id \notin ids
  <2> DEFINE B == Batch(l)
             S == {r.tokens : r \in {q \in ToSet(B) : q.id = id}}
  <2>1. DOMAIN B = DOMAIN l.in_model
        /\ \A i \in DOMAIN B : B[i].id = l.in_model[i]
    BY DEF Batch
  <2> HIDE DEF B
  <2>2. \A q \in ToSet(B) : q.id \in ids
    BY <1>4, <2>1 DEF ToSet
  <2>3. S = {}
    BY <2>2
  <2> HIDE DEF S
  <2>4. 0 \in Nat /\ {} \in SUBSET Nat /\ \A y \in {} : y <= 0
    OBVIOUS
  <2>5. Largest({}) \in {} \cup {0}
    BY <2>4, LargestIs
  <2> QED
    BY <2>3, <2>5 DEF S, B
<1> HIDE DEF x, ids, t, next, over, more
<1>8. DOMAIN next = D /\ over \subseteq ids
      /\ \A id \in ids : next[id] = Stepped(l.active[id]) /\ (id \in over <=> Completed(Stepped(l.active[id])))
  BY <1>4 DEF next, over
<1>9. \A id \in D \ ids : next[id] = l.active[id] /\ id \notin over
  BY <1>8 DEF next
<1> DEFINE E == DOMAIN x.active
<1>10. /\ E = D \ over /\ DOMAIN x.done = over \cup DOMAIN l.done
       /\ DOMAIN x.computed = 0 .. t - 1
       /\ \A id \in E : x.active[id] = next[id]
       /\ \A id \in over : x.done[id] = next[id].len
       /\ \A id \in DOMAIN l.done : id \notin over => x.done[id] = l.done[id]
       /\ \A id \in 0 .. t - 1 : x.computed[id] = l.computed[id] + more(id)
  BY <1>1, <1>2, <1>8
<1>11. /\ E \cup DOMAIN x.done = 0 .. t - 1 /\ E \cap DOMAIN x.done = {}
  BY <1>1, <1>4, <1>8, <1>10
<1>12. TablesOK(x)
  <2>1. ASSUME NEW id \in E PROVE RequestOK(x.active[id], id + 1, x.computed[id])
    <3>1. id \in D /\ id \notin over /\ id \in 0 .. t - 1
      BY <1>1, <1>10
    <3>2. RequestOK(l.active[id], id + 1, l.computed[id]) /\ id + 1 \in 1 .. Len(Trace)
      BY <1>5, <3>1
    <3>3. CASE id \in ids
      <4>1. ~Completed(Stepped(l.active[id])) /\ x.active[id] = Stepped(l.active[id])
        BY <1>8, <1>10, <3>1, <3>3
      <4>2. x.computed[id] = l.computed[id] + Tokens(l.active[id])
        BY <1>6, <1>10, <3>1, <3>3
      <4>3. RequestOK(Stepped(l.active[id]), id + 1, l.computed[id] + Tokens(l.active[id]))
        BY <3>2, <4>1, SteppedOK
      <4> QED
        BY <4>1, <4>2, <4>3
    <3>4. CASE id \notin ids
      <4>1. x.active[id] = l.active[id] /\ x.computed[id] = l.computed[id] + 0
        BY <1>7, <1>9, <1>10, <3>1, <3>4
      <4>2. l.computed[id] \in Nat
        BY <3>2 DEF RequestOK
      <4>3. x.computed[id] = l.computed[id]
        BY <4>1, <4>2
      <4> QED
        BY <3>2, <4>1, <4>3
    <3> QED
      BY <3>3, <3>4
  <2>2. ASSUME NEW id \in DOMAIN x.done PROVE EndOK(x.done[id], id + 1, x.computed[id])
    <3>1. id \in 0 .. t - 1
      BY <1>11
    <3>2. CASE id \in over
      <4>1. id \in ids /\ id \in D
        BY <1>4, <1>8, <3>2
      <4>2. RequestOK(l.active[id], id + 1, l.computed[id]) /\ id + 1 \in 1 .. Len(Trace)
        BY <1>5, <4>1
      <4>3. Completed(Stepped(l.active[id])) /\ x.done[id] = Stepped(l.active[id]).len
        BY <1>8, <1>10, <3>2, <4>1
      <4>4. x.computed[id] = l.computed[id] + Tokens(l.active[id])
        BY <1>6, <1>10, <3>1, <4>1
      <4>5. EndOK(Stepped(l.active[id]).len, id + 1, l.computed[id] + Tokens(l.active[id]))
        BY <4>2, <4>3, SteppedOK
      <4> QED
        BY <4>3, <4>4, <4>5
    <3>3. CASE id \notin over
      <4>1. id \in DOMAIN l.done /\ x.done[id] = l.done[id] /\ id \notin ids
        BY <1>1, <1>4, <1>10, <3>3
      <4>2. EndOK(l.done[id], id + 1, l.computed[id])
        BY <1>1, <4>1 DEF TablesOK
      <4>3. x.computed[id] = l.computed[id] + 0
        BY <1>7, <1>10, <3>1, <4>1
      <4>4. id + 1 \in 1 .. Len(Trace)
        BY <1>3, <3>1
      <4>5. Largest({Least(id + 1), Full(id + 1)}) \in Nat
        BY <4>4, TraceTypes, LargestOfTwo
      <4>6. l.computed[id] \in Int
        BY <4>2, <4>5 DEF EndOK
      <4>7. x.computed[id] = l.computed[id]
        BY <4>3, <4>6
      <4> QED
        BY <4>1, <4>2, <4>7
    <3> QED
      BY <3>2, <3>3
  <2> QED
    BY <2>1, <2>2 DEF TablesOK
<1>13. QueueOK(x) /\ Taken(x) = t
  <2>1. Taken(x) = Taken(l) /\ x.waiting = l.waiting
    BY <1>2 DEF Taken
  <2>2. QueueOK(x)
    BY <1>1, <2>1 DEF QueueOK
  <2> QED
    BY <2>1, <2>2 DEF t
<1>14. SmallBatch(x)
  <2>1. Len(x.in_model) = 0
    BY <1>2, EmptySeq
  <2>2. Cardinality(E) \in Nat /\ Cardinality(E) <= Cardinality(D) /\ Cardinality(D) \in Nat
    <3>1. IsFiniteSet(D) /\ Cardinality(D) \in Nat
      BY ActiveFinite
    <3>2. E \subseteq D
      BY <1>10
    <3> HIDE DEF E, D
    <3> QED
      BY <3>1, <3>2, FS_Subset, FS_CardinalityType
  <2>3. serving.max_batch \in Nat /\ ActiveBound \in Nat
    BY TraceTypes DEF ActiveBound
  <2> QED
    BY <1>1, <2>1, <2>2, <2>3 DEF SmallBatch
<1>15. x.in_model \in Seq(E)
  BY <1>2, EmptySeq
<1> QED
  BY <1>2, <1>10, <1>11, <1>12, <1>13, <1>14, <1>15 DEF LangOK, x

-----------------------------------------------------------------------------
(* The next batch.                                                         *)

\* The idle requests that make the next batch.
LEMMA StepInputsIs ==
    ASSUME serving \in ServingSetups, NEW l, LangOK(l)
    PROVE  \E b \in Seq(DOMAIN l.active) :
             /\ StepInputs(l) = [i \in DOMAIN b |-> [id |-> b[i], rows |-> l.active[b[i]].len,
                                                    tokens |-> Tokens(l.active[b[i]])]]
             /\ serving.max_batch > 0 => Len(b) <= serving.max_batch
<1> DEFINE D == DOMAIN l.active
           I == {id \in DOMAIN l.active : ~l.active[id].running}
           idle == Ascending(I)
           mb == serving.max_batch
           b == IF mb = 0 THEN idle ELSE SubSeq(idle, 1, Min({mb, Len(idle)}))
           c == Cardinality(I)
<1>1. Taken(l) \in Nat /\ D \subseteq 0 .. Taken(l) - 1 /\ mb \in Nat
  BY WaitingIs, TraceTypes DEF LangOK
<1>2. I \in SUBSET Nat /\ I \subseteq D /\ IsFiniteSet(I)
  <2>1. IsFiniteSet(D)
    BY ActiveFinite
  <2>2. I \subseteq D
    OBVIOUS
  <2> HIDE DEF I, D
  <2>3. IsFiniteSet(I)
    BY <2>1, <2>2, FS_Subset
  <2> QED
    BY <1>1, <2>2, <2>3
<1>3. c \in Nat /\ idle \in [1 .. c -> I]
  <2> HIDE DEF I
  <2> QED
    BY <1>2, AscendingIs, FS_CardinalityType
<1> HIDE DEF I, idle, c, D
<1>4. idle \in Seq(D) /\ Len(idle) \in Nat
  <2>1. idle \in Seq(I)
    BY <1>3
  <2> QED
    BY <1>2, <2>1, SeqMonotonic, LenProperties
<1>5. b \in Seq(D) /\ (mb > 0 => Len(b) <= mb)
  <2>1. CASE mb = 0
    BY <1>1, <1>4, <2>1
  <2>2. CASE mb # 0
    <3> DEFINE n == Min({mb, Len(idle)})
    <3>1. n \in {mb, Len(idle)} /\ n <= mb /\ n <= Len(idle)
      <4>1. {mb, Len(idle)} \in SUBSET Nat /\ {mb, Len(idle)} # {}
        BY <1>1, <1>4
      <4> QED
        BY <4>1, MinIs
    <3> HIDE DEF n
    <3>2. n \in Nat /\ n <= Len(idle)
      BY <1>1, <1>4, <3>1
    <3>3. \A i \in 1 .. n : idle[i] \in D
      BY <1>4, <3>2, ElementOfSeq
    <3>4. SubSeq(idle, 1, n) \in Seq(D) /\ Len(SubSeq(idle, 1, n)) = IF 1 <= n THEN (n - 1) + 1 ELSE 0
      BY <1>4, <3>2, <3>3, SubSeqProperties
    <3>5. b = SubSeq(idle, 1, n)
      BY <2>2 DEF n
    <3> HIDE DEF b
    <3> QED
      BY <1>1, <3>1, <3>2, <3>4, <3>5
  <2> QED
    BY <2>1, <2>2
<1>6. StepInputs(l) = [i \in DOMAIN b |-> [id |-> l.active[b[i]].id, rows |-> l.active[b[i]].len,
                                         tokens |-> Tokens(l.active[b[i]])]]
  BY DEF StepInputs, Tokens, idle, I
<1> HIDE DEF b
<1>7. \A i \in DOMAIN b : l.active[b[i]].id = b[i]
  <2> TAKE i \in DOMAIN b
  <2>1. b[i] \in D
    BY <1>5, LenProperties, ElementOfSeq
  <2>2. RequestOK(l.active[b[i]], b[i] + 1, l.computed[b[i]])
    BY <2>1 DEF LangOK, TablesOK, D
  <2> DEFINE k == b[i]
             a == l.active[k]
  <2> HIDE DEF k, a
  <2>3. k \in Nat
    <3>1. k \in D
      BY <2>1 DEF k
    <3> QED
      BY <1>1, <3>1
  <2>4. a.id = (k + 1) - 1
    BY <2>2 DEF RequestOK, k, a
  <2>5. a.id = k
    BY <2>3, <2>4
  <2> QED
    BY <2>5 DEF k, a
<1>8. StepInputs(l) = [i \in DOMAIN b |-> [id |-> b[i], rows |-> l.active[b[i]].len,
                                         tokens |-> Tokens(l.active[b[i]])]]
  BY <1>6, <1>7
<1> QED
  BY <1>5, <1>8 DEF D, mb

\* A batch is formed when none is under way.
LEMMA InitInputsOK ==
    ASSUME serving \in ServingSetups, NEW l, LangOK(l)
    PROVE  LET x == init_inputs_and_model(l)
           IN  /\ LangOK(x)
               /\ l.in_model = <<>> /\ StepInputs(l) # <<>> =>
                    x.in_model # <<>> /\ Batch(x) = StepInputs(l)
               /\ ~(l.in_model = <<>> /\ StepInputs(l) # <<>>) => x = l
<1> DEFINE x == init_inputs_and_model(l)
           s == StepInputs(l)
           D == DOMAIN l.active
<1>1. CASE l.in_model # <<>> \/ s = <<>>
  <2>1. x = l
    BY <1>1 DEF init_inputs_and_model
  <2> QED
    BY <1>1, <2>1
<1>2. CASE l.in_model = <<>> /\ s # <<>>
  <2>1. PICK b \in Seq(D) :
          /\ s = [i \in DOMAIN b |-> [id |-> b[i], rows |-> l.active[b[i]].len,
                                      tokens |-> Tokens(l.active[b[i]])]]
          /\ serving.max_batch > 0 => Len(b) <= serving.max_batch
    BY StepInputsIs
  <2>2. /\ l = [f \in LangFields |-> l[f]]
        /\ QueueOK(l)
        /\ DOMAIN l.computed = 0 .. Taken(l) - 1 /\ D \cup DOMAIN l.done = 0 .. Taken(l) - 1
        /\ D \cap DOMAIN l.done = {}
        /\ TablesOK(l) /\ SmallBatch(l)
    BY DEF LangOK
  <2>3. /\ x = [f \in LangFields |-> x[f]]
        /\ x.waiting = l.waiting /\ x.done = l.done /\ x.computed = l.computed
        /\ x.in_model = [i \in DOMAIN s |-> s[i].id]
        /\ x.active = [id \in D |-> Joins(l.active[id], s)]
    <3> HIDE DEF s
    <3> DEFINE m == [i \in DOMAIN s |-> s[i].id]
               a == [id \in D |-> Joins(l.active[id], s)]
               e == serving.dram > 0 /\ total_memory(l, s) > serving.dram
               inp == IF l.in_model = <<>> THEN StepInputs(l) ELSE <<>>
               M(u) == [i \in DOMAIN u |-> u[i].id]
               A(u) == [id \in D |-> Joins(l.active[id], u)]
               E(u) == serving.dram > 0 /\ total_memory(l, u) > serving.dram
    <3>3. x = IF inp = <<>> THEN l ELSE [l EXCEPT !.in_model = M(inp), !.active = A(inp), !.exited = E(inp)]
      BY DEF init_inputs_and_model
    <3>4. inp = s
      BY <1>2 DEF s
    <3>5. M(s) = m /\ A(s) = a /\ E(s) = e
      OBVIOUS
    <3> HIDE DEF x, m, a, e, inp, M, A, E
    <3>1. x = [l EXCEPT !.in_model = m, !.active = a, !.exited = e]
      BY <1>2, <3>3, <3>4, <3>5 DEF s
    <3>2. /\ x = [f \in LangFields |-> x[f]]
          /\ x.waiting = l.waiting /\ x.done = l.done /\ x.computed = l.computed
          /\ x.in_model = m /\ x.active = a
      BY <2>2, <3>1 DEF LangFields
    <3> QED
      BY <3>2 DEF m, a
  <2> HIDE DEF x, s
  <2>4. x.in_model = b /\ Len(b) \in Nat /\ DOMAIN b = 1 .. Len(b)
    <3>1. DOMAIN b = 1 .. Len(b) /\ Len(b) \in Nat /\ b = [i \in DOMAIN b |-> b[i]]
      BY LenProperties
    <3> QED
      BY <2>1, <2>3, <3>1
  <2>5. b # <<>>
    <3> SUFFICES ASSUME b = <<>> PROVE FALSE
      OBVIOUS
    <3>1. DOMAIN b = {}
      BY <2>4, EmptySeq
    <3>2. s = [i \in {} |-> [id |-> b[i], rows |-> l.active[b[i]].len,
                                      tokens |-> Tokens(l.active[b[i]])]]
      BY <2>1, <3>1
    <3>3. s \in Seq({}) /\ Len(s) = 0
      <4>1. s \in [1 .. 0 -> {}] /\ DOMAIN s = 1 .. 0
        BY <3>2
      <4> QED
        BY <4>1, LenProperties
    <3>4. s = <<>>
      BY <3>3, EmptySeq
    <3> QED
      BY <1>2, <3>4
  <2>6. DOMAIN x.active = D
        /\ \A id \in D : RequestOK(l.active[id], id + 1, l.computed[id]) =>
             /\ RequestOK(x.active[id], id + 1, x.computed[id])
             /\ x.active[id].len = l.active[id].len /\ Tokens(x.active[id]) = Tokens(l.active[id])
    <3>1. DOMAIN x.active = D
      BY <2>3, SMTT(30)
    <3>2. ASSUME NEW id \in D, RequestOK(l.active[id], id + 1, l.computed[id])
          PROVE  /\ RequestOK(x.active[id], id + 1, x.computed[id])
                 /\ x.active[id].len = l.active[id].len /\ Tokens(x.active[id]) = Tokens(l.active[id])
      <4> DEFINE a == l.active[id]
                 e == a.running \/ \E i \in DOMAIN s : s[i].id = a.id
                 y == x.active[id]
      <4>1. y = [a EXCEPT !.running = e]
        BY <2>3 DEF Joins
      <4>2. a = [f \in ReqFields |-> a[f]]
        BY <3>2 DEF RequestOK
      <4> HIDE DEF a, e, y
      <4>3. /\ y = [f \in ReqFields |-> y[f]] /\ y.id = a.id /\ y.prompt = a.prompt /\ y.len = a.len
            /\ y.target = a.target /\ y.gen = a.gen
        BY <4>1, <4>2 DEF ReqFields
      <4> QED
        BY <2>3, <3>2, <4>3 DEF RequestOK, Tokens, a, y
    <3> QED
      BY <3>1, <3>2
  <2>7. TablesOK(x)
    <3>1. \A id \in DOMAIN x.active : RequestOK(x.active[id], id + 1, x.computed[id])
      BY <2>2, <2>6 DEF TablesOK
    <3>2. \A id \in DOMAIN x.done : EndOK(x.done[id], id + 1, x.computed[id])
      BY <2>2, <2>3 DEF TablesOK
    <3> QED
      BY <3>1, <3>2 DEF TablesOK
  <2>8. QueueOK(x) /\ Taken(x) = Taken(l)
    <3>1. Taken(x) = Taken(l) /\ x.waiting = l.waiting
      BY <2>3 DEF Taken
    <3> QED
      BY <2>2, <3>1 DEF QueueOK
  <2>9. SmallBatch(x)
    BY <2>1, <2>2, <2>4, <2>6 DEF SmallBatch
  <2>10. LangOK(x)
    BY <2>2, <2>3, <2>4, <2>6, <2>7, <2>8, <2>9 DEF LangOK
  <2>11. Batch(x) = s
    <3>1. \A i \in DOMAIN b : /\ b[i] \in D
                              /\ x.active[b[i]].len = l.active[b[i]].len
                              /\ Tokens(x.active[b[i]]) = Tokens(l.active[b[i]])
      <4> TAKE i \in DOMAIN b
      <4>1. b[i] \in D
        BY <2>4, ElementOfSeq
      <4> QED
        BY <2>2, <2>6, <4>1 DEF TablesOK
    <3>2. Batch(x) = [i \in DOMAIN b |-> [id |-> b[i], rows |-> x.active[b[i]].len,
                                         tokens |-> Tokens(x.active[b[i]])]]
      BY <2>4 DEF Batch, Tokens
    <3> QED
      BY <2>1, <3>1, <3>2
  <2> QED
    BY <1>2, <2>4, <2>5, <2>10, <2>11 DEF x, s
<1> QED
  BY <1>1, <1>2

-----------------------------------------------------------------------------
(* Models, and the scheduler that runs them layer by layer.                *)

StateFields == {"lang", "models", "queue", "executing"}

\* At most one language model is unfinished.
OneBatch(M, q) ==
    /\ \A m, n \in M : IsLanguage(m) /\ IsLanguage(n) => m = n
    /\ \A i, j \in DOMAIN q : IsLanguage(q[i]) /\ IsLanguage(q[j]) => i = j
    /\ \A m \in M, i \in DOMAIN q : ~(IsLanguage(m) /\ IsLanguage(q[i]))

\* m, if a language model, computes the batch that is under way.
Computes(m, l) == IsLanguage(m) => l.in_model # <<>> /\ m.reqs = Batch(l)

\* The state: the scheduler's tables, and the one language model that
\* computes its batch.
StateOK(s) ==
    /\ s = [f \in StateFields |-> s[f]]
    /\ LangOK(s.lang)
    /\ IsFiniteSet(s.models)
    /\ s.queue \in Seq({s.queue[i] : i \in DOMAIN s.queue})
    /\ OneBatch(s.models, s.queue)
    /\ \A m \in s.models : Computes(m, s.lang)
    /\ \A i \in DOMAIN s.queue : Computes(s.queue[i], s.lang)

\* The same model in another state of its graph.
Alike(m, n) == (IsLanguage(m) <=> IsLanguage(n)) /\ (IsLanguage(m) => m.reqs = n.reqs)

\* A model's graph may change without its requests.
LEMMA GraphAlike ==
    ASSUME NEW m, NEW g PROVE Alike(m, [m EXCEPT !.graph = g])
BY DEF Alike, IsLanguage

\* Work on the front model only changes its graph.
LEMMA FrontOK ==
    ASSUME NEW s, StateOK(s), NEW x, x = [f \in StateFields |-> x[f]],
           x.lang = s.lang, x.models = s.models,
           x.queue = s.queue \/ \E g : x.queue = [s.queue EXCEPT ![1] = [@ EXCEPT !.graph = g]]
    PROVE  StateOK(x)
<1> DEFINE q == s.queue
           p == x.queue
<1>1. DOMAIN p = DOMAIN q /\ \A i \in DOMAIN q : Alike(q[i], p[i])
  <2>1. CASE p = q
    BY <2>1 DEF Alike
  <2>2. CASE p # q
    <3>1. PICK g : p = [q EXCEPT ![1] = [@ EXCEPT !.graph = g]]
      BY <2>2
    <3>2. DOMAIN p = DOMAIN q
      BY <3>1
    <3>3. ASSUME NEW i \in DOMAIN q PROVE Alike(q[i], p[i])
      <4>1. CASE i = 1
        <5>1. p[i] = [q[i] EXCEPT !.graph = g]
          BY <3>1, <4>1, <3>3
        <5> DEFINE a == q[i]
                   b == p[i]
        <5>2. b = [a EXCEPT !.graph = g]
          BY <5>1
        <5> HIDE DEF a, b
        <5>3. Alike(a, b)
          BY <5>2, GraphAlike
        <5> QED
          BY <5>3 DEF a, b
      <4>2. CASE i # 1
        <5>1. p[i] = q[i]
          BY <3>1, <4>2, <3>3
        <5> QED
          BY <5>1 DEF Alike
      <4> QED
        BY <4>1, <4>2
    <3> QED
      BY <3>2, <3>3
  <2> QED
    BY <2>1, <2>2
<1>2. q \in Seq({q[i] : i \in DOMAIN q}) /\ OneBatch(s.models, q) /\ IsFiniteSet(s.models)
      /\ (\A m \in s.models : Computes(m, s.lang))
      /\ (\A i \in DOMAIN q : Computes(q[i], s.lang)) /\ LangOK(s.lang)
  BY DEF StateOK
<1> HIDE DEF q, p
<1>3. p \in Seq({p[i] : i \in DOMAIN p})
  <2>1. DOMAIN q = 1 .. Len(q) /\ Len(q) \in Nat
    BY <1>2, LenProperties
  <2>2. p = [i \in 1 .. Len(q) |-> p[i]]
    <3>1. \E g : p = [q EXCEPT ![1] = g] \/ p = q
      BY DEF p, q
    <3>2. q = [i \in 1 .. Len(q) |-> q[i]]
      BY <1>2, LenProperties
    <3> QED
      BY <2>1, <3>1, <3>2
  <2> QED
    BY <1>1, <2>1, <2>2, IsASeq
<1>4. OneBatch(x.models, p)
  BY <1>1, <1>2 DEF OneBatch, Alike
<1>5. \A i \in DOMAIN p : Computes(p[i], s.lang)
  BY <1>1, <1>2 DEF Computes, Alike
<1> QED
  BY <1>2, <1>3, <1>4, <1>5 DEF StateOK, p

\* A layer starts: only the front model's graph changes.
LEMMA StartOK ==
    ASSUME NEW s, StateOK(s)
    PROVE  StateOK(StartLayer(s)) /\ StartLayer(s).models = s.models
<1> DEFINE x == StartLayer(s)
           first == s.queue[1].graph
           g == [first EXCEPT !.exec = Tail(@)]
           p == [s.queue EXCEPT ![1] = [@ EXCEPT !.graph = g]]
           e == <<Head(Head(s.queue).graph.exec)>>
<1>0. s = [f \in StateFields |-> s[f]]
  BY DEF StateOK
<1>1. CASE s.executing # <<>> \/ s.queue = <<>> \/ Head(s.queue).graph.exec = <<>>
  <2>1. x = s
    BY <1>1 DEF StartLayer
  <2> QED
    BY <2>1
<1>2. CASE ~(s.executing # <<>> \/ s.queue = <<>> \/ Head(s.queue).graph.exec = <<>>)
  <2>1. x = [s EXCEPT !.executing = e, !.queue = p]
    BY <1>2 DEF StartLayer
  <2>2. \E h : p = [s.queue EXCEPT ![1] = [@ EXCEPT !.graph = h]]
    OBVIOUS
  <2> HIDE DEF x, p, e
  <2>3. /\ x = [f \in StateFields |-> x[f]] /\ x.lang = s.lang /\ x.models = s.models /\ x.queue = p
    BY <1>0, <2>1 DEF StateFields
  <2>4. StateOK(x)
    BY <2>2, <2>3, FrontOK
  <2> QED
    BY <2>3, <2>4 DEF x
<1> QED
  BY <1>1, <1>2

\* The front model leaves when it is done.
LEMMA RetireOK ==
    ASSUME serving \in ServingSetups, NEW s, StateOK(s)
    PROVE  StateOK(RetireFront(s)) /\ s.models \subseteq RetireFront(s).models
<1> DEFINE x == RetireFront(s)
           m == Head(s.queue)
           q == s.queue
           p == Tail(s.queue)
<1>0. /\ s = [f \in StateFields |-> s[f]] /\ LangOK(s.lang) /\ IsFiniteSet(s.models)
      /\ q \in Seq({q[i] : i \in DOMAIN q}) /\ OneBatch(s.models, q)
      /\ (\A n \in s.models : Computes(n, s.lang))
      /\ (\A i \in DOMAIN q : Computes(q[i], s.lang))
  BY DEF StateOK
<1>1. CASE s.queue = <<>> \/ ~check_finish(Head(s.queue).graph)
  <2>1. x = s
    BY <1>1 DEF RetireFront
  <2> QED
    BY <2>1
<1>2. CASE ~(s.queue = <<>> \/ ~check_finish(Head(s.queue).graph))
  <2> DEFINE l == IF IsLanguage(m) THEN finish_model(s.lang, m.reqs) ELSE s.lang
             M == IF check_regressive(m) THEN s.models \cup {prepare_regressive(m)} ELSE s.models
  <2>1. x = [s EXCEPT !.queue = p, !.lang = l, !.models = M]
    BY <1>2 DEF RetireFront
  <2> HIDE DEF x, p, l, M
  <2>2. x = [f \in StateFields |-> x[f]] /\ x.queue = p /\ x.lang = l /\ x.models = M
        /\ x.executing = s.executing
    BY <1>0, <2>1 DEF StateFields
  <2>3. /\ p \in Seq({q[i] : i \in DOMAIN q}) /\ DOMAIN p = 1 .. Len(q) - 1 /\ Len(p) = Len(q) - 1
        /\ DOMAIN q = 1 .. Len(q) /\ Len(q) \in Nat \ {0} /\ m = q[1]
        /\ \A i \in 1 .. Len(q) - 1 : p[i] = q[i + 1]
    <3>1. q # <<>>
      BY <1>2
    <3> HIDE DEF q
    <3>2. /\ p \in Seq({q[i] : i \in DOMAIN q}) /\ Len(p) = Len(q) - 1
          /\ \A i \in 1 .. Len(p) : p[i] = q[i + 1]
      BY <1>0, <3>1, HeadTailProperties DEF p, q
    <3>3. DOMAIN q = 1 .. Len(q) /\ Len(q) \in Nat \ {0} /\ m = q[1]
      BY <1>0, <3>1, LenProperties, EmptySeq DEF q
    <3>4. DOMAIN p = 1 .. Len(p)
      BY <3>2, LenProperties
    <3> QED
      BY <3>2, <3>3, <3>4
  <2> HIDE DEF q, m
  <2>4. p \in Seq({p[i] : i \in DOMAIN p})
    <3>1. p = [i \in 1 .. Len(p) |-> p[i]] /\ Len(p) \in Nat /\ DOMAIN p = 1 .. Len(p)
      BY <2>3, LenProperties
    <3> QED
      BY <3>1, IsASeq
  <2>5. \A n \in M \ s.models : ~IsLanguage(n)
    BY DEF M, check_regressive, prepare_regressive, IsLanguage
  <2>6. s.models \subseteq M /\ IsFiniteSet(M)
    BY <1>0, FS_AddElement DEF M
  <2>7. OneBatch(M, p)
    <3>1. \A i \in DOMAIN p : i + 1 \in DOMAIN q /\ p[i] = q[i + 1]
      BY <2>3
    <3>2. ASSUME NEW i \in DOMAIN p, NEW j \in DOMAIN p, IsLanguage(p[i]), IsLanguage(p[j]) PROVE i = j
      <4>1. i + 1 = j + 1 /\ i \in Nat /\ j \in Nat
        BY <1>0, <2>3, <3>1, <3>2 DEF OneBatch
      <4> QED
        BY <4>1
    <3> QED
      BY <1>0, <2>5, <3>1, <3>2 DEF OneBatch
  <2>8. CASE IsLanguage(m)
    <3>1. m.reqs = Batch(s.lang) /\ l = finish_model(s.lang, m.reqs)
      BY <1>0, <2>3, <2>8, SMTT(30) DEF Computes, l
    <3>2. LangOK(l)
      BY <1>0, <3>1, FinishModelOK
    <3>3. \A n \in M : ~IsLanguage(n)
      <4> TAKE n \in M
      <4>1. 1 \in DOMAIN q
        BY <2>3
      <4>2. n \in s.models => ~IsLanguage(n)
        BY <1>0, <2>3, <2>8, <4>1 DEF OneBatch
      <4> QED
        BY <2>5, <4>2
    <3>4. \A i \in DOMAIN p : ~IsLanguage(p[i])
      <4> TAKE i \in DOMAIN p
      <4>1. i + 1 \in DOMAIN q /\ 1 \in DOMAIN q /\ p[i] = q[i + 1] /\ i + 1 # 1
        BY <2>3
      <4> QED
        BY <1>0, <2>3, <2>8, <4>1 DEF OneBatch
    <3>5. StateOK(x)
      BY <2>2, <2>4, <2>6, <2>7, <3>2, <3>3, <3>4 DEF StateOK, Computes
    <3> QED
      BY <2>2, <2>6, <3>5 DEF x
  <2>9. CASE ~IsLanguage(m)
    <3>1. l = s.lang
      BY <2>9 DEF l
    <3>2. \A n \in M : Computes(n, s.lang)
      BY <1>0, <2>5 DEF Computes
    <3>3. \A i \in DOMAIN p : Computes(p[i], s.lang)
      <4> TAKE i \in DOMAIN p
      <4>1. i + 1 \in DOMAIN q /\ p[i] = q[i + 1]
        BY <2>3
      <4> QED
        BY <1>0, <4>1
    <3>4. StateOK(x)
      BY <1>0, <2>2, <2>4, <2>6, <2>7, <3>1, <3>2, <3>3 DEF StateOK
    <3> QED
      BY <2>2, <2>6, <3>4 DEF x
  <2> QED
    BY <2>8, <2>9
<1> QED
  BY <1>1, <1>2

\* refresh_status, of every outcome so far.
LEMMA RefreshOK ==
    ASSUME serving \in ServingSetups, NEW S, NEW K, \A s \in S : StateOK(s) /\ K \subseteq s.models
    PROVE  \A r \in refresh_status(S) : StateOK(r) /\ K \subseteq r.models
<1> TAKE r \in refresh_status(S)
<1>1. PICK s \in S : r = StartLayer(RetireFront(s))
  BY DEF refresh_status
<1>2. StateOK(s) /\ K \subseteq s.models
  OBVIOUS
<1> DEFINE u == RetireFront(s)
<1>3. StateOK(u) /\ s.models \subseteq u.models
  BY <1>2, RetireOK
<1> HIDE DEF u
<1>4. StateOK(StartLayer(u)) /\ StartLayer(u).models = u.models
  BY <1>3, StartOK
<1> QED
  BY <1>1, <1>2, <1>3, <1>4 DEF u

-----------------------------------------------------------------------------
(* The launch of the models that are due.                                  *)

\* initialize_model builds the graph and leaves the requests.
LEMMA InitialAlike ==
    ASSUME NEW m, NEW now
    PROVE  Alike(m, [initialize_model(m) EXCEPT !.time = now])
<1>1. CASE IsLanguage(m)
  <2>1. initialize_model(m) = [m EXCEPT !.graph = lm_graph(serving.model, m.reqs)]
    BY <1>1 DEF initialize_model
  <2> DEFINE g == lm_graph(serving.model, m.reqs)
  <2> HIDE DEF g
  <2>2. initialize_model(m) = [m EXCEPT !.graph = g]
    BY <2>1 DEF g
  <2> QED
    BY <2>2 DEF Alike, IsLanguage
<1>2. CASE ~IsLanguage(m)
  <2> DEFINE a == AxisMap(m)
             g == initialize_onnx(InputDims(m, AxisMap(m)), Net(m).weights, Net(m).nodes, Net(m).nr_atten)
  <2>1. initialize_model(m) = [m EXCEPT !.axis = a, !.graph = g]
    BY <1>2 DEF initialize_model
  <2> HIDE DEF a, g
  <2> QED
    BY <1>2, <2>1 DEF Alike, IsLanguage
<1> QED
  BY <1>1, <1>2

\* A model moves from the registered ones to the end of the queue.
LEMMA LaunchOK ==
    ASSUME serving \in ServingSetups, NEW S, NEW m, NEW now, NEW K, m \notin K,
           \A s \in S : StateOK(s) /\ m \in s.models /\ K \subseteq s.models
    PROVE  \A r \in LaunchModel(S, m, now) : StateOK(r) /\ K \subseteq r.models
<1> DEFINE n == [initialize_model(m) EXCEPT !.time = now]
           Moved(s) == [s EXCEPT !.models = @ \ {m}, !.queue = Append(@, n)]
           T == {Moved(s) : s \in S}
<1>1. LaunchModel(S, m, now) = refresh_status(T)
  BY DEF LaunchModel
<1>2. Alike(m, n)
  BY InitialAlike
<1> HIDE DEF n
<1>3. ASSUME NEW s \in S PROVE StateOK(Moved(s)) /\ K \subseteq Moved(s).models
  <2> DEFINE x == Moved(s)
             q == s.queue
             p == Append(q, n)
             M == s.models \ {m}
  <2>1. /\ s = [f \in StateFields |-> s[f]] /\ LangOK(s.lang) /\ IsFiniteSet(s.models)
        /\ q \in Seq({q[i] : i \in DOMAIN q}) /\ OneBatch(s.models, q)
        /\ (\A k \in s.models : Computes(k, s.lang))
        /\ (\A i \in DOMAIN q : Computes(q[i], s.lang))
        /\ m \in s.models /\ K \subseteq s.models
    BY DEF StateOK
  <2>2. x = [s EXCEPT !.models = M, !.queue = p]
    OBVIOUS
  <2> HIDE DEF x, p, q, M
  <2>3. x = [f \in StateFields |-> x[f]] /\ x.lang = s.lang /\ x.models = M /\ x.queue = p
    BY <2>1, <2>2 DEF StateFields
  <2>4. /\ DOMAIN q = 1 .. Len(q) /\ Len(q) \in Nat /\ DOMAIN p = 1 .. Len(q) + 1
        /\ \A i \in DOMAIN q : p[i] = q[i]
        /\ p[Len(q) + 1] = n
        /\ p \in Seq({p[i] : i \in DOMAIN p})
    <3> DEFINE A == {q[i] : i \in DOMAIN q} \cup {n}
    <3>1. q \in Seq(A) /\ n \in A
      BY <2>1, SeqMonotonic
    <3> HIDE DEF A
    <3>2. /\ p \in Seq(A) /\ Len(p) = Len(q) + 1 /\ (\A i \in 1 .. Len(q) : p[i] = q[i])
          /\ p[Len(q) + 1] = n
      BY <3>1, AppendProperties DEF p
    <3>3. DOMAIN q = 1 .. Len(q) /\ Len(q) \in Nat /\ DOMAIN p = 1 .. Len(q) + 1
      BY <3>1, <3>2, LenProperties
    <3>4. p = [i \in 1 .. Len(q) + 1 |-> p[i]]
      BY <3>2, <3>3, LenProperties
    <3>5. p \in Seq({p[i] : i \in DOMAIN p})
      BY <3>3, <3>4, IsASeq
    <3> QED
      BY <3>2, <3>3, <3>5
  <2>5. \A i \in DOMAIN p : i \in DOMAIN q \/ i = Len(q) + 1
    BY <2>4
  <2>6. IsFiniteSet(M) /\ K \subseteq M
    BY <2>1, FS_RemoveElement DEF M
  <2>7. OneBatch(M, p)
    <3>1. ASSUME NEW a \in M PROVE a \in s.models /\ a # m
      BY DEF M
    <3>2. \A a \in M : IsLanguage(a) => ~IsLanguage(n)
      BY <1>2, <2>1, <3>1 DEF OneBatch, Alike
    <3>3. \A i \in DOMAIN q : IsLanguage(q[i]) => ~IsLanguage(n)
      BY <1>2, <2>1 DEF OneBatch, Alike
    <3>4. \A a, b \in M : IsLanguage(a) /\ IsLanguage(b) => a = b
      BY <2>1, <3>1 DEF OneBatch
    <3>5. ASSUME NEW a \in M, NEW i \in DOMAIN p, IsLanguage(a), IsLanguage(p[i]) PROVE FALSE
      BY <2>1, <2>4, <2>5, <3>1, <3>2, <3>5 DEF OneBatch
    <3>6. ASSUME NEW i \in DOMAIN p, NEW j \in DOMAIN p, IsLanguage(p[i]), IsLanguage(p[j]) PROVE i = j
      <4>1. CASE i \in DOMAIN q /\ j \in DOMAIN q
        BY <2>1, <2>4, <3>6, <4>1 DEF OneBatch
      <4>2. CASE i \in DOMAIN q /\ j = Len(q) + 1
        BY <2>4, <3>3, <3>6, <4>2
      <4>3. CASE j \in DOMAIN q /\ i = Len(q) + 1
        BY <2>4, <3>3, <3>6, <4>3
      <4> QED
        BY <2>5, <4>1, <4>2, <4>3
    <3> QED
      BY <3>4, <3>5, <3>6 DEF OneBatch
  <2>8. \A a \in M : Computes(a, s.lang)
    BY <2>1 DEF M
  <2>9. \A i \in DOMAIN p : Computes(p[i], s.lang)
    <3>1. Computes(n, s.lang)
      BY <1>2, <2>1 DEF Computes, Alike
    <3> QED
      BY <2>1, <2>4, <2>5, <3>1
  <2>10. StateOK(x)
    BY <2>1, <2>3, <2>4, <2>6, <2>7, <2>8, <2>9 DEF StateOK
  <2> QED
    BY <2>3, <2>6, <2>10 DEF x
<1>4. \A t \in T : StateOK(t) /\ K \subseteq t.models
  BY <1>3
<1> HIDE DEF T
<1> QED
  BY <1>1, <1>4, RefreshOK

\* The recursion of Launched has a solution.
LaunchedFrom(s, order, now, m, g) ==
    g = [k \in 0 .. m |-> IF k = 0 THEN {s} ELSE LaunchModel(g[k - 1], order[k], now)]

\* Launching model after model is well defined for any number of them.
LEMMA LaunchedExists ==
    ASSUME NEW s, NEW order, NEW now
    PROVE  \A m \in Nat : \E g : LaunchedFrom(s, order, now, m, g)
<1> DEFINE P == {m \in Nat : \E g : LaunchedFrom(s, order, now, m, g)}
<1>1. 0 \in P
  <2> DEFINE g == [n \in 0 .. 0 |-> {s}]
  <2>1. LaunchedFrom(s, order, now, 0, g)
    BY DEF LaunchedFrom
  <2> QED
    BY <2>1
<1>2. ASSUME NEW m \in Nat, m \in P PROVE m + 1 \in P
  <2>1. PICK g : LaunchedFrom(s, order, now, m, g)
    BY <1>2
  <2> DEFINE h == [n \in 0 .. m + 1 |-> IF n <= m THEN g[n] ELSE LaunchModel(g[m], order[m + 1], now)]
  <2>2. \A n \in 0 .. m : g[n] = IF n = 0 THEN {s} ELSE LaunchModel(g[n - 1], order[n], now)
    BY <2>1 DEF LaunchedFrom
  <2>3. ASSUME NEW n \in 0 .. m + 1
        PROVE  h[n] = IF n = 0 THEN {s} ELSE LaunchModel(h[n - 1], order[n], now)
    <3>1. CASE n = 0
      BY <2>2, <3>1
    <3>2. CASE n \in 1 .. m
      <4>1. n - 1 \in 0 .. m /\ n - 1 \in 0 .. m + 1 /\ n \in 0 .. m
        BY <3>2
      <4>2. h[n] = g[n] /\ h[n - 1] = g[n - 1]
        BY <4>1
      <4> QED
        BY <2>2, <3>2, <4>1, <4>2
    <3>3. CASE n = m + 1
      <4>1. h[n] = LaunchModel(g[m], order[n], now) /\ h[n - 1] = g[m] /\ n # 0
        BY <3>3
      <4> QED
        BY <4>1
    <3> QED
      BY <3>1, <3>2, <3>3
  <2>4. h = [n \in 0 .. m + 1 |-> h[n]]
    OBVIOUS
  <2> HIDE DEF h
  <2>5. LaunchedFrom(s, order, now, m + 1, h)
    BY <2>3, <2>4 DEF LaunchedFrom
  <2> QED
    BY <2>5
<1> HIDE DEF P
<1>3. \A m \in Nat : m \in P
  BY <1>1, <1>2, NatSetInduction
<1> QED
  BY <1>3 DEF P

\* All due models, in any order.
LEMMA LaunchedOK ==
    ASSUME serving \in ServingSetups, NEW s, StateOK(s), NEW now, NEW order \in LaunchOrders(s, now)
    PROVE  \A r \in Launched(s, order, now) : StateOK(r)
<1> DEFINE due == {m \in s.models : m.time <= now}
           k == Cardinality(due)
           g == CHOOSE h : LaunchedFrom(s, order, now, Len(order), h)
<1>1. IsFiniteSet(due) /\ k \in Nat
  <2>1. IsFiniteSet(s.models) /\ due \subseteq s.models
    BY DEF StateOK
  <2> QED
    BY <2>1, FS_Subset, FS_CardinalityType
<1>2. order \in [1 .. k -> due] /\ \A i, j \in 1 .. k : i < j => order[i] # order[j]
  BY DEF LaunchOrders
<1> HIDE DEF k
<1>3. Len(order) = k
  BY <1>1, <1>2, LenProperties
<1>4. LaunchedFrom(s, order, now, k, g)
  BY <1>1, <1>3, LaunchedExists
<1>5. Launched(s, order, now) = g[k]
  BY <1>3 DEF Launched, LaunchedFrom
<1> HIDE DEF g
<1>6. \A n \in 0 .. k : g[n] = IF n = 0 THEN {s} ELSE LaunchModel(g[n - 1], order[n], now)
  BY <1>4 DEF LaunchedFrom
<1> DEFINE Left(n) == {order[i] : i \in n + 1 .. k}
           Good(n) == \A r \in g[n] : StateOK(r) /\ Left(n) \subseteq r.models
           P == {n \in Nat : n <= k => Good(n)}
<1>7. 0 \in P
  <2>1. g[0] = {s}
    BY <1>1, <1>6
  <2>2. Left(0) \subseteq s.models
    BY <1>1, <1>2
  <2> QED
    BY <2>1, <2>2
<1>8. ASSUME NEW n \in Nat, n \in P PROVE n + 1 \in P
  <2> SUFFICES ASSUME n + 1 <= k PROVE Good(n + 1)
    OBVIOUS
  <2>1. Good(n)
    BY <1>1, <1>8
  <2> DEFINE m == order[n + 1]
             K == Left(n + 1)
             S == g[n]
  <2>2. g[n + 1] = LaunchModel(S, m, now)
    BY <1>1, <1>6
  <2>3. m \in Left(n) /\ K \subseteq Left(n)
    BY <1>1
  <2>4. m \notin K
    BY <1>1, <1>2
  <2>5. \A r \in S : StateOK(r) /\ m \in r.models /\ K \subseteq r.models
    BY <2>1, <2>3
  <2> HIDE DEF m, K, S, Left
  <2>6. \A r \in LaunchModel(S, m, now) : StateOK(r) /\ K \subseteq r.models
    BY <2>4, <2>5, LaunchOK
  <2> QED
    BY <2>2, <2>6 DEF K
<1> HIDE DEF P, Good
<1>9. \A n \in Nat : n \in P
  BY <1>7, <1>8, NatSetInduction
<1>10. Good(k)
  BY <1>1, <1>9 DEF P
<1> QED
  BY <1>5, <1>10 DEF Good

-----------------------------------------------------------------------------
(* The invariant.                                                          *)

\* The language scheduler's cycle: admission, and at most one new model.
LEMMA LangCycleOK ==
    ASSUME serving \in ServingSetups, NEW s, StateOK(s), NEW now, NEW r \in lang_cycle(s, now)
    PROVE  StateOK(r)
<1>1. CASE ~Language
  BY <1>1 DEF lang_cycle
<1>2. CASE Language
  <2> DEFINE l == admit(s.lang, now)
             x == init_inputs_and_model(l)
             fresh == l.in_model = <<>> /\ StepInputs(l) # <<>>
             m == [reqs |-> StepInputs(l), time |-> 0, graph |-> EmptyGraph]
             M == s.models \cup (IF fresh THEN {m} ELSE {})
  <2>1. r = [s EXCEPT !.lang = x, !.models = M]
    BY <1>2 DEF lang_cycle
  <2>2. /\ s = [f \in StateFields |-> s[f]] /\ LangOK(s.lang) /\ IsFiniteSet(s.models)
        /\ s.queue \in Seq({s.queue[i] : i \in DOMAIN s.queue}) /\ OneBatch(s.models, s.queue)
        /\ (\A k \in s.models : Computes(k, s.lang))
        /\ (\A i \in DOMAIN s.queue : Computes(s.queue[i], s.lang))
    BY DEF StateOK
  <2>3. LangOK(l) /\ l.in_model = s.lang.in_model /\ Batch(l) = Batch(s.lang)
    BY <2>2, AdmitOK
  <2>4. /\ LangOK(x)
        /\ fresh => x.in_model # <<>> /\ Batch(x) = StepInputs(l)
        /\ ~fresh => x = l
    <3> HIDE DEF l
    <3> QED
      BY <2>3, InitInputsOK
  <2>5. fresh => IsLanguage(m) /\ m.reqs = StepInputs(l)
    BY DEF IsLanguage
  <2> HIDE DEF l, x, fresh, m, M
  <2>6. /\ r = [f \in StateFields |-> r[f]] /\ r.lang = x /\ r.models = M
        /\ r.queue = s.queue /\ r.executing = s.executing
    BY <2>1, <2>2 DEF StateFields
  <2>7. CASE fresh
    <3>1. M = s.models \cup {m}
      BY <2>7 DEF M
    <3>2. s.lang.in_model = <<>>
      BY <2>3, <2>7 DEF fresh
    <3>3. /\ \A k \in s.models : ~IsLanguage(k)
          /\ \A i \in DOMAIN s.queue : ~IsLanguage(s.queue[i])
      BY <2>2, <3>2 DEF Computes
    <3>4. IsFiniteSet(M)
      BY <2>2, <3>1, FS_AddElement
    <3>5. OneBatch(M, s.queue)
      BY <3>1, <3>3 DEF OneBatch
    <3>6. Computes(m, x)
      BY <2>4, <2>5, <2>7 DEF Computes
    <3>7. \A k \in M : Computes(k, x)
      BY <3>1, <3>3, <3>6 DEF Computes
    <3>8. \A i \in DOMAIN s.queue : Computes(s.queue[i], x)
      BY <3>3 DEF Computes
    <3> QED
      BY <2>2, <2>4, <2>6, <3>4, <3>5, <3>7, <3>8 DEF StateOK
  <2>8. CASE ~fresh
    <3>1. M = s.models /\ x = l
      BY <2>4, <2>8 DEF M
    <3>2. \A k \in M : Computes(k, x)
      BY <2>2, <2>3, <3>1 DEF Computes
    <3>3. \A i \in DOMAIN s.queue : Computes(s.queue[i], x)
      BY <2>2, <2>3, <3>1 DEF Computes
    <3> QED
      BY <2>2, <2>4, <2>6, <3>1, <3>2, <3>3 DEF StateOK
  <2> QED
    BY <2>7, <2>8
<1> QED
  BY <1>1, <1>2

\* The inductive invariant.
ServingInv == serving \in ServingSetups /\ StateOK(Now)

\* The setup never changes, and with it what the tables mean.
LEMMA LangSteady ==
    ASSUME NEW l, serving' = serving, LangOK(l)
    PROVE  LangOK(l)'
<1>1. Trace' = Trace /\ (\A i : Least(i)' = Least(i)) /\ (\A i : Full(i)' = Full(i))
  BY DEF Trace, Least, Full
<1>2. Taken(l)' = Taken(l)
  BY <1>1 DEF Taken
<1>3. \A a, i, c : RequestOK(a, i, c) => RequestOK(a, i, c)'
  BY <1>1 DEF RequestOK
<1>4. \A e, i, c : EndOK(e, i, c) => EndOK(e, i, c)'
  BY <1>1 DEF EndOK
<1>5. TablesOK(l) => TablesOK(l)'
  BY <1>3, <1>4 DEF TablesOK
<1>6. QueueOK(l) => QueueOK(l)'
  BY <1>1, <1>2 DEF QueueOK
<1>7. SmallBatch(l) => SmallBatch(l)'
  BY DEF SmallBatch, Language, ActiveBound
<1> QED
  BY <1>2, <1>5, <1>6, <1>7 DEF LangOK

\* What a call of the main loop leaves behind is the next state.
LEMMA Becomes ==
    ASSUME NEW s, StateOK(s), Become(s), serving' = serving
    PROVE  StateOK(Now)'
<1>1. /\ s = [f \in StateFields |-> s[f]]
      /\ lang' = s.lang /\ models' = s.models /\ queue' = s.queue /\ executing' = s.executing
  BY DEF StateOK, Become
<1>2. LangOK(s.lang)
  BY DEF StateOK
<1> DEFINE l == s.lang
<1>3. LangOK(l)'
  <2> HIDE DEF l
  <2> QED
    BY <1>2, LangSteady DEF l
<1>4. LangOK(lang)'
  BY <1>1, <1>3
<1>5. Now' = [f \in StateFields |-> Now'[f]]
  BY DEF Now, StateFields
<1>6. Now'.lang = lang' /\ Now'.models = models' /\ Now'.queue = queue' /\ Now'.executing = executing'
  BY DEF Now
<1> QED
  BY <1>1, <1>4, <1>5, <1>6 DEF StateOK

\* The start of a run: nothing admitted, no language model.
LEMMA InitServing == SInit => ServingInv
<1> SUFFICES ASSUME SInit PROVE ServingInv
  OBVIOUS
<1>1. serving \in ServingSetups /\ queue = <<>> /\ lang \in {lang}
  BY DEF SInit
<1>2. LangOK(lang)
  <2>1. /\ lang = [f \in LangFields |-> lang[f]]
        /\ lang.waiting = parse_request_trace(Trace) /\ lang.active = <<>> /\ lang.in_model = <<>>
        /\ lang.done = <<>> /\ lang.computed = <<>>
    BY DEF SInit, Trace, LangFields
  <2> DEFINE w == lang.waiting
             n == Len(Trace)
  <2>2. n \in Nat /\ DOMAIN Trace = 1 .. n /\ serving.max_batch \in Nat
        /\ serving.mode \in {"simple", "iter", "onnx"}
    BY <1>1, TraceTypes, LenProperties
  <2>3. w = [i \in 1 .. n |-> w[i]]
    <3> HIDE DEF n
    <3> QED
      BY <2>1, <2>2 DEF parse_request_trace
  <2>4. w \in Seq({w[i] : i \in DOMAIN w}) /\ Len(w) = n
    <3>1. w = [i \in 1 .. n |-> w[i]] /\ DOMAIN w = 1 .. n /\ n \in Nat
      BY <2>2, <2>3
    <3> HIDE DEF w, n
    <3>2. w \in Seq({w[i] : i \in DOMAIN w})
      BY <3>1, IsASeq
    <3> QED
      BY <3>1, <3>2, LenProperties
  <2>5. Taken(lang) = 0
    BY <2>2, <2>4 DEF Taken
  <2>6. QueueOK(lang)
    <3>1. \A i \in 1 .. n : 0 + i = i
      BY <2>2
    <3> QED
      BY <2>1, <2>2, <2>4, <2>5, <3>1 DEF QueueOK
  <2>7. DOMAIN <<>> = {} /\ 0 .. 0 - 1 = {} /\ Len(<<>>) = 0 /\ Cardinality({}) = 0
    BY FS_EmptySet
  <2>8. TablesOK(lang)
    BY <2>1, <2>7 DEF TablesOK
  <2>9. SmallBatch(lang)
    BY <2>1, <2>2, <2>7 DEF SmallBatch, ActiveBound
  <2>10. lang.in_model \in Seq(DOMAIN lang.active)
    <3>1. <<>> \in Seq(DOMAIN lang.active)
      OBVIOUS
    <3> QED
      BY <2>1, <3>1
  <2> QED
    BY <2>1, <2>5, <2>6, <2>7, <2>8, <2>9, <2>10 DEF LangOK
<1>3. \A m \in models : ~IsLanguage(m)
  BY DEF SInit, IsLanguage
<1>4. IsFiniteSet(models)
  <2>1. IsFiniteSet(DOMAIN serving.nets)
    BY <1>1, ServingAssumption
  <2> DEFINE f == [n \in DOMAIN serving.nets |->
                     [name |-> n, time |-> serving.nets[n].time, axis |-> <<>>, graph |-> EmptyGraph]]
  <2>2. models = {f[n] : n \in DOMAIN serving.nets}
    BY DEF SInit
  <2> DEFINE D == DOMAIN serving.nets
             G == {f[n] : n \in D}
  <2>3. IsFiniteSet(D) /\ f \in [D -> G] /\ models = G
    BY <2>1, <2>2
  <2> HIDE DEF f, D
  <2>4. IsFiniteSet(G)
    <3>1. f \in Surjection(D, G)
      BY <2>3 DEF Surjection
    <3> HIDE DEF G
    <3> QED
      BY <2>3, <3>1, FS_Surjection
  <2> QED
    BY <2>3, <2>4
<1>5. Now = [f \in StateFields |-> Now[f]] /\ Now.lang = lang /\ Now.models = models /\ Now.queue = <<>>
  BY <1>1 DEF Now, StateFields
<1>6. OneBatch(models, <<>>)
  BY <1>3 DEF OneBatch
<1>7. <<>> \in Seq({<<>>[i] : i \in DOMAIN <<>>})
  OBVIOUS
<1>8. StateOK(Now)
  <2> DEFINE s == Now
  <2>1. s = [f \in StateFields |-> s[f]] /\ s.lang = lang /\ s.models = models /\ s.queue = <<>>
    BY <1>5
  <2>2. \A i \in DOMAIN <<>> : FALSE
    OBVIOUS
  <2>3. s.queue \in Seq({s.queue[i] : i \in DOMAIN s.queue})
    BY <1>7, <2>1
  <2>4. \A i \in DOMAIN s.queue : Computes(s.queue[i], s.lang)
    BY <2>1, <2>2
  <2>5. \A m \in s.models : Computes(m, s.lang)
    BY <1>3, <2>1 DEF Computes
  <2> HIDE DEF s
  <2>6. StateOK(s)
    BY <1>2, <1>4, <1>6, <2>1, <2>3, <2>4, <2>5 DEF StateOK
  <2> QED
    BY <2>6 DEF s
<1> QED
  BY <1>1, <1>8 DEF ServingInv

\* handle_model and FinishLayer keep the invariant.
LEMMA StepServing == ServingInv /\ [SNext]_svars => ServingInv'
<1> SUFFICES ASSUME ServingInv, [SNext]_svars PROVE ServingInv'
  OBVIOUS
<1>0. serving \in ServingSetups /\ StateOK(Now)
  BY DEF ServingInv
<1>1. ASSUME serving' = serving, StateOK(Now)' PROVE ServingInv'
  BY <1>0, <1>1 DEF ServingInv
<1>2. CASE handle_model
  <2>1. PICK s \in lang_cycle(Now, cycle') :
          IF s.lang.exited THEN Become(s)
          ELSE \E order \in LaunchOrders(s, cycle') :
               \E next \in Launched(s, order, cycle') : Become(next)
    BY <1>2 DEF handle_model
  <2>2. serving' = serving
    BY <1>2 DEF handle_model
  <2>3. StateOK(s)
    BY <1>0, LangCycleOK
  <2>4. CASE s.lang.exited
    BY <1>1, <2>1, <2>2, <2>3, <2>4, Becomes
  <2>5. CASE ~s.lang.exited
    <3>1. PICK order \in LaunchOrders(s, cycle') : \E next \in Launched(s, order, cycle') : Become(next)
      BY <2>1, <2>5
    <3>2. PICK next \in Launched(s, order, cycle') : Become(next)
      BY <3>1
    <3>3. StateOK(next)
      BY <1>0, <2>3, LaunchedOK
    <3> QED
      BY <1>1, <2>2, <3>2, <3>3, Becomes
  <2> QED
    BY <2>4, <2>5
<1>3. CASE FinishLayer
  <2> DEFINE g == set_layer_finish(queue[1].graph, Head(executing))
             p == [queue EXCEPT ![1] = [@ EXCEPT !.graph = g]]
             x == [Now EXCEPT !.executing = <<>>, !.queue = p]
  <2>1. serving' = serving /\ \E next \in refresh_status({x}) : Become(next)
    BY <1>3 DEF FinishLayer, Now
  <2>2. PICK next \in refresh_status({x}) : Become(next)
    BY <2>1
  <2>3. Now = [f \in StateFields |-> Now[f]] /\ Now.queue = queue
    BY DEF Now, StateFields
  <2>4. \E h : p = [queue EXCEPT ![1] = [@ EXCEPT !.graph = h]]
    OBVIOUS
  <2> HIDE DEF p, x
  <2>5. /\ x = [f \in StateFields |-> x[f]] /\ x.lang = Now.lang /\ x.models = Now.models
        /\ x.queue = p
    BY <2>3 DEF x, StateFields
  <2>6. StateOK(x)
    BY <1>0, <2>3, <2>4, <2>5, FrontOK
  <2>7. \A s \in {x} : StateOK(s) /\ {} \subseteq s.models
    BY <2>6
  <2>8. StateOK(next)
    BY <1>0, <2>7, RefreshOK
  <2> QED
    BY <1>1, <2>1, <2>2, <2>8, Becomes
<1>4. CASE UNCHANGED svars
  <2>1. Become(Now) /\ serving' = serving
    BY <1>4 DEF svars, Become, Now
  <2> QED
    BY <1>0, <1>1, <2>1, Becomes
<1> QED
  BY <1>2, <1>3, <1>4 DEF SNext

\* The invariant says of the tables what the runs check.
LEMMA ServingExact == ServingInv => CachesFollowTokens /\ BatchBound
<1> SUFFICES ASSUME ServingInv PROVE CachesFollowTokens /\ BatchBound
  OBVIOUS
<1>1. serving \in ServingSetups /\ LangOK(lang)
  BY DEF ServingInv, StateOK, Now
<1>2. TablesOK(lang) /\ SmallBatch(lang) /\ DOMAIN lang.active \cup DOMAIN lang.done = 0 .. Taken(lang) - 1
  BY <1>1 DEF LangOK
<1>3. BatchBound
  BY <1>2 DEF BatchBound, SmallBatch, ActiveBound
<1>4. \A id \in DOMAIN lang.active :
        lang.active[id].len = lang.computed[id] + (IF lang.active[id].gen THEN 1 ELSE 0)
  BY <1>2 DEF TablesOK, RequestOK
<1>5. \A id \in DOMAIN lang.done :
        LET r == serving.requests[id + 1]
            least == r.cached + r.prompt + 1
        IN lang.done[id] = Largest({least, r.cached + r.prompt + r.output}) /\ lang.computed[id] = lang.done[id] - 1
  BY <1>2 DEF TablesOK, EndOK, Least, Full, Trace
<1> QED
  BY <1>3, <1>4, <1>5 DEF CachesFollowTokens

\* The tables are in order and one language model computes the batch, at
\* every step of the main loop (Simulator::handle_model, Scheduler::refresh_status).
THEOREM ServingStays == SSpec => []ServingInv
BY InitServing, StepServing, PTL DEF SSpec

\* For every trace, batch bound and mode, the caches follow the tokens and a
\* request ends with exactly its length (LangScheduler::finish_model).
THEOREM CachesStay == SSpec => []CachesFollowTokens
BY ServingStays, ServingExact, PTL

\* No step holds more requests than the batch, and no more are active than the
\* scheduler admits (LangScheduler::cycle, IterLevelScheduler::cycle).
THEOREM BatchStaysBounded == SSpec => []BatchBound
BY ServingStays, ServingExact, PTL
=============================================================================
