----------------------------- MODULE DataFacts ------------------------------
(***************************************************************************)
(* Facts about the data the models are built from, which the proofs cite:   *)
(* sets of naturals and their minima, remainders, sequences without         *)
(* repetitions (the queues), sums over finite sets (MapThenSumSet: the      *)
(* bytes of the requests' regions, the polls of the open rounds), and the   *)
(* bits of a number (the fields of an address).                            *)
(*                                                                         *)
(* The library states induction, and facts about folds, with an operator as *)
(* a parameter.  Here the claim is a set (NatSetInduction, SubsetInduction) *)
(* and the quantity that is summed up a function, and induction is the      *)
(* existence of a smallest counterexample (WFMin), so that every step is    *)
(* first-order.                                                            *)
(***************************************************************************)
EXTENDS Integers, SequencesExt, SequenceTheorems, FiniteSetTheorems,
        WellFoundedInduction, TLAPS

\* A sequence over S without repetitions.
Distinct(S) == {s \in Seq(S) : IsInjective(s)}

-----------------------------------------------------------------------------
\* A non-empty set of naturals has a smallest member, and Min returns it.
LEMMA MinIs ==
    ASSUME NEW S \in SUBSET Nat, S # {}
    PROVE  Min(S) \in S /\ \A y \in S : Min(S) <= y
<1> DEFINE R == OpToRel(<, Nat)
<1>1. \A x, y \in Nat : <<x, y>> \in R <=> x < y
  BY DEF OpToRel
<1> HIDE DEF R
<1>2. IsWellFoundedOn(R, Nat)
  BY NatLessThanWellFounded, Zenon DEF R
<1>3. PICK x \in S : \A y \in S : ~ (<<y, x>> \in R)
  BY <1>2, WFMin
<1>4. ASSUME NEW y \in S PROVE x <= y
  <2>1. x \in Nat /\ y \in Nat
    OBVIOUS
  <2>2. ~ (<<y, x>> \in R)
    BY <1>3
  <2>3. ~ (y < x)
    BY <1>1, <2>1, <2>2
  <2> QED
    BY <2>1, <2>3
<1>5. \E z \in S : \A y \in S : z =< y
  BY <1>4
<1> QED
  BY <1>5 DEF Min

\* The same for the largest member of a finite set of naturals.
LEMMA MaxIs ==
    ASSUME NEW S \in SUBSET Nat, S # {}, NEW n \in Nat, \A y \in S : y <= n
    PROVE  Max(S) \in S /\ \A y \in S : Max(S) >= y
<1> DEFINE T == {k \in Nat : \A y \in S : y <= k}
<1>1. T \in SUBSET Nat /\ n \in T
  OBVIOUS
<1>2. Min(T) \in T /\ \A k \in T : Min(T) <= k
  BY <1>1, MinIs
<1>3. PICK m \in T : \A k \in T : m <= k
  BY <1>2
<1>4. m \in S
  <2>1. SUFFICES ASSUME m \notin S PROVE FALSE
    OBVIOUS
  <2>2. \A y \in S : y <= m - 1
    BY <2>1, <1>3
  <2>3. m - 1 \in T
    <3>1. PICK y \in S : TRUE
      OBVIOUS
    <3>2. y \in Nat /\ m \in Nat /\ y <= m - 1
      BY <2>2
    <3>3. m - 1 \in Nat
      BY <3>2
    <3> QED
      BY <2>2, <3>3
  <2> QED
    BY <1>3, <2>3
<1>5. \E z \in S : \A y \in S : z >= y
  BY <1>3, <1>4
<1> QED
  BY <1>5 DEF Max

\* A product of natural numbers.
LEMMA TimesNat == ASSUME NEW a \in Nat, NEW b \in Nat PROVE a * b \in Nat
OBVIOUS

\* Induction over the naturals, P being the set of those for which the claim
\* holds.
LEMMA NatSetInduction ==
    ASSUME NEW P, 0 \in P, \A n \in Nat : n \in P => n + 1 \in P
    PROVE  \A n \in Nat : n \in P
<1> DEFINE T == {n \in Nat : n \notin P}
<1>1. SUFFICES ASSUME T # {} PROVE FALSE
  OBVIOUS
<1>2. Min(T) \in T /\ \A k \in T : Min(T) <= k
  BY <1>1, MinIs
<1>3. PICK m \in T : \A k \in T : m <= k
  BY <1>2
<1>4. m \in Nat /\ m \notin P /\ m # 0
  BY <1>3
<1>5. m - 1 \in Nat /\ m - 1 \in P
  BY <1>3, <1>4
<1>6. (m - 1) + 1 \in P /\ (m - 1) + 1 = m
  BY <1>4, <1>5
<1> QED
  BY <1>4, <1>6

\* A power of two is a positive number: it is the number of subsets.
LEMMA PowerOfTwo ==
    ASSUME NEW n \in Nat
    PROVE  2 ^ n \in Nat \ {0}
<1> DEFINE S == 1 .. n
<1>1. IsFiniteSet(S) /\ Cardinality(S) = n
  BY FS_Interval
<1>2. IsFiniteSet(SUBSET S) /\ Cardinality(SUBSET S) = 2 ^ n
  BY <1>1, FS_SUBSET
<1>3. SUBSET S # {}
  OBVIOUS
<1> HIDE DEF S
<1>4. Cardinality(SUBSET S) \in Nat /\ Cardinality(SUBSET S) # 0
  BY <1>2, <1>3, FS_CardinalityType, FS_EmptySet
<1> QED
  BY <1>2, <1>4

\* A remainder is the only number below the divisor that differs from the
\* dividend by a multiple of it.
LEMMA RemainderIs ==
    ASSUME NEW a \in Nat, NEW n \in Nat \ {0}, NEW q \in Nat, NEW r \in 0 .. n - 1,
           a = q * n + r
    PROVE  a % n = r /\ a \div n = q
<1> DEFINE s == a % n
           p == a \div n
<1>1. s \in 0 .. n - 1 /\ p \in Nat /\ a = p * n + s
  OBVIOUS
<1> HIDE DEF s, p
<1>2. \A x, y \in Nat : x > y => x * n >= y * n + n
  <2> SUFFICES ASSUME NEW x \in Nat, NEW y \in Nat, x > y PROVE x * n >= y * n + n
    OBVIOUS
  <2> DEFINE d == x - y
  <2>1. d \in Nat \ {0} /\ x = y + d
    OBVIOUS
  <2> HIDE DEF d
  <2>2. x * n = y * n + d * n /\ d * n >= n
    BY <2>1
  <2>3. x * n \in Nat /\ y * n \in Nat /\ d * n \in Nat
    BY <2>1
  <2> QED
    BY <2>2, <2>3
<1>3. p * n \in Nat /\ q * n \in Nat
  BY <1>1
<1>4. ~ (p > q)
  <2> SUFFICES ASSUME p > q PROVE FALSE
    OBVIOUS
  <2>1. p * n >= q * n + n
    BY <1>1, <1>2
  <2> QED
    BY <1>1, <1>3, <2>1
<1>5. ~ (q > p)
  <2> SUFFICES ASSUME q > p PROVE FALSE
    OBVIOUS
  <2>1. q * n >= p * n + n
    BY <1>1, <1>2
  <2> QED
    BY <1>1, <1>3, <2>1
<1>6. p = q
  BY <1>1, <1>4, <1>5
<1>7. s = r
  BY <1>1, <1>3, <1>6
<1> QED
  BY <1>6, <1>7 DEF s, p

\* Counting on by one in a ring of n places.
LEMMA RingStep ==
    ASSUME NEW a \in Nat, NEW n \in Nat \ {0}
    PROVE  ((a % n) + 1) % n = (a + 1) % n
<1> DEFINE r == a % n
           q == a \div n
<1>1. r \in 0 .. n - 1 /\ q \in Nat /\ a = q * n + r
  OBVIOUS
<1> HIDE DEF r, q
<1>2. q * n \in Nat
  BY <1>1
<1>3. CASE r + 1 < n
  <2>1. a + 1 = q * n + (r + 1) /\ r + 1 \in 0 .. n - 1
    BY <1>1, <1>2, <1>3
  <2> DEFINE b == a + 1
             t == r + 1
  <2>4. b \in Nat /\ t \in 0 .. n - 1 /\ b = q * n + t
    BY <2>1
  <2> HIDE DEF b, t
  <2>5. b % n = t
    BY <1>1, <2>4, RemainderIs
  <2>2. (a + 1) % n = r + 1
    BY <2>5 DEF b, t
  <2>3. (r + 1) % n = r + 1
    BY <2>1
  <2> QED
    BY <2>2, <2>3 DEF r
<1>4. CASE r + 1 = n
  <2>1. a + 1 = (q + 1) * n + 0 /\ 0 \in 0 .. n - 1 /\ q + 1 \in Nat
    BY <1>1, <1>2, <1>4
  <2>2. (a + 1) % n = 0
    BY <2>1, RemainderIs
  <2>3. n = 1 * n + 0
    OBVIOUS
  <2>4. n % n = 0
    BY <2>1, <2>3, RemainderIs
  <2> QED
    BY <1>4, <2>2, <2>4 DEF r
<1> QED
  BY <1>1, <1>3, <1>4

\* The members of a sequence.
LEMMA MembersOf ==
    ASSUME NEW S, NEW s \in Seq(S)
    PROVE  /\ ToSet(s) \subseteq S
           /\ s = <<>> <=> ToSet(s) = {}
           /\ s # <<>> => Head(s) = s[1] /\ Head(s) \in ToSet(s)
           /\ \A i \in 1 .. Len(s) : s[i] \in ToSet(s)
BY DEF ToSet

-----------------------------------------------------------------------------
\* Appending a new element.
LEMMA DistinctAppend ==
    ASSUME NEW S, NEW s \in Distinct(S), NEW e \in S, e \notin ToSet(s)
    PROVE  /\ Append(s, e) \in Distinct(S)
           /\ ToSet(Append(s, e)) = ToSet(s) \cup {e}
<1> DEFINE t == Append(s, e)
           n == Len(s)
<1>1. s \in Seq(S) /\ n \in Nat /\ DOMAIN s = 1 .. n
      /\ \A i, j \in 1 .. n : s[i] = s[j] => i = j
  BY LenProperties DEF Distinct, IsInjective
<1>2. /\ t \in Seq(S) /\ DOMAIN t = 1 .. (n + 1)
      /\ \A i \in 1 .. n : t[i] = s[i]
      /\ t[n + 1] = e
  BY <1>1, AppendProperties, LenProperties
<1>3. \A i \in 1 .. n : s[i] # e
  BY <1>1 DEF ToSet
<1> HIDE DEF t, n
<1>4. IsInjective(t)
  BY <1>1, <1>2, <1>3 DEF IsInjective
<1>5. ToSet(t) = ToSet(s) \cup {e}
  <2>1. 1 .. (n + 1) = (1 .. n) \cup {n + 1}
    BY <1>1
  <2> QED
    BY <1>1, <1>2, <2>1 DEF ToSet
<1> QED
  BY <1>2, <1>4, <1>5 DEF Distinct, t

\* A part of a sequence without repetitions.
LEMMA DistinctPart ==
    ASSUME NEW S, NEW s \in Distinct(S), NEW m \in Int, NEW n \in Int,
           1 <= m, n <= Len(s)
    PROVE  /\ SubSeq(s, m, n) \in Distinct(S)
           /\ ToSet(SubSeq(s, m, n)) = {s[i] : i \in m .. n}
<1> DEFINE t == SubSeq(s, m, n)
<1>1. /\ s \in Seq(S) /\ Len(s) \in Nat /\ DOMAIN s = 1 .. Len(s)
      /\ \A i, j \in 1 .. Len(s) : s[i] = s[j] => i = j
      /\ \A i \in 1 .. Len(s) : s[i] \in S
  BY LenProperties, ElementOfSeq DEF Distinct, IsInjective
<1>2. \A i \in m .. n : s[i] \in S
  BY <1>1
<1>3. /\ t \in Seq(S)
      /\ Len(t) = IF m <= n THEN n - m + 1 ELSE 0
      /\ \A i \in 1 .. n - m + 1 : t[i] = s[m + i - 1]
  BY <1>2, SubSeqProperties
<1>4. DOMAIN t = 1 .. (n - m + 1)
  <2>1. DOMAIN t = 1 .. Len(t)
    BY <1>3, LenProperties
  <2> QED
    BY <1>3, <2>1
<1> HIDE DEF t
<1>5. IsInjective(t)
  <2> SUFFICES ASSUME NEW i \in 1 .. (n - m + 1), NEW j \in 1 .. (n - m + 1),
                      t[i] = t[j]
               PROVE  i = j
    BY <1>4 DEF IsInjective
  <2>1. m + i - 1 \in 1 .. Len(s) /\ m + j - 1 \in 1 .. Len(s)
    BY <1>1
  <2>2. s[m + i - 1] = s[m + j - 1]
    BY <1>3
  <2>3. m + i - 1 = m + j - 1
    BY <1>1, <2>1, <2>2
  <2> QED
    BY <2>3
<1>6. ToSet(t) = {s[i] : i \in m .. n}
  <2>1. ASSUME NEW x \in ToSet(t) PROVE x \in {s[i] : i \in m .. n}
    <3>1. PICK i \in 1 .. (n - m + 1) : x = t[i]
      BY <1>4 DEF ToSet
    <3>2. x = s[m + i - 1] /\ m + i - 1 \in m .. n
      BY <1>3, <3>1
    <3> QED
      BY <3>2
  <2>2. ASSUME NEW i \in m .. n PROVE s[i] \in ToSet(t)
    <3>1. i - m + 1 \in 1 .. (n - m + 1) /\ m + (i - m + 1) - 1 = i
      OBVIOUS
    <3>2. t[i - m + 1] = s[i]
      BY <1>3, <3>1
    <3> QED
      BY <1>4, <3>1, <3>2 DEF ToSet
  <2> QED
    BY <2>1, <2>2
<1> QED
  BY <1>3, <1>5, <1>6 DEF Distinct, t

\* Concatenating two sequences without a common member.
LEMMA DistinctConcat ==
    ASSUME NEW S, NEW s \in Distinct(S), NEW t \in Distinct(S),
           ToSet(s) \cap ToSet(t) = {}
    PROVE  /\ s \o t \in Distinct(S)
           /\ ToSet(s \o t) = ToSet(s) \cup ToSet(t)
<1> DEFINE u == s \o t
           m == Len(s)
           n == Len(t)
<1>1. /\ s \in Seq(S) /\ m \in Nat /\ DOMAIN s = 1 .. m
      /\ \A i, j \in 1 .. m : s[i] = s[j] => i = j
      /\ t \in Seq(S) /\ n \in Nat /\ DOMAIN t = 1 .. n
      /\ \A i, j \in 1 .. n : t[i] = t[j] => i = j
  BY LenProperties DEF Distinct, IsInjective
<1>2. /\ u \in Seq(S) /\ Len(u) = m + n
      /\ \A i \in 1 .. m + n : u[i] = IF i <= m THEN s[i] ELSE t[i - m]
  BY <1>1, ConcatProperties
<1>3. DOMAIN u = 1 .. (m + n)
  BY <1>2, LenProperties
<1> HIDE DEF u, m, n
<1>4. \A i \in 1 .. m, j \in 1 .. n : s[i] # t[j]
  <2>1. ToSet(s) = {s[i] : i \in 1 .. m} /\ ToSet(t) = {t[i] : i \in 1 .. n}
    BY <1>1 DEF ToSet
  <2> QED
    BY <2>1
<1>5. \A i \in 1 .. (m + n) :
        \/ i \in 1 .. m /\ u[i] = s[i]
        \/ i - m \in 1 .. n /\ i > m /\ u[i] = t[i - m]
  BY <1>1, <1>2
<1>6. IsInjective(u)
  <2> SUFFICES ASSUME NEW i \in 1 .. (m + n), NEW j \in 1 .. (m + n), u[i] = u[j]
               PROVE  i = j
    BY <1>3 DEF IsInjective
  <2>1. CASE i \in 1 .. m /\ u[i] = s[i]
    <3>1. CASE j \in 1 .. m /\ u[j] = s[j]
      BY <1>1, <2>1, <3>1
    <3>2. CASE j - m \in 1 .. n /\ u[j] = t[j - m]
      <4>1. s[i] # t[j - m]
        BY <1>4, <2>1, <3>2
      <4> QED
        BY <2>1, <3>2, <4>1
    <3> QED
      BY <1>5, <3>1, <3>2
  <2>2. CASE i - m \in 1 .. n /\ i > m /\ u[i] = t[i - m]
    <3>1. j - m \in 1 .. n /\ u[j] = t[j - m]
      BY <1>4, <1>5, <2>2
    <3>2. i - m = j - m
      BY <1>1, <2>2, <3>1
    <3> QED
      BY <1>1, <3>2
  <2> QED
    BY <1>5, <2>1, <2>2
<1>7. ToSet(u) \subseteq ToSet(s) \cup ToSet(t)
  BY <1>1, <1>3, <1>5 DEF ToSet
<1>8. ToSet(s) \subseteq ToSet(u)
  <2>1. \A i \in 1 .. m : i \in 1 .. (m + n) /\ u[i] = s[i]
    BY <1>1, <1>2
  <2> QED
    BY <1>1, <1>3, <2>1 DEF ToSet
<1>9. ToSet(t) \subseteq ToSet(u)
  <2>1. \A j \in 1 .. n : m + j \in 1 .. (m + n) /\ u[m + j] = t[j]
    BY <1>1, <1>2
  <2> QED
    BY <1>1, <1>3, <2>1 DEF ToSet
<1> QED
  BY <1>2, <1>6, <1>7, <1>8, <1>9 DEF Distinct, u

\* Removing the element at a place.
LEMMA DistinctRemoveAt ==
    ASSUME NEW S, NEW s \in Distinct(S), NEW k \in 1 .. Len(s)
    PROVE  /\ RemoveAt(s, k) \in Distinct(S)
           /\ ToSet(RemoveAt(s, k)) = ToSet(s) \ {s[k]}
<1> DEFINE a == SubSeq(s, 1, k - 1)
           b == SubSeq(s, k + 1, Len(s))
<1>1. Len(s) \in Nat /\ DOMAIN s = 1 .. Len(s)
      /\ \A i, j \in 1 .. Len(s) : s[i] = s[j] => i = j
  BY LenProperties DEF Distinct, IsInjective
<1>2. a \in Distinct(S) /\ ToSet(a) = {s[i] : i \in 1 .. k - 1}
  BY <1>1, DistinctPart
<1>3. b \in Distinct(S) /\ ToSet(b) = {s[i] : i \in k + 1 .. Len(s)}
  BY <1>1, DistinctPart
<1> HIDE DEF a, b
<1>4. ToSet(a) \cap ToSet(b) = {}
  BY <1>1, <1>2, <1>3
<1>5. a \o b \in Distinct(S) /\ ToSet(a \o b) = ToSet(a) \cup ToSet(b)
  <2>1. a \in Distinct(S) /\ b \in Distinct(S)
    BY <1>2, <1>3
  <2> QED
    BY <1>4, <2>1, DistinctConcat
<1>6. ToSet(s) \ {s[k]} = ToSet(a) \cup ToSet(b)
  <2>1. ToSet(s) \ {s[k]} = {s[i] : i \in (1 .. Len(s)) \ {k}}
    BY <1>1 DEF ToSet
  <2>2. (1 .. Len(s)) \ {k} = (1 .. k - 1) \cup (k + 1 .. Len(s))
    BY <1>1
  <2> QED
    BY <1>2, <1>3, <2>1, <2>2
<1> QED
  BY <1>5, <1>6 DEF RemoveAt, a, b

\* RemoveFirst takes an element out of a sequence without repetitions.
LEMMA DistinctRemoveFirst ==
    ASSUME NEW S, NEW s \in Distinct(S), NEW e
    PROVE  /\ RemoveFirst(s, e) \in Distinct(S)
           /\ ToSet(RemoveFirst(s, e)) = ToSet(s) \ {e}
<1> DEFINE I == {i \in 1 .. Len(s) : s[i] = e}
<1>1. s \in Seq(S) /\ Len(s) \in Nat BY DEF Distinct
<1>2. CASE I # {}
  <2> DEFINE k == Min(I)
  <2>1. k \in 1 .. Len(s) /\ s[k] = e
    <3>1. I \in SUBSET Nat BY <1>1
    <3>2. k \in I BY <1>2, <3>1, MinIs
    <3> QED BY <3>2
  <2>2. RemoveFirst(s, e) = RemoveAt(s, k) BY <1>2 DEF RemoveFirst, SelectInSeq
  <2> HIDE DEF k
  <2> QED BY <2>1, <2>2, DistinctRemoveAt
<1>3. CASE I = {}
  <2>1. RemoveFirst(s, e) = s BY <1>3 DEF RemoveFirst
  <2>2. e \notin ToSet(s) BY <1>1, <1>3 DEF ToSet
  <2> QED BY <2>1, <2>2
<1> QED BY <1>2, <1>3

\* Taking the first element.
LEMMA DistinctTail ==
    ASSUME NEW S, NEW s \in Distinct(S), s # <<>>
    PROVE  /\ Tail(s) \in Distinct(S)
           /\ ToSet(Tail(s)) = ToSet(s) \ {Head(s)}
<1>1. s \in Seq(S) /\ Len(s) \in Nat \ {0} /\ DOMAIN s = 1 .. Len(s)
      /\ \A i, j \in 1 .. Len(s) : s[i] = s[j] => i = j
  BY LenProperties, EmptySeq DEF Distinct, IsInjective
<1>2. Tail(s) = SubSeq(s, 2, Len(s))
  BY <1>1, TailIsSubSeq
<1>3. /\ SubSeq(s, 2, Len(s)) \in Distinct(S)
      /\ ToSet(SubSeq(s, 2, Len(s))) = {s[i] : i \in 2 .. Len(s)}
  BY <1>1, DistinctPart
<1>4. ToSet(s) \ {s[1]} = {s[i] : i \in 2 .. Len(s)}
  <2>1. ToSet(s) \ {s[1]} = {s[i] : i \in (1 .. Len(s)) \ {1}}
    BY <1>1 DEF ToSet
  <2>2. (1 .. Len(s)) \ {1} = 2 .. Len(s)
    BY <1>1
  <2> QED
    BY <2>1, <2>2
<1> QED
  BY <1>1, <1>2, <1>3, <1>4, MembersOf

\* A sequence without repetitions has as many members as places.
LEMMA DistinctCount ==
    ASSUME NEW S, NEW s \in Distinct(S)
    PROVE  IsFiniteSet(ToSet(s)) /\ Cardinality(ToSet(s)) = Len(s)
<1>1. s \in Seq(S) /\ Len(s) \in Nat /\ DOMAIN s = 1 .. Len(s)
      /\ s \in [1 .. Len(s) -> S] /\ IsInjective(s)
  BY LenProperties DEF Distinct
<1>2. s \in [1 .. Len(s) -> ToSet(s)]
  BY <1>1 DEF ToSet
<1>3. s \in Bijection(1 .. Len(s), ToSet(s))
  BY <1>1, <1>2 DEF Bijection, Injection, Surjection, ToSet
<1>4. ExistsBijection(1 .. Len(s), ToSet(s))
  BY <1>3 DEF ExistsBijection
<1>5. IsFiniteSet(1 .. Len(s)) /\ Cardinality(1 .. Len(s)) = Len(s)
  BY <1>1, FS_Interval, SMTT(30)
<1> QED
  BY <1>4, <1>5, FS_Bijection

-----------------------------------------------------------------------------
(* Folds.                                                                  *)

\* c takes an element from every non-empty subset of S, and g folds h over the
\* subsets of S in the order of c.
Takes(c, S) == \A s \in SUBSET S : s # {} => c[s] \in s
FoldsTo(g, S, base, c, h) ==
    \A s \in SUBSET S : g[s] = IF s = {} THEN base ELSE h[<<s, g[s \ {c[s]}]>>]

\* A fold over a finite set, with values in A, exists.
LEMMA FoldExists ==
    ASSUME NEW S, IsFiniteSet(S), NEW A, NEW base \in A, NEW c, Takes(c, S),
           NEW h \in [(SUBSET S) \X A -> A]
    PROVE  \E g \in [SUBSET S -> A] : FoldsTo(g, S, base, c, h)
<1> USE DEF Takes
<1> DEFINE Rest(s) == s \ {c[s]}
           Next(g, s) == IF s = {} THEN base ELSE h[<<s, g[Rest(s)]>>]
           P == {n \in Nat : \E g \in [SUBSET S -> A] :
                   \A s \in SUBSET S : Cardinality(s) <= n => g[s] = Next(g, s)}
<1>1. \A s \in SUBSET S : /\ IsFiniteSet(s) /\ Cardinality(s) \in Nat
                          /\ Cardinality(s) <= Cardinality(S)
  BY FS_Subset, FS_CardinalityType
<1>2. \A s \in SUBSET S : s # {} => /\ Rest(s) \in SUBSET S
                                    /\ Cardinality(Rest(s)) = Cardinality(s) - 1
  BY <1>1, FS_RemoveElement
<1>3. \A g \in [SUBSET S -> A], s \in SUBSET S : Next(g, s) \in A
  BY <1>2
<1> HIDE DEF Rest
<1>4. 0 \in P
  <2> DEFINE g == [s \in SUBSET S |-> base]
  <2>1. \A s \in SUBSET S : Cardinality(s) <= 0 => s = {}
    BY <1>1, FS_EmptySet
  <2>2. g \in [SUBSET S -> A] /\ \A s \in SUBSET S : Cardinality(s) <= 0 => g[s] = Next(g, s)
    BY <2>1
  <2> HIDE DEF g, Next
  <2> QED
    BY <2>2
<1>5. ASSUME NEW n \in Nat, n \in P PROVE n + 1 \in P
  <2>1. PICK g \in [SUBSET S -> A] :
          \A s \in SUBSET S : Cardinality(s) <= n => g[s] = Next(g, s)
    BY <1>5
  <2> DEFINE k == [s \in SUBSET S |-> Next(g, s)]
  <2>2. k \in [SUBSET S -> A] /\ \A s \in SUBSET S : k[s] = Next(g, s)
    BY <1>3
  <2> HIDE DEF k
  <2>3. ASSUME NEW s \in SUBSET S, Cardinality(s) <= n + 1 PROVE k[s] = Next(k, s)
    <3>1. CASE s = {}
      BY <2>2, <3>1
    <3>2. CASE s # {}
      <4>1. Rest(s) \in SUBSET S /\ Cardinality(Rest(s)) <= n
        BY <1>1, <1>2, <2>3, <3>2
      <4>2. g[Rest(s)] = k[Rest(s)]
        BY <2>1, <2>2, <4>1
      <4> QED
        BY <2>2, <3>2, <4>2
    <3> QED
      BY <3>1, <3>2
  <2> HIDE DEF Next
  <2> QED
    BY <2>2, <2>3
<1>6. \A n \in Nat : n \in P
  <2> HIDE DEF P
  <2> QED
    BY <1>4, <1>5, NatSetInduction
<1>7. PICK g \in [SUBSET S -> A] :
        \A s \in SUBSET S : Cardinality(s) <= Cardinality(S) => g[s] = Next(g, s)
  <2>1. Cardinality(S) \in P
    BY <1>6, FS_CardinalityType
  <2> HIDE DEF Next
  <2> QED
    BY <2>1
<1>8. \A s \in SUBSET S : g[s] = Next(g, s)
  BY <1>1, <1>7
<1> QED
  BY <1>8 DEF Rest, FoldsTo

-----------------------------------------------------------------------------
(* Sums over finite sets.                                                  *)

\* The element MapThenSumSet takes next from s.
Elem(s) == CHOOSE x \in s : TRUE

\* g maps every subset of S to the sum of f over it.
Solves(f, S, g) ==
    g = [s \in SUBSET S |->
           IF s = {} THEN 0 ELSE f[Elem(s)] + g[s \ {Elem(s)}]]

\* The recursive function of MapThenFoldSet, and the sum of f over S.
Partial(f, S) == CHOOSE g : Solves(f, S, g)
SumOver(f, S) == Partial(f, S)[S]

-----------------------------------------------------------------------------
\* Induction over the subsets of a finite set, P being the set of the subsets
\* for which the claim holds.
LEMMA SubsetInduction ==
    ASSUME NEW S, IsFiniteSet(S), NEW P,
           \A U \in SUBSET S :
             (\A V \in SUBSET U : V # U => V \in P) => U \in P
    PROVE  \A U \in SUBSET S : U \in P
<1> DEFINE T == {U \in SUBSET S : U \notin P}
           R == StrictSubsetOrdering(S)
<1>1. IsWellFoundedOn(R, SUBSET S)
  BY FS_StrictSubsetOrderingWellFounded, FS_FiniteSubsetsOfFinite
<1>2. SUFFICES ASSUME T # {} PROVE FALSE
  OBVIOUS
<1>3. T \subseteq SUBSET S
  OBVIOUS
<1> HIDE DEF T, R
<1>4. PICK U \in T : \A V \in T : ~ (<<V, U>> \in R)
  BY <1>1, <1>2, <1>3, WFMin
<1>5. U \in SUBSET S /\ U \notin P
  BY <1>4 DEF T
<1>6. PICK V \in SUBSET U : V # U /\ V \notin P
  BY <1>5
<1>7. V \in SUBSET S
  BY <1>5, <1>6
<1>8. V \in T
  BY <1>6, <1>7 DEF T
<1>9. <<V, U>> \in R
  BY <1>5, <1>6, <1>7 DEF R, StrictSubsetOrdering
<1> QED
  BY <1>4, <1>8, <1>9

\* A non-empty set has the element the sum takes next.
LEMMA ElemIn ==
    ASSUME NEW s, s # {}
    PROVE  Elem(s) \in s
BY DEF Elem

\* Two partial sums agree where both are defined.
LEMMA SolutionsAgree ==
    ASSUME NEW f, NEW S, IsFiniteSet(S), NEW A \in SUBSET S, NEW B \in SUBSET S,
           NEW g, NEW h, Solves(f, A, g), Solves(f, B, h),
           NEW V \in SUBSET A, V \in SUBSET B
    PROVE  g[V] = h[V]
<1> DEFINE P == {U \in SUBSET S : U \subseteq A /\ U \subseteq B => g[U] = h[U]}
<1>1. ASSUME NEW U \in SUBSET S, \A W \in SUBSET U : W # U => W \in P
      PROVE  U \in P
  <2> SUFFICES ASSUME U \subseteq A, U \subseteq B PROVE g[U] = h[U]
    OBVIOUS
  <2>1. CASE U = {}
    BY <2>1 DEF Solves
  <2>2. CASE U # {}
    <3> DEFINE W == U \ {Elem(U)}
    <3>1. Elem(U) \in U
      BY <2>2, ElemIn
    <3>2. W \in SUBSET U /\ W # U
      BY <3>1
    <3>3. g[W] = h[W]
      BY <1>1, <3>2
    <3>4. g[U] = f[Elem(U)] + g[W] /\ h[U] = f[Elem(U)] + h[W]
      BY <2>2 DEF Solves
    <3> QED
      BY <3>3, <3>4
  <2> QED
    BY <2>1, <2>2
<1> HIDE DEF P
<1>2. V \in P
  BY <1>1, SubsetInduction
<1> QED
  BY <1>2 DEF P

\* The recursive definition has a solution.
LEMMA SolutionExists ==
    ASSUME NEW f, NEW S, IsFiniteSet(S)
    PROVE  \A U \in SUBSET S : \E g : Solves(f, U, g)
<1> DEFINE P == {U \in SUBSET S : \E g : Solves(f, U, g)}
<1>1. ASSUME NEW U \in SUBSET S, \A V \in SUBSET U : V # U => V \in P
      PROVE  U \in P
  <2> DEFINE G(V) == Partial(f, V)[V]
             g == [s \in SUBSET U |->
                     IF s = {} THEN 0 ELSE f[Elem(s)] + G(s \ {Elem(s)})]
  <2>1. ASSUME NEW V \in SUBSET U, V # U
        PROVE  Solves(f, V, Partial(f, V))
    <3>1. \E h : Solves(f, V, h)
      BY <1>1, <2>1
    <3> QED
      BY <3>1 DEF Partial
  <2>2. ASSUME NEW V \in SUBSET U, V # U
        PROVE  g[V] = G(V)
    <3>1. CASE V = {}
      <4>1. G(V) = 0
        BY <2>1, <2>2, <3>1 DEF Solves
      <4> QED
        BY <3>1, <4>1
    <3>2. CASE V # {}
      <4> DEFINE W == V \ {Elem(V)}
      <4>1. Elem(V) \in V
        BY <3>2, ElemIn
      <4>2. W \in SUBSET V /\ W \in SUBSET U /\ W # U
        BY <2>2, <4>1
      <4>3. G(V) = f[Elem(V)] + Partial(f, V)[W]
        BY <2>1, <2>2, <3>2 DEF Solves
      <4>4. Partial(f, V)[W] = G(W)
        <5>1. Solves(f, V, Partial(f, V)) /\ Solves(f, W, Partial(f, W))
          BY <2>1, <2>2, <4>2
        <5>2. V \in SUBSET S /\ W \in SUBSET S /\ W \in SUBSET W
          BY <4>2
        <5> HIDE DEF W
        <5> QED
          BY <4>2, <5>1, <5>2, SolutionsAgree
      <4>5. g[V] = f[Elem(V)] + G(W)
        BY <3>2
      <4> QED
        BY <4>3, <4>4, <4>5
    <3> QED
      BY <3>1, <3>2
  <2>3. \A s \in SUBSET U : s # {} => s \ {Elem(s)} \in SUBSET U /\ s \ {Elem(s)} # U
    BY ElemIn
  <2>4. Solves(f, U, g)
    <3> HIDE DEF G
    <3>1. \A s \in SUBSET U :
            s # {} => g[s \ {Elem(s)}] = G(s \ {Elem(s)})
      BY <2>2, <2>3
    <3>2. \A s \in SUBSET U :
            g[s] = IF s = {} THEN 0 ELSE f[Elem(s)] + g[s \ {Elem(s)}]
      BY <3>1
    <3>3. g = [s \in SUBSET U |-> g[s]]
      OBVIOUS
    <3> HIDE DEF g
    <3> QED
      BY <3>2, <3>3 DEF Solves
  <2> QED
    BY <2>4
<1> HIDE DEF P
<1>2. \A U \in SUBSET S : U \in P
  BY <1>1, SubsetInduction
<1> QED
  BY <1>2 DEF P

\* Every partial sum is the solution of its recursion.
LEMMA PartialSolves ==
    ASSUME NEW f, NEW S, IsFiniteSet(S)
    PROVE  \A U \in SUBSET S : Solves(f, U, Partial(f, U))
<1>1. \A U \in SUBSET S : \E g : Solves(f, U, g)
  BY SolutionExists
<1> QED
  BY <1>1 DEF Partial

\* A sum over a subset does not depend on the set it is part of.
LEMMA PartialIsSum ==
    ASSUME NEW f, NEW S, IsFiniteSet(S), NEW U \in SUBSET S
    PROVE  SumOver(f, U) = Partial(f, S)[U]
<1>1. Solves(f, S, Partial(f, S)) /\ Solves(f, U, Partial(f, U))
  BY PartialSolves
<1>2. Partial(f, U)[U] = Partial(f, S)[U]
  BY <1>1, SolutionsAgree
<1> QED
  BY <1>2 DEF SumOver

\* The partial sums, one element at a time.
LEMMA PartialEmpty ==
    ASSUME NEW f, NEW S, IsFiniteSet(S)
    PROVE  Partial(f, S)[{}] = 0
<1>1. Solves(f, S, Partial(f, S))
  BY PartialSolves
<1> QED
  BY <1>1 DEF Solves

LEMMA PartialStep ==
    ASSUME NEW f, NEW S, IsFiniteSet(S), NEW U \in SUBSET S, U # {}
    PROVE  Partial(f, S)[U] = f[Elem(U)] + Partial(f, S)[U \ {Elem(U)}]
<1>1. Solves(f, S, Partial(f, S))
  BY PartialSolves
<1> QED
  BY <1>1 DEF Solves

\* A sum of natural numbers is one.
LEMMA PartialType ==
    ASSUME NEW S, IsFiniteSet(S), NEW f \in [S -> Nat]
    PROVE  \A U \in SUBSET S : Partial(f, S)[U] \in Nat
<1> DEFINE P == {U \in SUBSET S : Partial(f, S)[U] \in Nat}
<1>1. ASSUME NEW U \in SUBSET S, \A V \in SUBSET U : V # U => V \in P
      PROVE  U \in P
  <2>1. CASE U = {}
    <3>1. Partial(f, S)[U] = 0
      BY <2>1, PartialEmpty
    <3> QED
      BY <3>1
  <2>2. CASE U # {}
    <3> DEFINE W == U \ {Elem(U)}
    <3>1. Elem(U) \in U /\ Elem(U) \in S
      BY <2>2, ElemIn
    <3>2. W \in SUBSET U /\ W # U
      BY <3>1
    <3>3. Partial(f, S)[W] \in Nat /\ f[Elem(U)] \in Nat
      BY <1>1, <3>1, <3>2
    <3>4. Partial(f, S)[U] = f[Elem(U)] + Partial(f, S)[W]
      BY <2>2, PartialStep
    <3> QED
      BY <3>3, <3>4
  <2> QED
    BY <2>1, <2>2
<1> HIDE DEF P
<1>2. \A U \in SUBSET S : U \in P
  BY <1>1, SubsetInduction
<1> QED
  BY <1>2 DEF P

\* Any element can be taken out of the sum first.
LEMMA PartialRemove ==
    ASSUME NEW S, IsFiniteSet(S), NEW f \in [S -> Nat]
    PROVE  \A U \in SUBSET S : \A x \in U :
             Partial(f, S)[U] = f[x] + Partial(f, S)[U \ {x}]
<1> DEFINE sum(U) == Partial(f, S)[U]
           P == {U \in SUBSET S : \A x \in U : sum(U) = f[x] + sum(U \ {x})}
<1>1. \A U \in SUBSET S : sum(U) \in Nat
  BY PartialType
<1>2. ASSUME NEW U \in SUBSET S, \A V \in SUBSET U : V # U => V \in P
      PROVE  U \in P
  <2> SUFFICES ASSUME NEW x \in U PROVE sum(U) = f[x] + sum(U \ {x})
    OBVIOUS
  <2> DEFINE e == Elem(U)
  <2>1. e \in U /\ sum(U) = f[e] + sum(U \ {e})
    BY ElemIn, PartialStep
  <2> HIDE DEF e
  <2>2. CASE x = e
    BY <2>1, <2>2
  <2>3. CASE x # e
    <3> DEFINE A == U \ {e}
               B == U \ {x}
               C == U \ {e, x}
    <3>1. A \in P /\ B \in P /\ x \in A /\ e \in B
      BY <1>2, <2>1, <2>3
    <3>2. A \ {x} = C /\ B \ {e} = C
      OBVIOUS
    <3>3. sum(A) = f[x] + sum(A \ {x}) /\ sum(B) = f[e] + sum(B \ {e})
      BY <3>1
    <3>4. /\ f[x] \in Nat /\ f[e] \in Nat
          /\ sum(A) \in Nat /\ sum(B) \in Nat /\ sum(C) \in Nat
      BY <1>1, <2>1
    <3>5. sum(U) = f[e] + sum(A)
      BY <2>1
    <3> HIDE DEF sum, A, B, C
    <3>6. sum(A) = f[x] + sum(C) /\ sum(B) = f[e] + sum(C)
      BY <3>2, <3>3
    <3>7. sum(U) = f[x] + sum(B)
      BY <3>4, <3>5, <3>6
    <3> QED
      BY <3>7 DEF sum, B
  <2> QED
    BY <2>2, <2>3
<1> HIDE DEF P
<1>3. \A U \in SUBSET S : U \in P
  BY <1>2, SubsetInduction
<1> QED
  BY <1>3 DEF P

-----------------------------------------------------------------------------
(* What the proofs about the models cite.                                  *)

\* A sum over a finite set is a natural number, 0 over the empty set.
LEMMA SumType ==
    ASSUME NEW S, IsFiniteSet(S), NEW f \in [S -> Nat]
    PROVE  SumOver(f, S) \in Nat /\ (S = {} => SumOver(f, S) = 0)
BY PartialType, PartialEmpty DEF SumOver

\* The sum is the value at any element plus the sum over the others.
LEMMA SumRemove ==
    ASSUME NEW S, IsFiniteSet(S), NEW f \in [S -> Nat], NEW x \in S
    PROVE  /\ SumOver(f, S) = f[x] + SumOver(f, S \ {x})
           /\ SumOver(f, S \ {x}) \in Nat
<1>1. SumOver(f, S) = f[x] + Partial(f, S)[S \ {x}]
  BY PartialRemove DEF SumOver
<1> DEFINE T == S \ {x}
<1>2. T \in SUBSET S
  OBVIOUS
<1>3. Partial(f, S)[T] \in Nat
  BY <1>2, PartialType
<1> HIDE DEF T
<1>4. SumOver(f, T) = Partial(f, S)[T]
  BY <1>2, PartialIsSum
<1> QED
  BY <1>1, <1>3, <1>4 DEF T

\* The sum depends on the values in the set only.
LEMMA SumSame ==
    ASSUME NEW S, IsFiniteSet(S), NEW f, NEW g, \A x \in S : f[x] = g[x]
    PROVE  SumOver(f, S) = SumOver(g, S)
<1> DEFINE P == {U \in SUBSET S : Partial(f, S)[U] = Partial(g, S)[U]}
<1>1. ASSUME NEW U \in SUBSET S, \A V \in SUBSET U : V # U => V \in P
      PROVE  U \in P
  <2>1. CASE U = {}
    BY <2>1, PartialEmpty
  <2>2. CASE U # {}
    <3> DEFINE W == U \ {Elem(U)}
    <3>1. Elem(U) \in U
      BY <2>2, ElemIn
    <3>2. Partial(f, S)[W] = Partial(g, S)[W] /\ f[Elem(U)] = g[Elem(U)]
      BY <1>1, <3>1
    <3>3. Partial(f, S)[U] = f[Elem(U)] + Partial(f, S)[W]
      BY <2>2, PartialStep
    <3>4. Partial(g, S)[U] = g[Elem(U)] + Partial(g, S)[W]
      BY <2>2, PartialStep
    <3> QED
      BY <3>2, <3>3, <3>4
  <2> QED
    BY <2>1, <2>2
<1> HIDE DEF P
<1>2. S \in P
  BY <1>1, SubsetInduction
<1> QED
  BY <1>2 DEF P, SumOver

\* Changing one value changes the sum by as much, and no value exceeds it.
LEMMA SumUpdate ==
    ASSUME NEW S, IsFiniteSet(S), NEW f \in [S -> Nat], NEW g \in [S -> Nat],
           NEW x \in S, \A y \in S \ {x} : g[y] = f[y]
    PROVE  /\ SumOver(g, S) = (SumOver(f, S) - f[x]) + g[x]
           /\ f[x] <= SumOver(f, S)
           /\ SumOver(f, S) \in Nat /\ SumOver(g, S) \in Nat
<1> DEFINE T == S \ {x}
<1>1. IsFiniteSet(T)
  BY FS_RemoveElement
<1>2. SumOver(f, T) = SumOver(g, T)
  BY <1>1, SumSame
<1>3. /\ SumOver(f, S) = f[x] + SumOver(f, T) /\ SumOver(f, T) \in Nat
      /\ SumOver(g, S) = g[x] + SumOver(g, T)
  BY SumRemove
<1>4. f[x] \in Nat /\ g[x] \in Nat
  OBVIOUS
<1> QED
  BY <1>2, <1>3, <1>4

\* The sum over a set where every value is 0.
LEMMA SumZero ==
    ASSUME NEW S, IsFiniteSet(S), NEW f
    PROVE  (\A x \in S : f[x] = 0) => SumOver(f, S) = 0
<1>1. ASSUME \A x \in S : f[x] = 0 PROVE SumOver(f, S) = 0
  <2> DEFINE P == {U \in SUBSET S : Partial(f, S)[U] = 0}
  <2>1. ASSUME NEW U \in SUBSET S, \A V \in SUBSET U : V # U => V \in P
        PROVE  U \in P
    <3>1. CASE U = {}
      BY <3>1, PartialEmpty
    <3>2. CASE U # {}
      <4> DEFINE W == U \ {Elem(U)}
      <4>1. Elem(U) \in U
        BY <3>2, ElemIn
      <4>2. Partial(f, S)[W] = 0 /\ f[Elem(U)] = 0
        BY <1>1, <2>1, <4>1
      <4>3. Partial(f, S)[U] = f[Elem(U)] + Partial(f, S)[W]
        BY <3>2, PartialStep
      <4> QED
        BY <4>2, <4>3
    <3> QED
      BY <3>1, <3>2
  <2> HIDE DEF P
  <2>2. S \in P
    BY <2>1, SubsetInduction
  <2> QED
    BY <2>2 DEF P, SumOver
<1> QED
  BY <1>1

\* The sum MapThenSumSet takes of a function is SumOver.
LEMMA SumIs ==
    ASSUME NEW f, NEW S
    PROVE  MapThenSumSet(LAMBDA x : f[x], S) = SumOver(f, S)
BY DEF MapThenSumSet, MapThenFoldSet, SumOver, Partial, Solves, Elem

\* The sizes of the sets f[x], and all their members.
SizesOf(f, S) == [x \in S |-> Cardinality(f[x])]
UnionOf(f, S) == UNION {f[x] : x \in S}

\* The sizes of sets that have no member in common sum up to the size of
\* their union.
LEMMA SumOfSizes ==
    ASSUME NEW S, IsFiniteSet(S), NEW f, \A x \in S : IsFiniteSet(f[x]),
           \A x, y \in S : x # y => f[x] \cap f[y] = {}
    PROVE  /\ IsFiniteSet(UnionOf(f, S))
           /\ SumOver(SizesOf(f, S), S) = Cardinality(UnionOf(f, S))
<1> USE DEF SizesOf, UnionOf
<1> DEFINE g == SizesOf(f, S)
           Un(U) == UnionOf(f, U)
           P == {U \in SUBSET S : IsFiniteSet(Un(U)) /\ Partial(g, S)[U] = Cardinality(Un(U))}
<1>1. ASSUME NEW U \in SUBSET S, \A V \in SUBSET U : V # U => V \in P
      PROVE  U \in P
  <2>1. CASE U = {}
    <3>1. Un(U) = {} BY <2>1
    <3>2. Partial(g, S)[U] = 0 BY <2>1, PartialEmpty
    <3> HIDE DEF Un, g
    <3> QED BY <3>1, <3>2, FS_EmptySet
  <2>2. CASE U # {}
    <3> DEFINE e == Elem(U)
               W == U \ {e}
    <3>1. e \in U /\ e \in S BY <2>2, ElemIn
    <3>2. W \in SUBSET U /\ W # U BY <3>1
    <3>3. IsFiniteSet(Un(W)) /\ Partial(g, S)[W] = Cardinality(Un(W)) BY <1>1, <3>2
    <3>4. g[e] = Cardinality(f[e]) /\ IsFiniteSet(f[e]) BY <3>1
    <3>5. Partial(g, S)[U] = g[e] + Partial(g, S)[W]
      <4> HIDE DEF g
      <4> QED BY <2>2, PartialStep
    <3>6. Un(U) = f[e] \cup Un(W) BY <3>1
    <3>7. f[e] \cap Un(W) = {}
      <4>1. \A x \in W : x \in S /\ x # e BY <3>1
      <4> QED BY <3>1, <4>1
    <3> HIDE DEF e, W, Un, g
    <3>8. /\ IsFiniteSet(f[e] \cup Un(W))
          /\ Cardinality(f[e] \cup Un(W))
               = Cardinality(f[e]) + Cardinality(Un(W)) - Cardinality(f[e] \cap Un(W))
      BY <3>3, <3>4, FS_Union
    <3>9. Cardinality(f[e] \cap Un(W)) = 0 BY <3>7, FS_EmptySet
    <3>10. Cardinality(f[e]) \in Nat /\ Cardinality(Un(W)) \in Nat
      BY <3>3, <3>4, FS_CardinalityType
    <3>11. IsFiniteSet(Un(U)) /\ Cardinality(Un(U)) = Cardinality(f[e]) + Cardinality(Un(W))
      BY <3>6, <3>8, <3>9, <3>10
    <3>12. Partial(g, S)[U] = Cardinality(Un(U)) BY <3>3, <3>4, <3>5, <3>11
    <3> QED BY <3>11, <3>12
  <2> QED BY <2>1, <2>2
<1> HIDE DEF P
<1>2. S \in P BY <1>1, SubsetInduction
<1> QED BY <1>2 DEF P, SumOver

\* A finite set of numbers has a greatest one.
LEMMA GreatestIs ==
    ASSUME NEW S \in SUBSET Nat, IsFiniteSet(S), S # {}
    PROVE  \E n \in S : \A y \in S : y <= n
<1> DEFINE P == {U \in SUBSET S : U # {} => \E n \in U : \A y \in U : y <= n}
<1>1. ASSUME NEW U \in SUBSET S, \A V \in SUBSET U : V # U => V \in P
      PROVE  U \in P
  <2>1. CASE U = {}
    BY <2>1
  <2>2. CASE U # {}
    <3>1. PICK x \in U : TRUE
      BY <2>2
    <3> DEFINE V == U \ {x}
    <3>2. V \in SUBSET U /\ V # U /\ V \in SUBSET S
      BY <3>1
    <3>3. V \in P
      BY <1>1, <3>2
    <3>4. CASE V = {}
      <4>1. U = {x}
        BY <3>1, <3>4
      <4> QED
        BY <4>1
    <3>5. CASE V # {}
      <4>1. PICK m \in V : \A y \in V : y <= m
        BY <3>3, <3>5
      <4>2. m \in U /\ m \in Nat /\ x \in Nat /\ \A y \in U : y = x \/ y \in V
        BY <3>1, <3>2, <4>1
      <4>3. CASE x <= m
        <5>1. \A y \in U : y <= m
          BY <4>1, <4>2, <4>3
        <5> QED
          BY <4>2, <5>1
      <4>4. CASE m <= x
        <5>1. \A y \in V : y \in Nat
          BY <3>2
        <5>2. \A y \in U : y <= x
          BY <4>1, <4>2, <4>4, <5>1
        <5> QED
          BY <3>1, <5>2
      <4> QED
        BY <4>2, <4>3, <4>4
    <3> QED
      BY <3>4, <3>5
  <2> QED
    BY <2>1, <2>2
<1> HIDE DEF P
<1>2. S \in P
  BY <1>1, SubsetInduction
<1> QED
  BY <1>2 DEF P
-----------------------------------------------------------------------------
(* Powers of two and digits.                                               *)

\* A power of two is taken apart: the subsets of two disjoint sets.
LEMMA PowerSum ==
    ASSUME NEW m \in Nat, NEW n \in Nat
    PROVE  2 ^ (m + n) = 2 ^ m * 2 ^ n
<1> DEFINE A == 1 .. m
           B == m + 1 .. m + n
           C == 1 .. m + n
           f == [x \in (SUBSET A) \X (SUBSET B) |-> x[1] \cup x[2]]
<1>1. /\ IsFiniteSet(A) /\ Cardinality(A) = m
      /\ IsFiniteSet(B) /\ Cardinality(B) = n
      /\ IsFiniteSet(C) /\ Cardinality(C) = m + n
  <2>1. m + n \in Nat /\ m + 1 \in Int /\ 1 \in Int
    OBVIOUS
  <2>2. IsFiniteSet(A) /\ Cardinality(A) = m
    BY FS_Interval
  <2>3. IsFiniteSet(B) /\ Cardinality(B) = n
    <3>1. Cardinality(B) = IF m + 1 > m + n THEN 0 ELSE (m + n) - (m + 1) + 1
      BY <2>1, FS_Interval
    <3> QED
      BY <2>1, <3>1, FS_Interval
  <2>4. IsFiniteSet(C) /\ Cardinality(C) = m + n
    BY <2>1, FS_Interval
  <2> QED
    BY <2>2, <2>3, <2>4
<1>2. C = A \cup B /\ A \cap B = {}
  OBVIOUS
<1> HIDE DEF A, B, C
<1>3. f \in Bijection((SUBSET A) \X (SUBSET B), SUBSET C)
  <2>1. ASSUME NEW x \in (SUBSET A) \X (SUBSET B) PROVE f[x] \in SUBSET C
    BY <1>2
  <2>2. ASSUME NEW x \in (SUBSET A) \X (SUBSET B), NEW y \in (SUBSET A) \X (SUBSET B),
               f[x] = f[y]
        PROVE  x = y
    <3>1. x[1] = f[x] \cap A /\ x[2] = f[x] \cap B /\ y[1] = f[y] \cap A /\ y[2] = f[y] \cap B
      BY <1>2
    <3> QED
      BY <2>2, <3>1
  <2>3. ASSUME NEW U \in SUBSET C
        PROVE  \E x \in (SUBSET A) \X (SUBSET B) : f[x] = U
    <3>1. U = (U \cap A) \cup (U \cap B)
      BY <1>2
    <3>2. <<U \cap A, U \cap B>> \in (SUBSET A) \X (SUBSET B)
      OBVIOUS
    <3> QED
      BY <3>1, <3>2
  <2> QED
    BY <2>1, <2>2, <2>3 DEF Bijection, Injection, Surjection, IsInjective
<1>4. IsFiniteSet(SUBSET A) /\ IsFiniteSet(SUBSET B)
  BY <1>1, FS_SUBSET
<1>5. /\ IsFiniteSet((SUBSET A) \X (SUBSET B))
      /\ Cardinality((SUBSET A) \X (SUBSET B)) = Cardinality(SUBSET A) * Cardinality(SUBSET B)
  BY <1>4, FS_Product
<1>6. Cardinality(SUBSET C) = Cardinality((SUBSET A) \X (SUBSET B))
  BY <1>3, <1>5, FS_Bijection DEF ExistsBijection
<1> QED
  BY <1>1, <1>5, <1>6, FS_SUBSET

\* The one subset of the empty set.
LEMMA PowerZero == 2 ^ 0 = 1
<1>1. IsFiniteSet({}) /\ Cardinality({}) = 0
  BY FS_EmptySet
<1>2. Cardinality(SUBSET {}) = 2 ^ Cardinality({})
  BY <1>1, FS_SUBSET
<1>3. SUBSET {} = {{}}
  OBVIOUS
<1>4. Cardinality({{}}) = 1
  BY FS_Singleton
<1> QED
  BY <1>1, <1>2, <1>3, <1>4

\* The lowest digits of a number, one more taken at a time: the remainder by
\* p * q is the remainder by p, and the next digit above it.
LEMMA DigitStep ==
    ASSUME NEW a \in Nat, NEW p \in Nat \ {0}, NEW q \in Nat \ {0}
    PROVE  a % (p * q) = (a % p) + p * ((a \div p) % q)
<1> DEFINE d == a \div p
           r == a % p
           e == d \div q
           s == d % q
<1>1. d \in Nat /\ r \in 0 .. p - 1 /\ a = d * p + r
  OBVIOUS
<1>2. e \in Nat /\ s \in 0 .. q - 1 /\ d = e * q + s
  <2> HIDE DEF d
  <2> QED
    BY <1>1
<1> HIDE DEF d, r, e, s
<1>3. p * q \in Nat \ {0}
  <2>1. p >= 1 /\ q >= 1
    OBVIOUS
  <2> QED
    BY <2>1
<1>4. a = e * (p * q) + (r + p * s)
  <2>1. d * p = (e * q) * p + s * p
    BY <1>1, <1>2
  <2> QED
    BY <1>1, <1>2, <2>1
<1>5. r + p * s \in 0 .. p * q - 1
  <2>1. p * s \in Nat
    BY <1>2, TimesNat
  <2>2. s + 1 <= q
    BY <1>2
  <2>3. p * (s + 1) <= p * q
    BY <1>2, <2>2
  <2>4. p * (s + 1) = p * s + p
    BY <1>2
  <2> QED
    BY <1>1, <1>3, <2>1, <2>3, <2>4
<1>6. a % (p * q) = r + p * s
  BY <1>2, <1>3, <1>4, <1>5, RemainderIs
<1> QED
  BY <1>6 DEF r, s, d

\* Two digits are determined by the number they make.
LEMMA TwoDigits ==
    ASSUME NEW p \in Nat \ {0}, NEW q \in Nat \ {0},
           NEW l \in 0 .. p - 1, NEW h \in 0 .. q - 1
    PROVE  /\ (l + h * p) % p = l /\ (l + h * p) \div p = h
           /\ l + h * p \in 0 .. q * p - 1
<1> DEFINE a == l + h * p
<1>1. h * p \in Nat
  BY TimesNat
<1>2. a \in Nat /\ a = h * p + l
  BY <1>1
<1> HIDE DEF a
<1>3. a % p = l /\ a \div p = h
  BY <1>2, RemainderIs
<1>4. (h + 1) * p <= q * p /\ (h + 1) * p = h * p + p
  OBVIOUS
<1>5. q * p \in Nat
  BY TimesNat
<1> QED
  BY <1>1, <1>2, <1>3, <1>4, <1>5 DEF a
=============================================================================
