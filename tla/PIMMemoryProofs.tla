-------------------------- MODULE PIMMemoryProofs --------------------------
(***************************************************************************)
(* Proofs about PIMMemory: for any ranks, banks, queue depths, requests and *)
(* timings that satisfy DeviceTimes, the channel never breaks a rule of the *)
(* device, counts exactly what is on the fly, and issues dependent accesses *)
(* in the order it took them (ChannelExact).                               *)
(*                                                                         *)
(* The invariant Channel has four parts, kept by each part of an update in  *)
(* its turn.  Tabled: the ranks' table of a bank, once the command on the   *)
(* bus has reached it, is never more than one cycle behind the              *)
(* controller's (Behind), which is what the cycle on the bus makes good.    *)
(* BusOK: the data of the writes are spaced by the length of a burst, and   *)
(* no open bank becomes writable before the last of them (Awaited).  Lines: *)
(* the requests stand in the queues in the order they were taken, and what  *)
(* an issued one depends on was issued before it.  Way and Owed: the datum  *)
(* of a read is in one place, and for every cell at least as many reads     *)
(* are pending as data are under way (Enough), so each finds its read.      *)
(***************************************************************************)
EXTENDS PIMMemory, DataFacts

-----------------------------------------------------------------------------
(* The order of the elements of a queue.                                   *)

InOrder(s, x, y) == \E a, b \in DOMAIN s : a < b /\ s[a] = x /\ s[b] = y

\* In a queue without repetitions it is a strict linear order.
LEMMA OrderStrict ==
    ASSUME NEW S, NEW s \in Distinct(S), NEW x, NEW y, InOrder(s, x, y)
    PROVE  ~InOrder(s, y, x) /\ x # y /\ x \in ToSet(s) /\ y \in ToSet(s)
<1>1. s \in Seq(S) /\ IsInjective(s) /\ DOMAIN s = 1 .. Len(s) /\ Len(s) \in Nat
  BY LenProperties DEF Distinct
<1>2. PICK a, b \in DOMAIN s : a < b /\ s[a] = x /\ s[b] = y
  BY DEF InOrder
<1>3. x \in ToSet(s) /\ y \in ToSet(s)
  BY <1>2 DEF ToSet
<1>4. x # y
  BY <1>1, <1>2 DEF IsInjective
<1>5. ASSUME NEW c \in DOMAIN s, NEW d \in DOMAIN s, c < d, s[c] = y, s[d] = x
      PROVE  FALSE
  <2>1. c = b /\ d = a
    BY <1>1, <1>2, <1>5 DEF IsInjective
  <2> QED
    BY <1>1, <1>2, <1>5, <2>1
<1> QED
  BY <1>3, <1>4, <1>5 DEF InOrder

\* Two elements stand in one order or the other.
LEMMA OrderTotal ==
    ASSUME NEW S, NEW s \in Distinct(S), NEW x \in ToSet(s), NEW y \in ToSet(s), x # y
    PROVE  InOrder(s, x, y) \/ InOrder(s, y, x)
<1>1. DOMAIN s = 1 .. Len(s) /\ Len(s) \in Nat
  BY LenProperties DEF Distinct
<1>2. PICK a \in DOMAIN s, b \in DOMAIN s : s[a] = x /\ s[b] = y
  BY DEF ToSet
<1>3. a < b \/ b < a
  BY <1>1, <1>2
<1> QED
  BY <1>2, <1>3 DEF InOrder

\* The order of a queue is transitive.
LEMMA OrderTrans ==
    ASSUME NEW S, NEW s \in Distinct(S), NEW x, NEW y, NEW z,
           InOrder(s, x, y), InOrder(s, y, z)
    PROVE  InOrder(s, x, z)
<1>1. s \in Seq(S) /\ IsInjective(s) /\ DOMAIN s = 1 .. Len(s) /\ Len(s) \in Nat
  BY LenProperties DEF Distinct
<1>2. PICK a, b \in DOMAIN s : a < b /\ s[a] = x /\ s[b] = y
  BY DEF InOrder
<1>3. PICK c, d \in DOMAIN s : c < d /\ s[c] = y /\ s[d] = z
  BY DEF InOrder
<1>4. b = c
  BY <1>1, <1>2, <1>3 DEF IsInjective
<1>5. a < d
  BY <1>1, <1>2, <1>3, <1>4
<1> QED
  BY <1>2, <1>3, <1>5 DEF InOrder

\* An element appended comes after all others.
LEMMA OrderAppend ==
    ASSUME NEW S, NEW s \in Distinct(S), NEW e \in S, e \notin ToSet(s), NEW x, NEW y
    PROVE  InOrder(Append(s, e), x, y) <=> InOrder(s, x, y) \/ (x \in ToSet(s) /\ y = e)
<1> DEFINE t == Append(s, e)
           n == Len(s)
<1>1. s \in Seq(S) /\ n \in Nat /\ DOMAIN s = 1 .. n
  BY LenProperties DEF Distinct
<1>2. /\ t \in Seq(S) /\ Len(t) = n + 1 /\ \A i \in 1 .. n : t[i] = s[i]
      /\ t[n + 1] = e
  BY <1>1, AppendProperties
<1>3. DOMAIN t = 1 .. n + 1
  BY <1>2, LenProperties
<1> HIDE DEF t, n
<1>4. ASSUME InOrder(t, x, y)
      PROVE  InOrder(s, x, y) \/ (x \in ToSet(s) /\ y = e)
  <2>1. PICK a, b \in DOMAIN t : a < b /\ t[a] = x /\ t[b] = y
    BY <1>4 DEF InOrder
  <2>2. a \in 1 .. n /\ s[a] = x
    BY <1>1, <1>2, <1>3, <2>1
  <2>3. x \in ToSet(s)
    BY <1>1, <2>2 DEF ToSet
  <2>4. CASE b = n + 1
    BY <1>2, <2>1, <2>3, <2>4
  <2>5. CASE b # n + 1
    <3>1. b \in 1 .. n /\ s[b] = y
      BY <1>1, <1>2, <1>3, <2>1, <2>5
    <3> QED
      BY <1>1, <2>1, <2>2, <3>1 DEF InOrder
  <2> QED
    BY <2>4, <2>5
<1>5. ASSUME InOrder(s, x, y) PROVE InOrder(t, x, y)
  <2>1. PICK a, b \in DOMAIN s : a < b /\ s[a] = x /\ s[b] = y
    BY <1>5 DEF InOrder
  <2>2. a \in DOMAIN t /\ b \in DOMAIN t /\ t[a] = x /\ t[b] = y
    BY <1>1, <1>2, <1>3, <2>1
  <2> QED
    BY <2>1, <2>2 DEF InOrder
<1>6. ASSUME x \in ToSet(s), y = e PROVE InOrder(t, x, y)
  <2>1. PICK a \in 1 .. n : s[a] = x
    BY <1>1, <1>6 DEF ToSet
  <2>2. a \in DOMAIN t /\ n + 1 \in DOMAIN t /\ t[a] = x /\ t[n + 1] = y /\ a < n + 1
    BY <1>1, <1>2, <1>3, <1>6, <2>1
  <2> QED
    BY <2>2 DEF InOrder
<1> QED
  BY <1>4, <1>5, <1>6 DEF t

\* Removing an element leaves the order of the others.
LEMMA OrderRemoveAt ==
    ASSUME NEW S, NEW s \in Distinct(S), NEW k \in 1 .. Len(s), NEW x, NEW y
    PROVE  InOrder(RemoveAt(s, k), x, y) <=> InOrder(s, x, y) /\ x # s[k] /\ y # s[k]
<1> DEFINE n == Len(s)
           t == RemoveAt(s, k)
           u == SubSeq(s, 1, k - 1)
           v == SubSeq(s, k + 1, n)
           Old(i) == IF i < k THEN i ELSE i + 1
<1>1. /\ s \in Seq(S) /\ n \in Nat /\ DOMAIN s = 1 .. n /\ k \in 1 .. n
      /\ \A i, j \in 1 .. n : s[i] = s[j] => i = j
      /\ \A i \in 1 .. n : s[i] \in S
  BY LenProperties, ElementOfSeq DEF Distinct, IsInjective
<1>2. /\ u \in Seq(S) /\ Len(u) = k - 1 /\ \A i \in 1 .. k - 1 : u[i] = s[i]
      /\ v \in Seq(S) /\ Len(v) = n - k /\ \A i \in 1 .. n - k : v[i] = s[i + k]
  <2>1. \A i \in 1 .. k - 1 : s[i] \in S
    BY <1>1
  <2>2. \A i \in k + 1 .. n : s[i] \in S
    BY <1>1
  <2>3. u \in Seq(S) /\ Len(u) = k - 1 /\ \A i \in 1 .. k - 1 : u[i] = s[i]
    BY <1>1, <2>1, SubSeqProperties
  <2> HIDE DEF n
  <2>4. /\ v \in Seq(S) /\ Len(v) = (IF k + 1 <= n THEN n - (k + 1) + 1 ELSE 0)
        /\ \A i \in 1 .. n - (k + 1) + 1 : v[i] = s[(k + 1) + i - 1]
    BY <1>1, <2>2, SubSeqProperties
  <2>5. Len(v) = n - k /\ n - (k + 1) + 1 = n - k
        /\ \A i \in 1 .. n - k : (k + 1) + i - 1 = i + k
    BY <1>1, <2>4
  <2> HIDE DEF u, v
  <2> QED
    BY <2>3, <2>4, <2>5
<1>3. t = u \o v
  BY DEF RemoveAt
<1> HIDE DEF u, v, t
<1>4. t \in Seq(S) /\ Len(t) = n - 1
      /\ \A i \in 1 .. n - 1 : t[i] = IF i <= k - 1 THEN u[i] ELSE v[i - (k - 1)]
  <2>1. /\ u \o v \in Seq(S) /\ Len(u \o v) = Len(u) + Len(v)
        /\ \A i \in 1 .. Len(u) + Len(v) :
             (u \o v)[i] = IF i <= Len(u) THEN u[i] ELSE v[i - Len(u)]
    BY <1>2, ConcatProperties
  <2>2. Len(u) = k - 1 /\ Len(v) = n - k
    BY <1>2
  <2> HIDE DEF n
  <2>3. (k - 1) + (n - k) = n - 1
    BY <1>1
  <2> QED
    BY <1>3, <2>1, <2>2, <2>3
<1>5. DOMAIN t = 1 .. n - 1
  BY <1>4, LenProperties
<1> HIDE DEF n
<1>6. \A i \in 1 .. n - 1 : t[i] = s[Old(i)] /\ Old(i) \in 1 .. n /\ Old(i) # k
  <2>1. ASSUME NEW i \in 1 .. n - 1, i < k PROVE t[i] = s[i]
    BY <1>1, <1>2, <1>4, <2>1
  <2>2. ASSUME NEW i \in 1 .. n - 1, ~(i < k) PROVE t[i] = s[i + 1]
    <3>1. t[i] = v[i - (k - 1)] /\ i - (k - 1) \in 1 .. n - k /\ (i - (k - 1)) + k = i + 1
      BY <1>1, <1>4, <2>2
    <3> QED
      BY <1>2, <3>1
  <2> QED
    BY <1>1, <2>1, <2>2
<1>7. ASSUME InOrder(t, x, y) PROVE InOrder(s, x, y) /\ x # s[k] /\ y # s[k]
  <2>1. PICK a, b \in DOMAIN t : a < b /\ t[a] = x /\ t[b] = y
    BY <1>7 DEF InOrder
  <2>2. Old(a) < Old(b) /\ s[Old(a)] = x /\ s[Old(b)] = y
    BY <1>1, <1>5, <1>6, <2>1
  <2>3. Old(a) \in 1 .. n /\ Old(b) \in 1 .. n /\ Old(a) # k /\ Old(b) # k
    BY <1>5, <1>6, <2>1
  <2> HIDE DEF Old
  <2> QED
    BY <1>1, <2>2, <2>3 DEF InOrder
<1>8. ASSUME InOrder(s, x, y), x # s[k], y # s[k] PROVE InOrder(t, x, y)
  <2>1. PICK a, b \in DOMAIN s : a < b /\ s[a] = x /\ s[b] = y
    BY <1>8 DEF InOrder
  <2>2. a # k /\ b # k
    BY <1>8, <2>1
  <2> DEFINE New(i) == IF i < k THEN i ELSE i - 1
  <2>3. \A i \in 1 .. n : i # k => New(i) \in 1 .. n - 1 /\ Old(New(i)) = i
    BY <1>1
  <2>4. New(a) < New(b)
    BY <1>1, <2>1, <2>2
  <2>5. New(a) \in DOMAIN t /\ New(b) \in DOMAIN t /\ t[New(a)] = x /\ t[New(b)] = y
    BY <1>1, <1>5, <1>6, <2>1, <2>2, <2>3
  <2> HIDE DEF New
  <2> QED
    BY <2>4, <2>5 DEF InOrder
<1> QED
  BY <1>7, <1>8 DEF t

\* The head comes before all others.
LEMMA OrderHead ==
    ASSUME NEW S, NEW s \in Distinct(S), s # <<>>, NEW x, NEW y
    PROVE  /\ InOrder(Tail(s), x, y) => InOrder(s, x, y)
           /\ x \in ToSet(Tail(s)) => InOrder(s, Head(s), x)
           /\ ~InOrder(s, x, Head(s))
<1> DEFINE t == Tail(s)
<1>1. /\ s \in Seq(S) /\ Len(s) \in Nat \ {0} /\ DOMAIN s = 1 .. Len(s)
      /\ \A i, j \in 1 .. Len(s) : s[i] = s[j] => i = j
  BY LenProperties, EmptySeq DEF Distinct, IsInjective
<1>2. t \in Seq(S) /\ Len(t) = Len(s) - 1 /\ \A i \in 1 .. Len(t) : t[i] = s[i + 1]
  BY <1>1, HeadTailProperties
<1>3. DOMAIN t = 1 .. Len(s) - 1
  BY <1>2, LenProperties
<1>4. Head(s) = s[1]
  BY <1>1, MembersOf
<1> HIDE DEF t
<1>5. ASSUME InOrder(t, x, y) PROVE InOrder(s, x, y)
  <2>1. PICK a, b \in DOMAIN t : a < b /\ t[a] = x /\ t[b] = y
    BY <1>5 DEF InOrder
  <2>2. a + 1 \in DOMAIN s /\ b + 1 \in DOMAIN s /\ a + 1 < b + 1
        /\ s[a + 1] = x /\ s[b + 1] = y
    BY <1>1, <1>2, <1>3, <2>1
  <2> QED
    BY <2>2 DEF InOrder
<1>6. ASSUME x \in ToSet(t) PROVE InOrder(s, Head(s), x)
  <2>1. PICK a \in DOMAIN t : t[a] = x
    BY <1>6 DEF ToSet
  <2>2. 1 \in DOMAIN s /\ a + 1 \in DOMAIN s /\ 1 < a + 1 /\ s[a + 1] = x
    BY <1>1, <1>2, <1>3, <2>1
  <2> QED
    BY <1>4, <2>2 DEF InOrder
<1>7. ASSUME InOrder(s, x, Head(s)) PROVE FALSE
  <2>1. PICK a, b \in DOMAIN s : a < b /\ s[a] = x /\ s[b] = Head(s)
    BY <1>7 DEF InOrder
  <2> QED
    BY <1>1, <1>4, <2>1
<1> QED
  BY <1>5, <1>6, <1>7 DEF t

\* In an empty queue nothing stands before anything.
LEMMA OrderOfNone == \A x, y : ~InOrder(<<>>, x, y)
BY DEF InOrder

-----------------------------------------------------------------------------
(* The bank tables.                                                        *)

Counters == {"rd", "wr", "act", "pre"}
CtrlStates == {"Idle", "RowActive", "Precharging", "Refreshing"}
BankFields == {"st", "row", "rd", "wr", "act", "pre", "cnt"}
IsBank(k) == k = [f \in BankFields |-> k[f]]
CtrlBank(k) == /\ IsBank(k) /\ k.st \in CtrlStates /\ k.row \in Nat /\ k.cnt \in Int
               /\ k.rd \in Nat /\ k.wr \in Nat /\ k.act \in Nat /\ k.pre \in Nat
DevBank(d)  == /\ IsBank(d) /\ d.st \in {"Idle", "RowActive"} /\ d.row \in Nat
               /\ d.rd \in Int /\ d.wr \in Int /\ d.act \in Int /\ d.pre \in Int

\* The device never has to wait longer than the controller thinks; it does not
\* notice when a reserved row is opened.
Behind(k, d) ==
    /\ (d.st = "RowActive") <=> (k.st = "RowActive" /\ ~Reserved(k.row))
    /\ d.st = "RowActive" => d.row = k.row
    /\ d.rd <= k.rd + 1 /\ d.wr <= k.wr + 1 /\ d.act <= k.act + 1 /\ d.pre <= k.pre + 1

\* Larger is one of its arguments and below neither.
LEMMA LargerIs == ASSUME NEW a \in Int, NEW b \in Int
                  PROVE  /\ Larger(a, b) \in Int /\ a <= Larger(a, b) /\ b <= Larger(a, b)
                         /\ Larger(a, b) \in {a, b}
BY DEF Larger

\* The delays of the configuration are numbers.
LEMMA Delays ==
    /\ T.AL \in Nat /\ T.RL \in Nat /\ T.WL \in Nat /\ T.half \in Nat /\ T.tCMD \in Nat
    /\ T.tRCDRD \in Nat /\ T.tRCDWR \in Nat /\ T.tRP \in Nat /\ T.tRAS \in Nat /\ T.tRC \in Nat
    /\ T.tRTPL \in Nat /\ T.tCCDL \in Nat /\ T.tCCDS \in Nat /\ T.tRRDL \in Nat
    /\ T.tRRDS \in Nat /\ T.tWR \in Nat /\ T.tWTRL \in Nat /\ T.tWTRS \in Nat
    /\ T.tRTRS \in Nat /\ T.tRFC \in Nat /\ T.tREFI \in Nat
    /\ ReadToPre \in Int /\ WriteToPre \in Int /\ ReadToWrite \in Int
    /\ WriteToReadLong \in Int /\ WriteToReadShort \in Int /\ WriteToReadRank \in Int
    /\ \A a, b : Gap(a, b) \in Nat /\ Gap(a, b) >= T.half
<1>1. /\ T.AL \in Nat /\ T.RL \in Nat /\ T.WL \in Nat /\ T.half \in Nat /\ T.tCMD \in Nat
      /\ T.tRCDRD \in Nat /\ T.tRCDWR \in Nat /\ T.tRP \in Nat /\ T.tRAS \in Nat /\ T.tRC \in Nat
      /\ T.tRTPL \in Nat /\ T.tCCDL \in Nat /\ T.tCCDS \in Nat /\ T.tRRDL \in Nat
      /\ T.tRRDS \in Nat /\ T.tWR \in Nat /\ T.tWTRL \in Nat /\ T.tWTRS \in Nat
      /\ T.tRTRS \in Nat /\ T.tRFC \in Nat /\ T.tREFI \in Nat
  BY MemAssumption
<1>2. /\ ReadToPre \in Int /\ WriteToPre \in Int /\ ReadToWrite \in Int
      /\ WriteToReadLong \in Int /\ WriteToReadShort \in Int /\ WriteToReadRank \in Int
  BY <1>1 DEF ReadToPre, WriteToPre, ReadToWrite, WriteToReadLong, WriteToReadShort,
              WriteToReadRank, Larger
<1>3. ASSUME NEW a, NEW b PROVE Gap(a, b) \in Nat /\ Gap(a, b) >= T.half
  BY <1>1 DEF Gap, Larger
<1> QED
  BY <1>1, <1>2, <1>3

\* What is left of a delay one cycle later.
LEMMA LessIs == ASSUME NEW x \in Int
                PROVE  Less(x) \in Nat /\ (x > 0 => Less(x) = x - 1) /\ (x <= 0 => Less(x) = 0)
BY DEF Less

\* A cycle changes the counters of a bank and nothing else (step()).
LEMMA AgedIs == ASSUME NEW k, IsBank(k)
    PROVE  /\ IsBank(Aged(k)) /\ Aged(k).st = k.st /\ Aged(k).row = k.row /\ Aged(k).cnt = k.cnt
           /\ Aged(k).rd = Less(k.rd) /\ Aged(k).wr = Less(k.wr)
           /\ Aged(k).act = Less(k.act) /\ Aged(k).pre = Less(k.pre)
BY Zenon DEF Aged, IsBank, BankFields

\* A delay that both set, or raise to, and that only the device has aged.
LEMMA RaiseBoth ==
    ASSUME NEW k \in Nat, NEW d \in Int, d <= k + 1, NEW u \in Int, NEW v \in Int, v <= u
    PROVE  /\ Larger(k, u) \in Nat
           /\ Larger(Less(d), v) <= Less(Larger(k, u)) + 1
           /\ Less(d) <= Less(Larger(k, u)) + 1
           /\ v <= Less(Larger(k, u)) + 1
           /\ Less(d) <= Less(k) + 1
BY DEF Larger, Less

\* What the device's table of a bank becomes when its rank receives p: updateState,
\* which a reserved row skips.
Updated(d, p, b) ==
    IF p.type = "REF" THEN [d EXCEPT !.act = T.tRFC]
    ELSE UpdateBank(d, p.type, b, p.bank, p.row)
DevAfter(d, p, b) == IF Reserved(p.row) THEN d ELSE Updated(d, p, b)

\* The fields of a table after a read (updateCommandQueue, updateBank).
LEMMA ReadFields ==
    ASSUME NEW m, NEW p, NEW r, NEW b, NEW d, p.type = "READ", IsBank(m.bank[r][b]), IsBank(d)
    PROVE  LET k == m.bank[r][b]
               n == AfterCommand(m, p, r, b)
               e == Updated(d, p, b)
               far == r # p.rank /\ k.st # "RowActive"
           IN  /\ IsBank(n) /\ n.st = k.st /\ n.row = k.row /\ n.act = k.act /\ n.cnt = k.cnt
               /\ n.pre = (IF r = p.rank /\ b = p.bank THEN Larger(k.pre, ReadToPre) ELSE k.pre)
               /\ n.rd = (IF r = p.rank THEN Larger(k.rd, Gap(b, p.bank))
                          ELSE IF far THEN k.rd ELSE Larger(k.rd, T.half + T.tRTRS))
               /\ n.wr = (IF far THEN k.wr ELSE Larger(k.wr, ReadToWrite))
               /\ IsBank(e) /\ e.st = d.st /\ e.row = d.row /\ e.act = d.act
               /\ e.pre = (IF b = p.bank THEN Larger(d.pre, ReadToPre) ELSE d.pre)
               /\ e.rd = Larger(d.rd, Gap(b, p.bank))
               /\ e.wr = Larger(d.wr, ReadToWrite)
BY Zenon DEF AfterCommand, Updated, UpdateBank, IsBank, BankFields

\* ... after a write.
LEMMA WriteFields ==
    ASSUME NEW m, NEW p, NEW r, NEW b, NEW d, p.type = "WRITE", IsBank(m.bank[r][b]), IsBank(d)
    PROVE  LET k == m.bank[r][b]
               n == AfterCommand(m, p, r, b)
               e == Updated(d, p, b)
               far == r # p.rank /\ k.st # "RowActive"
           IN  /\ IsBank(n) /\ n.st = k.st /\ n.row = k.row /\ n.act = k.act /\ n.cnt = k.cnt
               /\ n.pre = (IF r = p.rank /\ b = p.bank THEN Larger(k.pre, WriteToPre) ELSE k.pre)
               /\ n.rd = (IF r = p.rank THEN Larger(k.rd, WriteToReadLong)
                          ELSE IF far THEN k.rd ELSE Larger(k.rd, WriteToReadRank))
               /\ n.wr = (IF r = p.rank THEN Larger(k.wr, Gap(b, p.bank))
                          ELSE IF far THEN k.wr ELSE Larger(k.wr, T.half + T.tRTRS))
               /\ IsBank(e) /\ e.st = d.st /\ e.row = d.row /\ e.act = d.act
               /\ e.pre = (IF b = p.bank THEN Larger(d.pre, WriteToPre) ELSE d.pre)
               /\ e.rd = Larger(d.rd, IF SameGroup(b, p.bank) THEN WriteToReadLong
                                      ELSE WriteToReadShort)
               /\ e.wr = Larger(d.wr, Gap(b, p.bank))
BY Zenon DEF AfterCommand, Updated, UpdateBank, IsBank, BankFields

\* ... after an activation.
LEMMA ActFields ==
    ASSUME NEW m, NEW p, NEW r, NEW b, NEW d, p.type = "ACT", IsBank(m.bank[r][b]), IsBank(d)
    PROVE  LET k == m.bank[r][b]
               n == AfterCommand(m, p, r, b)
               e == Updated(d, p, b)
               own == r = p.rank /\ b = p.bank
               gap == IF SameGroup(b, p.bank) THEN T.tRRDL ELSE T.tRRDS
           IN  /\ IsBank(n) /\ n.cnt = k.cnt
               /\ n.st = (IF own THEN "RowActive" ELSE k.st)
               /\ n.row = (IF own THEN p.row ELSE k.row)
               /\ n.act = (IF own THEN Larger(k.act, T.tRC)
                           ELSE IF r = p.rank THEN Larger(k.act, gap) ELSE k.act)
               /\ n.pre = (IF own THEN Larger(k.pre, T.tRAS) ELSE k.pre)
               /\ n.rd = (IF own THEN Larger(k.rd, T.tRCDRD - T.AL) ELSE k.rd)
               /\ n.wr = (IF own THEN Larger(k.wr, T.tRCDWR - T.AL) ELSE k.wr)
               /\ IsBank(e)
               /\ e.st = (IF b = p.bank THEN "RowActive" ELSE d.st)
               /\ e.row = (IF b = p.bank THEN p.row ELSE d.row)
               /\ e.act = (IF b = p.bank THEN T.tRC ELSE Larger(d.act, gap))
               /\ e.pre = (IF b = p.bank THEN T.tRAS ELSE d.pre)
               /\ e.rd = (IF b = p.bank THEN T.tRCDRD - T.AL ELSE d.rd)
               /\ e.wr = (IF b = p.bank THEN T.tRCDWR - T.AL ELSE d.wr)
BY ZenonT(40) DEF AfterCommand, Updated, UpdateBank, IsBank, BankFields

\* ... after a precharge.
LEMMA PreFields ==
    ASSUME NEW m, NEW p, NEW r, NEW b, NEW d, p.type = "PRE", IsBank(m.bank[r][b]), IsBank(d)
    PROVE  LET k == m.bank[r][b]
               n == AfterCommand(m, p, r, b)
               e == Updated(d, p, b)
               own == r = p.rank /\ b = p.bank
           IN  /\ IsBank(n) /\ n.row = k.row /\ n.rd = k.rd /\ n.wr = k.wr /\ n.pre = k.pre
               /\ n.cnt = (IF own THEN T.tRP ELSE k.cnt)
               /\ n.st = (IF own THEN "Precharging" ELSE k.st)
               /\ n.act = (IF own THEN Larger(k.act, T.tRP) ELSE k.act)
               /\ IsBank(e) /\ e.row = d.row /\ e.rd = d.rd /\ e.wr = d.wr /\ e.pre = d.pre
               /\ e.st = (IF b = p.bank THEN "Idle" ELSE d.st)
               /\ e.act = (IF b = p.bank THEN Larger(d.act, T.tRP) ELSE d.act)
BY DEF AfterCommand, Updated, UpdateBank, IsBank, BankFields

\* ... after a refresh.
LEMMA RefFields ==
    ASSUME NEW m, NEW p, NEW r, NEW b, NEW d, p.type = "REF", IsBank(m.bank[r][b]), IsBank(d)
    PROVE  LET k == m.bank[r][b]
               n == AfterCommand(m, p, r, b)
               e == Updated(d, p, b)
           IN  /\ IsBank(n) /\ n.row = k.row /\ n.rd = k.rd /\ n.wr = k.wr /\ n.pre = k.pre
               /\ n.cnt = (IF r = p.rank THEN T.tRFC ELSE k.cnt)
               /\ n.st = (IF r = p.rank THEN "Refreshing" ELSE k.st)
               /\ n.act = (IF r = p.rank THEN T.tRFC ELSE k.act)
               /\ IsBank(e) /\ e.row = d.row /\ e.rd = d.rd /\ e.wr = d.wr /\ e.pre = d.pre
               /\ e.st = d.st /\ e.act = T.tRFC
BY DEF AfterCommand, Updated, UpdateBank, IsBank, BankFields

IsCommand(p) == /\ p.type \in {"READ", "WRITE", "ACT", "PRE", "REF"} /\ p.rank \in Ranks
                /\ p.bank \in Banks /\ p.row \in Nat

\* Two delays that age together stay one cycle apart.
LEMMA LessBehind ==
    ASSUME NEW x \in Nat, NEW y \in Int, y <= x + 1
    PROVE  Less(x) \in Nat /\ Less(y) \in Nat /\ Less(y) <= Less(x) + 1 /\ Less(y) <= x
           /\ x <= Less(x) + 1
BY DEF Less

\* The parts of the two tables of a bank.
LEMMA BankNumbers ==
    ASSUME NEW k, NEW d, CtrlBank(k), DevBank(d), Behind(k, d)
    PROVE  /\ k.rd \in Nat /\ k.wr \in Nat /\ k.act \in Nat /\ k.pre \in Nat /\ k.row \in Nat
           /\ k.cnt \in Int /\ k.st \in CtrlStates /\ IsBank(k) /\ IsBank(d)
           /\ d.rd \in Int /\ d.wr \in Int /\ d.act \in Int /\ d.pre \in Int /\ d.row \in Nat
           /\ d.st \in {"Idle", "RowActive"}
           /\ d.rd <= k.rd + 1 /\ d.wr <= k.wr + 1 /\ d.act <= k.act + 1 /\ d.pre <= k.pre + 1
           /\ ((d.st = "RowActive") <=> (k.st = "RowActive" /\ ~Reserved(k.row)))
           /\ (d.st = "RowActive" => d.row = k.row)
BY DEF CtrlBank, DevBank, Behind

\* Tables that age together stay one cycle apart, and the device's is then within the
\* controller's of the cycle before.
LEMMA AgedBehind ==
    ASSUME NEW k, NEW d, CtrlBank(k), DevBank(d), Behind(k, d)
    PROVE  CtrlBank(Aged(k)) /\ DevBank(Aged(d)) /\ Behind(Aged(k), Aged(d))
           /\ Aged(d).rd \in Nat /\ Aged(d).wr \in Nat /\ Aged(d).act \in Nat /\ Aged(d).pre \in Nat
           /\ Aged(d).rd <= k.rd /\ Aged(d).wr <= k.wr
           /\ Aged(d).act <= k.act /\ Aged(d).pre <= k.pre
<1> DEFINE a == Aged(k)
           e == Aged(d)
<1>1. /\ k.rd \in Nat /\ k.wr \in Nat /\ k.act \in Nat /\ k.pre \in Nat /\ k.row \in Nat
      /\ k.cnt \in Int /\ k.st \in CtrlStates /\ IsBank(k) /\ IsBank(d)
      /\ d.rd \in Int /\ d.wr \in Int /\ d.act \in Int /\ d.pre \in Int /\ d.row \in Nat
      /\ d.st \in {"Idle", "RowActive"}
      /\ d.rd <= k.rd + 1 /\ d.wr <= k.wr + 1 /\ d.act <= k.act + 1 /\ d.pre <= k.pre + 1
      /\ ((d.st = "RowActive") <=> (k.st = "RowActive" /\ ~Reserved(k.row)))
      /\ (d.st = "RowActive" => d.row = k.row)
  BY BankNumbers
<1>2. /\ IsBank(a) /\ a.st = k.st /\ a.row = k.row /\ a.cnt = k.cnt
      /\ a.rd = Less(k.rd) /\ a.wr = Less(k.wr) /\ a.act = Less(k.act) /\ a.pre = Less(k.pre)
  BY <1>1, AgedIs
<1>3. /\ IsBank(e) /\ e.st = d.st /\ e.row = d.row
      /\ e.rd = Less(d.rd) /\ e.wr = Less(d.wr) /\ e.act = Less(d.act) /\ e.pre = Less(d.pre)
  BY <1>1, AgedIs
<1>4. /\ a.rd \in Nat /\ e.rd \in Nat /\ e.rd <= a.rd + 1 /\ e.rd <= k.rd
      /\ a.wr \in Nat /\ e.wr \in Nat /\ e.wr <= a.wr + 1 /\ e.wr <= k.wr
      /\ a.act \in Nat /\ e.act \in Nat /\ e.act <= a.act + 1 /\ e.act <= k.act
      /\ a.pre \in Nat /\ e.pre \in Nat /\ e.pre <= a.pre + 1 /\ e.pre <= k.pre
  BY <1>1, <1>2, <1>3, LessBehind
<1> HIDE DEF a, e
<1>5. CtrlBank(a)
  BY <1>1, <1>2, <1>4 DEF CtrlBank
<1>6. DevBank(e)
  BY <1>1, <1>3, <1>4 DEF DevBank
<1>7. Behind(a, e)
  BY <1>1, <1>2, <1>3, <1>4 DEF Behind
<1> QED
  BY <1>4, <1>5, <1>6, <1>7 DEF a, e

\* The same, part by part.
LEMMA AgedParts ==
    ASSUME NEW k, NEW d, CtrlBank(k), DevBank(d), Behind(k, d)
    PROVE  LET a == Aged(d)
           IN  /\ DevBank(a) /\ IsBank(a) /\ a.st = d.st /\ a.row = d.row /\ d.row \in Nat
               /\ d.st \in {"Idle", "RowActive"}
               /\ a.rd \in Nat /\ a.wr \in Nat /\ a.act \in Nat /\ a.pre \in Nat
               /\ a.rd <= Less(k.rd) + 1 /\ a.wr <= Less(k.wr) + 1 /\ a.act <= Less(k.act) + 1
               /\ a.pre <= Less(k.pre) + 1
               /\ ((d.st = "RowActive") <=> (k.st = "RowActive" /\ ~Reserved(k.row)))
               /\ (d.st = "RowActive" => d.row = k.row)
<1> DEFINE a == Aged(d)
           c == Aged(k)
<1>1. /\ DevBank(a) /\ Behind(c, a)
      /\ a.rd \in Nat /\ a.wr \in Nat /\ a.act \in Nat /\ a.pre \in Nat
  BY AgedBehind
<1>2. /\ IsBank(k) /\ IsBank(d) /\ d.row \in Nat /\ d.st \in {"Idle", "RowActive"}
      /\ ((d.st = "RowActive") <=> (k.st = "RowActive" /\ ~Reserved(k.row)))
      /\ (d.st = "RowActive" => d.row = k.row)
  BY BankNumbers
<1>3. /\ c.rd = Less(k.rd) /\ c.wr = Less(k.wr) /\ c.act = Less(k.act) /\ c.pre = Less(k.pre)
      /\ IsBank(a) /\ a.st = d.st /\ a.row = d.row
  BY <1>2, AgedIs
<1> HIDE DEF a, c
<1>4. /\ a.rd <= c.rd + 1 /\ a.wr <= c.wr + 1 /\ a.act <= c.act + 1 /\ a.pre <= c.pre + 1
  BY <1>1 DEF Behind
<1> QED
  BY <1>1, <1>2, <1>3, <1>4 DEF a

\* The tables n and e after a command that left their states and rows, from
\* the counters.
LEMMA NowBehind ==
    ASSUME NEW n, NEW e, IsBank(n), IsBank(e), n.st \in CtrlStates, n.row \in Nat,
           n.cnt \in Int, n.rd \in Nat, n.wr \in Nat, n.act \in Nat, n.pre \in Nat,
           e.st \in {"Idle", "RowActive"}, e.row \in Nat, e.rd \in Int, e.wr \in Int,
           e.act \in Int, e.pre \in Int,
           (e.st = "RowActive") <=> (n.st = "RowActive" /\ ~Reserved(n.row)),
           e.st = "RowActive" => e.row = n.row,
           e.rd <= Less(n.rd) + 1, e.wr <= Less(n.wr) + 1,
           e.act <= Less(n.act) + 1, e.pre <= Less(n.pre) + 1
    PROVE  CtrlBank(n) /\ DevBank(e) /\ Behind(Aged(n), e)
<1>1. CtrlBank(n)
  BY DEF CtrlBank
<1>2. DevBank(e)
  BY DEF DevBank
<1>3. Aged(n).st = n.st /\ Aged(n).row = n.row /\ Aged(n).rd = Less(n.rd)
      /\ Aged(n).wr = Less(n.wr) /\ Aged(n).act = Less(n.act) /\ Aged(n).pre = Less(n.pre)
  BY AgedIs
<1>4. Behind(Aged(n), e)
  BY <1>3 DEF Behind
<1> QED
  BY <1>1, <1>2, <1>4

\* What a command leaves of the tables of a bank: the device, which ages once
\* before it receives the command, stays within the controller's delays.
Followed(k, n, e, p) ==
    /\ CtrlBank(n) /\ DevBank(e) /\ Behind(Aged(n), e)
    /\ k.wr <= n.wr
    /\ p.type = "WRITE" /\ n.st = "RowActive" => T.half <= n.wr
    /\ n.st = "RowActive" => k.st = "RowActive" \/ T.half - 1 <= n.wr

After(d, p, r, b) == IF r = p.rank THEN DevAfter(Aged(d), p, b) ELSE Aged(d)

\* The device stays within the controller's delays after a read,
LEMMA ReadFollows ==
    ASSUME DeviceTimes, NEW m, NEW p, NEW r \in Ranks, NEW b \in Banks, NEW d, IsCommand(p),
           CtrlBank(m.bank[r][b]), DevBank(d), Behind(m.bank[r][b], d), p.type = "READ",
           ~Reserved(p.row)
    PROVE  Followed(m.bank[r][b], AfterCommand(m, p, r, b), After(d, p, r, b), p)
<1> DEFINE k == m.bank[r][b]
           n == AfterCommand(m, p, r, b)
           a == Aged(d)
           f == Updated(a, p, b)
           e == After(d, p, r, b)
<1>1. /\ k.rd \in Nat /\ k.wr \in Nat /\ k.act \in Nat /\ k.pre \in Nat /\ k.row \in Nat
      /\ k.cnt \in Int /\ k.st \in CtrlStates /\ IsBank(k)
  BY BankNumbers
<1>2. /\ DevBank(a) /\ IsBank(a) /\ a.st = d.st /\ a.row = d.row /\ d.row \in Nat
      /\ d.st \in {"Idle", "RowActive"}
      /\ a.rd \in Nat /\ a.wr \in Nat /\ a.act \in Nat /\ a.pre \in Nat
      /\ a.rd <= Less(k.rd) + 1 /\ a.wr <= Less(k.wr) + 1 /\ a.act <= Less(k.act) + 1
      /\ a.pre <= Less(k.pre) + 1
      /\ ((d.st = "RowActive") <=> (k.st = "RowActive" /\ ~Reserved(k.row)))
      /\ (d.st = "RowActive" => d.row = k.row)
  BY AgedParts
<1>3. /\ IsBank(n) /\ n.st = k.st /\ n.row = k.row /\ n.act = k.act /\ n.cnt = k.cnt
      /\ n.pre = (IF r = p.rank /\ b = p.bank THEN Larger(k.pre, ReadToPre) ELSE k.pre)
      /\ n.rd = (IF r = p.rank THEN Larger(k.rd, Gap(b, p.bank))
                 ELSE IF k.st # "RowActive" THEN k.rd ELSE Larger(k.rd, T.half + T.tRTRS))
      /\ n.wr = (IF r # p.rank /\ k.st # "RowActive" THEN k.wr ELSE Larger(k.wr, ReadToWrite))
      /\ IsBank(f) /\ f.st = a.st /\ f.row = a.row /\ f.act = a.act
      /\ f.pre = (IF b = p.bank THEN Larger(a.pre, ReadToPre) ELSE a.pre)
      /\ f.rd = Larger(a.rd, Gap(b, p.bank)) /\ f.wr = Larger(a.wr, ReadToWrite)
  <2>1. IsBank(m.bank[r][b]) /\ IsBank(a)
    BY <1>1, <1>2
  <2> QED
    BY <2>1, ReadFields
<1> HIDE DEF n, a, f, k
<1>4. ReadToPre \in Int /\ ReadToWrite \in Int /\ Gap(b, p.bank) \in Nat /\ T.half \in Nat
      /\ T.tRTRS \in Nat
  BY Delays
<1>5. n.rd \in Nat /\ n.wr \in Nat /\ n.pre \in Nat /\ k.wr <= n.wr
      /\ f.rd \in Int /\ f.wr \in Int /\ f.pre \in Int
  BY <1>1, <1>2, <1>3, <1>4 DEF Larger
<1>6. CASE r = p.rank
  <2>1. e = f
    BY <1>6 DEF After, DevAfter, f, a
  <2>2. f.rd <= Less(n.rd) + 1 /\ f.wr <= Less(n.wr) + 1 /\ f.act <= Less(n.act) + 1
    BY <1>1, <1>2, <1>3, <1>4, <1>6 DEF Larger, Less
  <2>3. f.pre <= Less(n.pre) + 1
    BY <1>1, <1>2, <1>3, <1>4, <1>6 DEF Larger, Less
  <2>4. CtrlBank(n) /\ DevBank(f) /\ Behind(Aged(n), f)
    BY <1>1, <1>2, <1>3, <1>5, <2>2, <2>3, NowBehind
  <2> QED
    BY <1>3, <1>5, <2>1, <2>4 DEF Followed, n, k
<1>7. CASE r # p.rank
  <2>1. e = a
    BY <1>7 DEF After, f, a
  <2>2. a.rd <= Less(n.rd) + 1 /\ a.wr <= Less(n.wr) + 1
    BY <1>1, <1>2, <1>3, <1>4, <1>7 DEF Larger, Less
  <2>3. a.pre <= Less(n.pre) + 1 /\ a.act <= Less(n.act) + 1
    BY <1>1, <1>2, <1>3, <1>4, <1>7 DEF Larger, Less
  <2>4. CtrlBank(n) /\ DevBank(a) /\ Behind(Aged(n), a)
    BY <1>1, <1>2, <1>3, <1>5, <2>2, <2>3, NowBehind
  <2> QED
    BY <1>3, <1>5, <2>1, <2>4 DEF Followed, n, k
<1> QED
  BY <1>6, <1>7 DEF n, k

\* ... after a write,
LEMMA WriteFollows ==
    ASSUME DeviceTimes, NEW m, NEW p, NEW r \in Ranks, NEW b \in Banks, NEW d, IsCommand(p),
           CtrlBank(m.bank[r][b]), DevBank(d), Behind(m.bank[r][b], d), p.type = "WRITE",
           ~Reserved(p.row)
    PROVE  Followed(m.bank[r][b], AfterCommand(m, p, r, b), After(d, p, r, b), p)
<1> DEFINE k == m.bank[r][b]
           n == AfterCommand(m, p, r, b)
           a == Aged(d)
           f == Updated(a, p, b)
           e == After(d, p, r, b)
<1>1. /\ k.rd \in Nat /\ k.wr \in Nat /\ k.act \in Nat /\ k.pre \in Nat /\ k.row \in Nat
      /\ k.cnt \in Int /\ k.st \in CtrlStates /\ IsBank(k)
  BY BankNumbers
<1>2. /\ DevBank(a) /\ IsBank(a) /\ a.st = d.st /\ a.row = d.row /\ d.row \in Nat
      /\ d.st \in {"Idle", "RowActive"}
      /\ a.rd \in Nat /\ a.wr \in Nat /\ a.act \in Nat /\ a.pre \in Nat
      /\ a.rd <= Less(k.rd) + 1 /\ a.wr <= Less(k.wr) + 1 /\ a.act <= Less(k.act) + 1
      /\ a.pre <= Less(k.pre) + 1
      /\ ((d.st = "RowActive") <=> (k.st = "RowActive" /\ ~Reserved(k.row)))
      /\ (d.st = "RowActive" => d.row = k.row)
  BY AgedParts
<1>3. /\ IsBank(n) /\ n.st = k.st /\ n.row = k.row /\ n.act = k.act /\ n.cnt = k.cnt
      /\ n.pre = (IF r = p.rank /\ b = p.bank THEN Larger(k.pre, WriteToPre) ELSE k.pre)
      /\ n.rd = (IF r = p.rank THEN Larger(k.rd, WriteToReadLong)
                 ELSE IF k.st # "RowActive" THEN k.rd ELSE Larger(k.rd, WriteToReadRank))
      /\ n.wr = (IF r = p.rank THEN Larger(k.wr, Gap(b, p.bank))
                 ELSE IF k.st # "RowActive" THEN k.wr ELSE Larger(k.wr, T.half + T.tRTRS))
      /\ IsBank(f) /\ f.st = a.st /\ f.row = a.row /\ f.act = a.act
      /\ f.pre = (IF b = p.bank THEN Larger(a.pre, WriteToPre) ELSE a.pre)
      /\ f.rd = Larger(a.rd, IF SameGroup(b, p.bank) THEN WriteToReadLong ELSE WriteToReadShort)
      /\ f.wr = Larger(a.wr, Gap(b, p.bank))
  BY <1>1, <1>2, WriteFields
<1> HIDE DEF n, a, f, k
<1>4. /\ WriteToPre \in Int /\ WriteToReadLong \in Int /\ WriteToReadShort \in Int
      /\ WriteToReadRank \in Int /\ Gap(b, p.bank) \in Nat /\ T.half \in Nat
      /\ T.tRTRS \in Nat /\ T.half <= Gap(b, p.bank)
      /\ WriteToReadShort <= WriteToReadLong
  BY Delays DEF DeviceTimes, WriteToReadLong, WriteToReadShort, IsCommand
<1>5. /\ n.rd \in Nat /\ n.wr \in Nat /\ n.pre \in Nat /\ n.act \in Nat /\ n.row \in Nat
      /\ n.cnt \in Int /\ n.st \in CtrlStates
      /\ f.rd \in Int /\ f.wr \in Int /\ f.pre \in Int /\ f.act \in Int /\ f.row \in Nat
      /\ f.st \in {"Idle", "RowActive"}
  BY <1>1, <1>2, <1>3, <1>4 DEF Larger, CtrlStates
<1>6. CASE r = p.rank
  <2>1. e = f
    BY <1>6 DEF After, DevAfter, f, a
  <2>2. f.rd <= Less(n.rd) + 1 /\ f.wr <= Less(n.wr) + 1
    BY <1>1, <1>2, <1>3, <1>4, <1>6 DEF Larger, Less
  <2>3. f.pre <= Less(n.pre) + 1 /\ f.act <= Less(n.act) + 1
    BY <1>1, <1>2, <1>3, <1>4, <1>6 DEF Larger, Less
  <2>4. ((f.st = "RowActive") <=> (n.st = "RowActive" /\ ~Reserved(n.row)))
        /\ (f.st = "RowActive" => f.row = n.row)
    BY <1>1, <1>2, <1>3, <1>4, <1>6
  <2>5. CtrlBank(n) /\ DevBank(f) /\ Behind(Aged(n), f)
    BY <1>1, <1>2, <1>3, <1>5, <2>2, <2>3, <2>4, NowBehind
  <2>6. k.wr <= n.wr /\ (n.st = "RowActive" => k.st = "RowActive" \/ T.half - 1 <= n.wr)
        /\ (p.type = "WRITE" /\ n.st = "RowActive" => T.half <= n.wr)
    BY <1>1, <1>3, <1>4, <1>5, <1>6 DEF Larger, DeviceTimes
  <2> QED
    BY <2>1, <2>5, <2>6 DEF Followed, n, k
<1>7. CASE r # p.rank
  <2>1. e = a
    BY <1>7 DEF After, f, a
  <2>2. a.rd <= Less(n.rd) + 1 /\ a.wr <= Less(n.wr) + 1
    BY <1>1, <1>2, <1>3, <1>4, <1>7 DEF Larger, Less
  <2>3. a.pre <= Less(n.pre) + 1 /\ a.act <= Less(n.act) + 1
    BY <1>1, <1>2, <1>3, <1>4, <1>7 DEF Larger, Less
  <2>4. ((a.st = "RowActive") <=> (n.st = "RowActive" /\ ~Reserved(n.row)))
        /\ (a.st = "RowActive" => a.row = n.row)
    BY <1>1, <1>2, <1>3, <1>4, <1>7
  <2>5. CtrlBank(n) /\ DevBank(a) /\ Behind(Aged(n), a)
    BY <1>1, <1>2, <1>3, <1>5, <2>2, <2>3, <2>4, NowBehind
  <2>6. k.wr <= n.wr /\ (n.st = "RowActive" => k.st = "RowActive" \/ T.half - 1 <= n.wr)
        /\ (p.type = "WRITE" /\ n.st = "RowActive" => T.half <= n.wr)
    BY <1>1, <1>3, <1>4, <1>5, <1>7 DEF Larger
  <2> QED
    BY <2>1, <2>5, <2>6 DEF Followed, n, k
<1> QED
  BY <1>6, <1>7 DEF n, k

\* ... after an activation,
LEMMA ActFollows ==
    ASSUME DeviceTimes, NEW m, NEW p, NEW r \in Ranks, NEW b \in Banks, NEW d, IsCommand(p),
           CtrlBank(m.bank[r][b]), DevBank(d), Behind(m.bank[r][b], d), p.type = "ACT",
           ~Reserved(p.row)
    PROVE  Followed(m.bank[r][b], AfterCommand(m, p, r, b), After(d, p, r, b), p)
<1> DEFINE k == m.bank[r][b]
           n == AfterCommand(m, p, r, b)
           a == Aged(d)
           f == Updated(a, p, b)
           e == After(d, p, r, b)
<1>1. /\ k.rd \in Nat /\ k.wr \in Nat /\ k.act \in Nat /\ k.pre \in Nat /\ k.row \in Nat
      /\ k.cnt \in Int /\ k.st \in CtrlStates /\ IsBank(k)
  BY BankNumbers
<1>2. /\ DevBank(a) /\ IsBank(a) /\ a.st = d.st /\ a.row = d.row /\ d.row \in Nat
      /\ d.st \in {"Idle", "RowActive"}
      /\ a.rd \in Nat /\ a.wr \in Nat /\ a.act \in Nat /\ a.pre \in Nat
      /\ a.rd <= Less(k.rd) + 1 /\ a.wr <= Less(k.wr) + 1 /\ a.act <= Less(k.act) + 1
      /\ a.pre <= Less(k.pre) + 1
      /\ ((d.st = "RowActive") <=> (k.st = "RowActive" /\ ~Reserved(k.row)))
      /\ (d.st = "RowActive" => d.row = k.row)
  BY AgedParts
<1>3. /\ IsBank(n) /\ n.cnt = k.cnt
      /\ n.st = (IF r = p.rank /\ b = p.bank THEN "RowActive" ELSE k.st)
      /\ n.row = (IF r = p.rank /\ b = p.bank THEN p.row ELSE k.row)
      /\ n.act = (IF r = p.rank /\ b = p.bank THEN Larger(k.act, T.tRC)
                  ELSE IF r = p.rank
                  THEN Larger(k.act, IF SameGroup(b, p.bank) THEN T.tRRDL ELSE T.tRRDS)
                  ELSE k.act)
      /\ n.pre = (IF r = p.rank /\ b = p.bank THEN Larger(k.pre, T.tRAS) ELSE k.pre)
      /\ n.rd = (IF r = p.rank /\ b = p.bank THEN Larger(k.rd, T.tRCDRD - T.AL) ELSE k.rd)
      /\ n.wr = (IF r = p.rank /\ b = p.bank THEN Larger(k.wr, T.tRCDWR - T.AL) ELSE k.wr)
      /\ IsBank(f)
      /\ f.st = (IF b = p.bank THEN "RowActive" ELSE a.st)
      /\ f.row = (IF b = p.bank THEN p.row ELSE a.row)
      /\ f.act = (IF b = p.bank THEN T.tRC
                  ELSE Larger(a.act, IF SameGroup(b, p.bank) THEN T.tRRDL ELSE T.tRRDS))
      /\ f.pre = (IF b = p.bank THEN T.tRAS ELSE a.pre)
      /\ f.rd = (IF b = p.bank THEN T.tRCDRD - T.AL ELSE a.rd)
      /\ f.wr = (IF b = p.bank THEN T.tRCDWR - T.AL ELSE a.wr)
  <2>1. IsBank(m.bank[r][b]) /\ IsBank(a)
    BY <1>1, <1>2
  <2> QED
    BY <2>1, ActFields
<1> HIDE DEF n, a, f, k
<1>4. /\ T.tRC \in Nat /\ T.tRAS \in Nat /\ T.tRRDL \in Nat /\ T.tRRDS \in Nat
      /\ T.tRCDRD \in Nat /\ T.tRCDWR \in Nat /\ T.AL \in Nat /\ T.half \in Nat
      /\ p.row \in Nat /\ T.half <= T.tRCDWR - T.AL + 1
  BY Delays DEF DeviceTimes, WriteToReadLong, WriteToReadShort, IsCommand
<1>5. /\ n.rd \in Nat /\ n.wr \in Nat /\ n.pre \in Nat /\ n.act \in Nat /\ n.row \in Nat
      /\ n.cnt \in Int /\ n.st \in CtrlStates
      /\ f.rd \in Int /\ f.wr \in Int /\ f.pre \in Int /\ f.act \in Int /\ f.row \in Nat
      /\ f.st \in {"Idle", "RowActive"}
  BY <1>1, <1>2, <1>3, <1>4 DEF Larger, CtrlStates
<1>6. CASE r = p.rank
  <2>1. e = f
    BY <1>6 DEF After, DevAfter, f, a
  <2>2. f.rd <= Less(n.rd) + 1 /\ f.wr <= Less(n.wr) + 1
    BY <1>1, <1>2, <1>3, <1>4, <1>6 DEF Larger, Less
  <2>3. f.pre <= Less(n.pre) + 1 /\ f.act <= Less(n.act) + 1
    BY <1>1, <1>2, <1>3, <1>4, <1>6 DEF Larger, Less
  <2>4. ((f.st = "RowActive") <=> (n.st = "RowActive" /\ ~Reserved(n.row)))
        /\ (f.st = "RowActive" => f.row = n.row)
    BY <1>1, <1>2, <1>3, <1>4, <1>6
  <2>5. CtrlBank(n) /\ DevBank(f) /\ Behind(Aged(n), f)
    BY <1>1, <1>2, <1>3, <1>5, <2>2, <2>3, <2>4, NowBehind
  <2>6. k.wr <= n.wr /\ (n.st = "RowActive" => k.st = "RowActive" \/ T.half - 1 <= n.wr)
        /\ (p.type = "WRITE" /\ n.st = "RowActive" => T.half <= n.wr)
    BY <1>1, <1>3, <1>4, <1>5, <1>6 DEF Larger, DeviceTimes
  <2> QED
    BY <2>1, <2>5, <2>6 DEF Followed, n, k
<1>7. CASE r # p.rank
  <2>1. e = a
    BY <1>7 DEF After, f, a
  <2>2. a.rd <= Less(n.rd) + 1 /\ a.wr <= Less(n.wr) + 1
    BY <1>1, <1>2, <1>3, <1>4, <1>7 DEF Larger, Less
  <2>3. a.pre <= Less(n.pre) + 1 /\ a.act <= Less(n.act) + 1
    BY <1>1, <1>2, <1>3, <1>4, <1>7 DEF Larger, Less
  <2>4. ((a.st = "RowActive") <=> (n.st = "RowActive" /\ ~Reserved(n.row)))
        /\ (a.st = "RowActive" => a.row = n.row)
    BY <1>1, <1>2, <1>3, <1>4, <1>7
  <2>5. CtrlBank(n) /\ DevBank(a) /\ Behind(Aged(n), a)
    BY <1>1, <1>2, <1>3, <1>5, <2>2, <2>3, <2>4, NowBehind
  <2>6. k.wr <= n.wr /\ (n.st = "RowActive" => k.st = "RowActive" \/ T.half - 1 <= n.wr)
        /\ (p.type = "WRITE" /\ n.st = "RowActive" => T.half <= n.wr)
    BY <1>1, <1>3, <1>4, <1>5, <1>7 DEF Larger
  <2> QED
    BY <2>1, <2>5, <2>6 DEF Followed, n, k
<1> QED
  BY <1>6, <1>7 DEF n, k

\* ... after a precharge,
LEMMA PreFollows ==
    ASSUME DeviceTimes, NEW m, NEW p, NEW r \in Ranks, NEW b \in Banks, NEW d, IsCommand(p),
           CtrlBank(m.bank[r][b]), DevBank(d), Behind(m.bank[r][b], d), p.type = "PRE",
           ~Reserved(p.row)
    PROVE  Followed(m.bank[r][b], AfterCommand(m, p, r, b), After(d, p, r, b), p)
<1> DEFINE k == m.bank[r][b]
           n == AfterCommand(m, p, r, b)
           a == Aged(d)
           f == Updated(a, p, b)
           e == After(d, p, r, b)
<1>1. /\ k.rd \in Nat /\ k.wr \in Nat /\ k.act \in Nat /\ k.pre \in Nat /\ k.row \in Nat
      /\ k.cnt \in Int /\ k.st \in CtrlStates /\ IsBank(k)
  BY BankNumbers
<1>2. /\ DevBank(a) /\ IsBank(a) /\ a.st = d.st /\ a.row = d.row /\ d.row \in Nat
      /\ d.st \in {"Idle", "RowActive"}
      /\ a.rd \in Nat /\ a.wr \in Nat /\ a.act \in Nat /\ a.pre \in Nat
      /\ a.rd <= Less(k.rd) + 1 /\ a.wr <= Less(k.wr) + 1 /\ a.act <= Less(k.act) + 1
      /\ a.pre <= Less(k.pre) + 1
      /\ ((d.st = "RowActive") <=> (k.st = "RowActive" /\ ~Reserved(k.row)))
      /\ (d.st = "RowActive" => d.row = k.row)
  BY AgedParts
<1>3. /\ IsBank(n) /\ n.row = k.row /\ n.rd = k.rd /\ n.wr = k.wr /\ n.pre = k.pre
      /\ n.cnt = (IF r = p.rank /\ b = p.bank THEN T.tRP ELSE k.cnt)
      /\ n.st = (IF r = p.rank /\ b = p.bank THEN "Precharging" ELSE k.st)
      /\ n.act = (IF r = p.rank /\ b = p.bank THEN Larger(k.act, T.tRP) ELSE k.act)
      /\ IsBank(f) /\ f.row = a.row /\ f.rd = a.rd /\ f.wr = a.wr /\ f.pre = a.pre
      /\ f.st = (IF b = p.bank THEN "Idle" ELSE a.st)
      /\ f.act = (IF b = p.bank THEN Larger(a.act, T.tRP) ELSE a.act)
  BY <1>1, <1>2, PreFields
<1> HIDE DEF n, a, f, k
<1>4. T.tRP \in Nat /\ T.half \in Nat
  BY Delays DEF DeviceTimes, WriteToReadLong, WriteToReadShort, IsCommand
<1>5. /\ n.rd \in Nat /\ n.wr \in Nat /\ n.pre \in Nat /\ n.act \in Nat /\ n.row \in Nat
      /\ n.cnt \in Int /\ n.st \in CtrlStates
      /\ f.rd \in Int /\ f.wr \in Int /\ f.pre \in Int /\ f.act \in Int /\ f.row \in Nat
      /\ f.st \in {"Idle", "RowActive"}
  BY <1>1, <1>2, <1>3, <1>4 DEF Larger, CtrlStates
<1>6. CASE r = p.rank
  <2>1. e = f
    BY <1>6 DEF After, DevAfter, f, a
  <2>2. f.rd <= Less(n.rd) + 1 /\ f.wr <= Less(n.wr) + 1
    BY <1>1, <1>2, <1>3, <1>4, <1>6 DEF Larger, Less
  <2>3. f.pre <= Less(n.pre) + 1 /\ f.act <= Less(n.act) + 1
    BY <1>1, <1>2, <1>3, <1>4, <1>6 DEF Larger, Less
  <2>4. ((f.st = "RowActive") <=> (n.st = "RowActive" /\ ~Reserved(n.row)))
        /\ (f.st = "RowActive" => f.row = n.row)
    BY <1>1, <1>2, <1>3, <1>4, <1>6
  <2>5. CtrlBank(n) /\ DevBank(f) /\ Behind(Aged(n), f)
    BY <1>1, <1>2, <1>3, <1>5, <2>2, <2>3, <2>4, NowBehind
  <2>6. k.wr <= n.wr /\ (n.st = "RowActive" => k.st = "RowActive" \/ T.half - 1 <= n.wr)
        /\ (p.type = "WRITE" /\ n.st = "RowActive" => T.half <= n.wr)
    BY <1>1, <1>3, <1>4, <1>5, <1>6 DEF Larger, DeviceTimes
  <2> QED
    BY <2>1, <2>5, <2>6 DEF Followed, n, k
<1>7. CASE r # p.rank
  <2>1. e = a
    BY <1>7 DEF After, f, a
  <2>2. a.rd <= Less(n.rd) + 1 /\ a.wr <= Less(n.wr) + 1
    BY <1>1, <1>2, <1>3, <1>4, <1>7 DEF Larger, Less
  <2>3. a.pre <= Less(n.pre) + 1 /\ a.act <= Less(n.act) + 1
    BY <1>1, <1>2, <1>3, <1>4, <1>7 DEF Larger, Less
  <2>4. ((a.st = "RowActive") <=> (n.st = "RowActive" /\ ~Reserved(n.row)))
        /\ (a.st = "RowActive" => a.row = n.row)
    BY <1>1, <1>2, <1>3, <1>4, <1>7
  <2>5. CtrlBank(n) /\ DevBank(a) /\ Behind(Aged(n), a)
    BY <1>1, <1>2, <1>3, <1>5, <2>2, <2>3, <2>4, NowBehind
  <2>6. k.wr <= n.wr /\ (n.st = "RowActive" => k.st = "RowActive" \/ T.half - 1 <= n.wr)
        /\ (p.type = "WRITE" /\ n.st = "RowActive" => T.half <= n.wr)
    BY <1>1, <1>3, <1>4, <1>5, <1>7 DEF Larger
  <2> QED
    BY <2>1, <2>5, <2>6 DEF Followed, n, k
<1> QED
  BY <1>6, <1>7 DEF n, k

\* ... and after a refresh of a rank without an open bank.
LEMMA RefFollows ==
    ASSUME DeviceTimes, NEW m, NEW p, NEW r \in Ranks, NEW b \in Banks, NEW d, IsCommand(p),
           CtrlBank(m.bank[r][b]), DevBank(d), Behind(m.bank[r][b], d), p.type = "REF",
           r = p.rank => m.bank[r][b].st # "RowActive", ~Reserved(p.row)
    PROVE  Followed(m.bank[r][b], AfterCommand(m, p, r, b), After(d, p, r, b), p)
<1> DEFINE k == m.bank[r][b]
           n == AfterCommand(m, p, r, b)
           a == Aged(d)
           f == Updated(a, p, b)
           e == After(d, p, r, b)
<1>1. /\ k.rd \in Nat /\ k.wr \in Nat /\ k.act \in Nat /\ k.pre \in Nat /\ k.row \in Nat
      /\ k.cnt \in Int /\ k.st \in CtrlStates /\ IsBank(k)
  BY BankNumbers
<1>2. /\ DevBank(a) /\ IsBank(a) /\ a.st = d.st /\ a.row = d.row /\ d.row \in Nat
      /\ d.st \in {"Idle", "RowActive"}
      /\ a.rd \in Nat /\ a.wr \in Nat /\ a.act \in Nat /\ a.pre \in Nat
      /\ a.rd <= Less(k.rd) + 1 /\ a.wr <= Less(k.wr) + 1 /\ a.act <= Less(k.act) + 1
      /\ a.pre <= Less(k.pre) + 1
      /\ ((d.st = "RowActive") <=> (k.st = "RowActive" /\ ~Reserved(k.row)))
      /\ (d.st = "RowActive" => d.row = k.row)
  BY AgedParts
<1>3. /\ IsBank(n) /\ n.row = k.row /\ n.rd = k.rd /\ n.wr = k.wr /\ n.pre = k.pre
      /\ n.cnt = (IF r = p.rank THEN T.tRFC ELSE k.cnt)
      /\ n.st = (IF r = p.rank THEN "Refreshing" ELSE k.st)
      /\ n.act = (IF r = p.rank THEN T.tRFC ELSE k.act)
      /\ IsBank(f) /\ f.row = a.row /\ f.rd = a.rd /\ f.wr = a.wr /\ f.pre = a.pre
      /\ f.st = a.st /\ f.act = T.tRFC
  BY <1>1, <1>2, RefFields
<1> HIDE DEF n, a, f, k
<1>4. T.tRFC \in Nat /\ T.half \in Nat
  BY Delays DEF DeviceTimes, WriteToReadLong, WriteToReadShort, IsCommand
<1>5. /\ n.rd \in Nat /\ n.wr \in Nat /\ n.pre \in Nat /\ n.act \in Nat /\ n.row \in Nat
      /\ n.cnt \in Int /\ n.st \in CtrlStates
      /\ f.rd \in Int /\ f.wr \in Int /\ f.pre \in Int /\ f.act \in Int /\ f.row \in Nat
      /\ f.st \in {"Idle", "RowActive"}
  BY <1>1, <1>2, <1>3, <1>4 DEF Larger, CtrlStates
<1>6. CASE r = p.rank
  <2>1. e = f
    BY <1>6 DEF After, DevAfter, f, a
  <2>2. f.rd <= Less(n.rd) + 1 /\ f.wr <= Less(n.wr) + 1
    BY <1>1, <1>2, <1>3, <1>4, <1>6 DEF Larger, Less
  <2>3. f.pre <= Less(n.pre) + 1 /\ f.act <= Less(n.act) + 1
    BY <1>1, <1>2, <1>3, <1>4, <1>6 DEF Larger, Less
  <2>4. ((f.st = "RowActive") <=> (n.st = "RowActive" /\ ~Reserved(n.row)))
        /\ (f.st = "RowActive" => f.row = n.row)
    BY <1>1, <1>2, <1>3, <1>4, <1>6 DEF k
  <2>5. CtrlBank(n) /\ DevBank(f) /\ Behind(Aged(n), f)
    BY <1>1, <1>2, <1>3, <1>5, <2>2, <2>3, <2>4, NowBehind
  <2>6. k.wr <= n.wr /\ (n.st = "RowActive" => k.st = "RowActive" \/ T.half - 1 <= n.wr)
        /\ (p.type = "WRITE" /\ n.st = "RowActive" => T.half <= n.wr)
    BY <1>1, <1>3, <1>4, <1>5, <1>6 DEF Larger, DeviceTimes
  <2> QED
    BY <2>1, <2>5, <2>6 DEF Followed, n, k
<1>7. CASE r # p.rank
  <2>1. e = a
    BY <1>7 DEF After, f, a
  <2>2. a.rd <= Less(n.rd) + 1 /\ a.wr <= Less(n.wr) + 1
    BY <1>1, <1>2, <1>3, <1>4, <1>7 DEF Larger, Less
  <2>3. a.pre <= Less(n.pre) + 1 /\ a.act <= Less(n.act) + 1
    BY <1>1, <1>2, <1>3, <1>4, <1>7 DEF Larger, Less
  <2>4. ((a.st = "RowActive") <=> (n.st = "RowActive" /\ ~Reserved(n.row)))
        /\ (a.st = "RowActive" => a.row = n.row)
    BY <1>1, <1>2, <1>3, <1>4, <1>7
  <2>5. CtrlBank(n) /\ DevBank(a) /\ Behind(Aged(n), a)
    BY <1>1, <1>2, <1>3, <1>5, <2>2, <2>3, <2>4, NowBehind
  <2>6. k.wr <= n.wr /\ (n.st = "RowActive" => k.st = "RowActive" \/ T.half - 1 <= n.wr)
        /\ (p.type = "WRITE" /\ n.st = "RowActive" => T.half <= n.wr)
    BY <1>1, <1>3, <1>4, <1>5, <1>7 DEF Larger
  <2> QED
    BY <2>1, <2>5, <2>6 DEF Followed, n, k
<1> QED
  BY <1>6, <1>7 DEF n, k

\* An access to a reserved row only raises the controller's delays; the row it
\* opens or closes is closed for the device.
LEMMA ReservedFollows ==
    ASSUME DeviceTimes, NEW m, NEW p, NEW r \in Ranks, NEW b \in Banks, NEW d, IsCommand(p),
           CtrlBank(m.bank[r][b]), DevBank(d), Behind(m.bank[r][b], d), p.type # "REF",
           Reserved(p.row),
           p.type = "PRE" /\ r = p.rank /\ b = p.bank => p.row = m.bank[r][b].row,
           p.type = "ACT" /\ r = p.rank /\ b = p.bank => m.bank[r][b].st # "RowActive"
    PROVE  Followed(m.bank[r][b], AfterCommand(m, p, r, b), After(d, p, r, b), p)
<1> DEFINE k == m.bank[r][b]
           n == AfterCommand(m, p, r, b)
           a == Aged(d)
           own == r = p.rank /\ b = p.bank
<1>1. /\ k.rd \in Nat /\ k.wr \in Nat /\ k.act \in Nat /\ k.pre \in Nat /\ k.row \in Nat
      /\ k.cnt \in Int /\ k.st \in CtrlStates /\ IsBank(k)
  BY BankNumbers
<1>2. /\ DevBank(a) /\ IsBank(a) /\ a.st = d.st /\ a.row = d.row /\ d.row \in Nat
      /\ d.st \in {"Idle", "RowActive"}
      /\ a.rd \in Nat /\ a.wr \in Nat /\ a.act \in Nat /\ a.pre \in Nat
      /\ a.rd <= Less(k.rd) + 1 /\ a.wr <= Less(k.wr) + 1 /\ a.act <= Less(k.act) + 1
      /\ a.pre <= Less(k.pre) + 1
      /\ ((d.st = "RowActive") <=> (k.st = "RowActive" /\ ~Reserved(k.row)))
      /\ (d.st = "RowActive" => d.row = k.row)
  BY AgedParts
<1>3. After(d, p, r, b) = a
  BY DEF After, DevAfter
<1>4. p.row \in Nat /\ p.type \in {"READ", "WRITE", "ACT", "PRE"}
  BY DEF IsCommand
<1>5. own /\ p.type = "PRE" => a.st = "Idle"
  BY <1>2
<1>6. own /\ p.type = "ACT" => a.st = "Idle"
  BY <1>2
<1>7. IsBank(m.bank[r][b]) /\ IsBank(a)
  BY <1>1, <1>2
<1> DEFINE Raised == /\ IsBank(n) /\ n.row \in Nat /\ n.cnt \in Int /\ n.st \in CtrlStates
                     /\ n.rd \in Nat /\ n.wr \in Nat /\ n.pre \in Nat /\ n.act \in Nat
                     /\ k.rd <= n.rd /\ k.wr <= n.wr /\ k.pre <= n.pre /\ k.act <= n.act
           Apart == /\ (a.st = "RowActive") <=> (n.st = "RowActive" /\ ~Reserved(n.row))
                    /\ a.st = "RowActive" => a.row = n.row
           Slack == /\ p.type = "WRITE" /\ n.st = "RowActive" => T.half <= n.wr
                    /\ n.st = "RowActive" => k.st = "RowActive" \/ T.half - 1 <= n.wr
<1>13. ASSUME Raised, Apart, Slack
      PROVE  Followed(k, n, After(d, p, r, b), p)
  <2>1. a.rd <= Less(n.rd) + 1 /\ a.wr <= Less(n.wr) + 1 /\ a.act <= Less(n.act) + 1
        /\ a.pre <= Less(n.pre) + 1
    <3> HIDE DEF n, k, a
    <3> QED
      BY <1>1, <1>2, <1>13 DEF Less
  <2> HIDE DEF n, k, a
  <2>2. CtrlBank(n) /\ DevBank(a) /\ Behind(Aged(n), a)
    BY <1>2, <1>13, <2>1, NowBehind
  <2>3. k.wr <= n.wr
    BY <1>13
  <2> QED
    BY <1>3, <1>13, <2>2, <2>3 DEF Followed, n, k, a
<1>8. ASSUME p.type = "READ" PROVE Raised /\ Apart /\ Slack
  <2>1. /\ IsBank(Updated(a, p, b)) /\ IsBank(n) /\ n.st = k.st /\ n.row = k.row /\ n.act = k.act /\ n.cnt = k.cnt
        /\ n.pre = (IF own THEN Larger(k.pre, ReadToPre) ELSE k.pre)
        /\ n.rd = (IF r = p.rank THEN Larger(k.rd, Gap(b, p.bank))
                   ELSE IF k.st # "RowActive" THEN k.rd ELSE Larger(k.rd, T.half + T.tRTRS))
        /\ n.wr = (IF r # p.rank /\ k.st # "RowActive" THEN k.wr ELSE Larger(k.wr, ReadToWrite))
    BY <1>7, <1>8, ReadFields
  <2>2. ReadToPre \in Int /\ ReadToWrite \in Int /\ Gap(b, p.bank) \in Nat /\ T.half \in Nat
        /\ T.tRTRS \in Nat
    BY Delays
  <2> HIDE DEF n, a, k, own
  <2>3. Raised
    BY <1>1, <2>1, <2>2 DEF Larger
  <2>4. Apart /\ Slack
    BY <1>2, <1>8, <2>1
  <2> QED
    BY <2>3, <2>4
<1>9. ASSUME p.type = "WRITE" PROVE Raised /\ Apart /\ Slack
  <2>1. /\ IsBank(Updated(a, p, b)) /\ IsBank(n) /\ n.st = k.st /\ n.row = k.row /\ n.act = k.act /\ n.cnt = k.cnt
        /\ n.pre = (IF own THEN Larger(k.pre, WriteToPre) ELSE k.pre)
        /\ n.rd = (IF r = p.rank THEN Larger(k.rd, WriteToReadLong)
                   ELSE IF k.st # "RowActive" THEN k.rd ELSE Larger(k.rd, WriteToReadRank))
        /\ n.wr = (IF r = p.rank THEN Larger(k.wr, Gap(b, p.bank))
                   ELSE IF k.st # "RowActive" THEN k.wr ELSE Larger(k.wr, T.half + T.tRTRS))
    BY <1>7, <1>9, WriteFields
  <2>2. /\ WriteToPre \in Int /\ WriteToReadLong \in Int /\ WriteToReadRank \in Int
        /\ Gap(b, p.bank) \in Nat /\ T.half \in Nat /\ T.tRTRS \in Nat
        /\ T.half <= Gap(b, p.bank)
    BY Delays
  <2> HIDE DEF n, a, k, own
  <2>3. Raised
    BY <1>1, <2>1, <2>2 DEF Larger
  <2>4. Apart
    BY <1>2, <2>1
  <2>5. Slack
    BY <1>1, <2>1, <2>2 DEF Larger
  <2> QED
    BY <2>3, <2>4, <2>5
<1>10. ASSUME p.type = "ACT" PROVE Raised /\ Apart /\ Slack
  <2>1. /\ IsBank(Updated(a, p, b)) /\ IsBank(n) /\ n.cnt = k.cnt
        /\ n.st = (IF own THEN "RowActive" ELSE k.st)
        /\ n.row = (IF own THEN p.row ELSE k.row)
        /\ n.act = (IF own THEN Larger(k.act, T.tRC)
                    ELSE IF r = p.rank
                    THEN Larger(k.act, IF SameGroup(b, p.bank) THEN T.tRRDL ELSE T.tRRDS)
                    ELSE k.act)
        /\ n.pre = (IF own THEN Larger(k.pre, T.tRAS) ELSE k.pre)
        /\ n.rd = (IF own THEN Larger(k.rd, T.tRCDRD - T.AL) ELSE k.rd)
        /\ n.wr = (IF own THEN Larger(k.wr, T.tRCDWR - T.AL) ELSE k.wr)
    BY <1>7, <1>10, ActFields
  <2>2. /\ T.tRC \in Nat /\ T.tRAS \in Nat /\ T.tRRDL \in Nat /\ T.tRRDS \in Nat
        /\ T.tRCDRD \in Nat /\ T.tRCDWR \in Nat /\ T.AL \in Nat /\ T.half \in Nat
        /\ T.half <= T.tRCDWR - T.AL + 1
    BY Delays DEF DeviceTimes
  <2> HIDE DEF n, a, k, own
  <2>3. Raised
    BY <1>1, <1>4, <2>1, <2>2 DEF Larger, CtrlStates
  <2>4. Apart
    BY <1>2, <1>6, <1>10, <2>1
  <2>5. Slack
    BY <1>1, <1>10, <2>1, <2>2 DEF Larger
  <2> QED
    BY <2>3, <2>4, <2>5
<1>11. ASSUME p.type = "PRE" PROVE Raised /\ Apart /\ Slack
  <2>1. /\ IsBank(Updated(a, p, b)) /\ IsBank(n) /\ n.row = k.row /\ n.rd = k.rd /\ n.wr = k.wr /\ n.pre = k.pre
        /\ n.cnt = (IF own THEN T.tRP ELSE k.cnt)
        /\ n.st = (IF own THEN "Precharging" ELSE k.st)
        /\ n.act = (IF own THEN Larger(k.act, T.tRP) ELSE k.act)
    BY <1>7, <1>11, PreFields
  <2>2. T.tRP \in Nat
    BY Delays
  <2> HIDE DEF n, a, k, own
  <2>3. Raised
    BY <1>1, <2>1, <2>2 DEF Larger, CtrlStates
  <2>4. Apart
    BY <1>2, <1>5, <1>11, <2>1
  <2>5. Slack
    BY <1>11, <2>1
  <2> QED
    BY <2>3, <2>4, <2>5
<1>12. Raised /\ Apart /\ Slack
  BY <1>4, <1>8, <1>9, <1>10, <1>11
<1> QED
  BY <1>13, <1>12

\* Whatever the command, the device stays within the controller's delays.
LEMMA CommandFollows ==
    ASSUME DeviceTimes, NEW m, NEW p, NEW r \in Ranks, NEW b \in Banks, NEW d, IsCommand(p),
           CtrlBank(m.bank[r][b]), DevBank(d), Behind(m.bank[r][b], d),
           p.type = "REF" /\ r = p.rank => m.bank[r][b].st # "RowActive",
           p.type = "REF" => ~Reserved(p.row),
           p.type = "PRE" /\ r = p.rank /\ b = p.bank => p.row = m.bank[r][b].row,
           p.type = "ACT" /\ r = p.rank /\ b = p.bank => m.bank[r][b].st # "RowActive"
    PROVE  Followed(m.bank[r][b], AfterCommand(m, p, r, b), After(d, p, r, b), p)
<1>6. CASE Reserved(p.row)
  BY <1>6, ReservedFollows
<1>7. SUFFICES ASSUME ~Reserved(p.row)
               PROVE  Followed(m.bank[r][b], AfterCommand(m, p, r, b), After(d, p, r, b), p)
  BY <1>6
<1>1. CASE p.type = "READ"
  BY <1>1, <1>7, ReadFollows
<1>2. CASE p.type = "WRITE"
  BY <1>2, <1>7, WriteFollows
<1>3. CASE p.type = "ACT"
  BY <1>3, <1>7, ActFollows
<1>4. CASE p.type = "PRE"
  BY <1>4, <1>7, PreFollows
<1>5. CASE p.type = "REF"
  BY <1>5, <1>7, RefFollows
<1> QED
  BY <1>1, <1>2, <1>3, <1>4, <1>5 DEF IsCommand

-----------------------------------------------------------------------------
(* The channel is a record; what each part of an update changes of it.     *)

MemFields == {"pend", "taken", "tq", "q", "bars", "bank", "dev", "cmd", "cmdLeft", "data",
              "dataLeft", "wdata", "rdata", "out", "outLeft", "reads", "ret", "refWait",
              "refRank", "dueRank", "due", "nextRank", "nextPre", "fly", "panic"}
IsMem(m) == m = [f \in MemFields |-> m[f]]

Same(m, n, changed) == IsMem(n) /\ \A f \in MemFields \ changed : n[f] = m[f]

\* step() changes the refresh countdowns and the tables.
LEMMA StepFields ==
    ASSUME NEW m, IsMem(m)
    PROVE  LET n == Step(m)
           IN  /\ Same(m, n, {"due", "bank", "dev"})
               /\ n.bank = [r \in Ranks |-> [b \in Banks |-> Aged(m.bank[r][b])]]
               /\ n.dev = [r \in Ranks |-> [b \in Banks |-> Aged(m.dev[r][b])]]
BY Zenon DEF Step, Same, IsMem, MemFields

\* updateBankState changes the controller's table.
LEMMA TickFields ==
    ASSUME NEW m, IsMem(m)
    PROVE  LET n == UpdateBankState(m)
           IN  /\ Same(m, n, {"bank"})
               /\ n.bank = [r \in Ranks |-> [b \in Banks |-> BankTick(m.bank[r][b])]]
BY DEF UpdateBankState, Same, IsMem, MemFields

\* The device refuses the command, which it checks unless the row is reserved; the
\* datum a read adds to those on their way.
Refused(m, p) ==
    /\ ~Reserved(p.row)
    /\ IF p.type = "REF" THEN \E b \in Banks : m.dev[p.rank][b].st # "Idle"
       ELSE ~Allowed(m.dev[p.rank][p.bank], p.type, p.row)
Fetched(m, p) == IF p.type = "READ"
                 THEN [m.rdata EXCEPT ![p.rank] = Append(@, <<p.id, T.RL>>)] ELSE m.rdata

\* CommandBus when the command takes one cycle.
LEMMA CommandFields ==
    ASSUME NEW m, IsMem(m), NEW p, p = m.cmd, p.rank \in Ranks, p # NoPacket, ~(m.cmdLeft > 1),
           m.dev = [r \in Ranks |-> m.dev[r]], m.rdata = [r \in Ranks |-> m.rdata[r]],
           m.panic \in BOOLEAN
    PROVE  LET n == CommandBus(m)
           IN  /\ Same(m, n, {"cmd", "cmdLeft", "dev", "rdata", "panic"})
               /\ n.cmd = NoPacket
               /\ \A r \in Ranks, b \in Banks :
                    n.dev[r][b] = IF r = p.rank THEN DevAfter(m.dev[r][b], p, b) ELSE m.dev[r][b]
               /\ n.panic = (m.panic \/ Refused(m, p)) /\ n.rdata = Fetched(m, p)
               /\ n.dev = [r \in Ranks |-> n.dev[r]]
<1> DEFINE x == [m EXCEPT !.cmd = NoPacket, !.cmdLeft = 0]
           n == RankReceive(x, p)
<1>1. CommandBus(m) = n
  BY DEF CommandBus
<1>2. Same(m, x, {"cmd", "cmdLeft"}) /\ x.cmd = NoPacket
  BY Zenon DEF Same, IsMem, MemFields
<1>3. x.dev = m.dev /\ x.rdata = m.rdata /\ x.panic = m.panic /\ IsMem(x)
  BY <1>2 DEF Same, MemFields
<1> HIDE DEF x
<1> DEFINE R == IF p.type = "READ" THEN Append(m.rdata[p.rank], <<p.id, T.RL>>)
                ELSE m.rdata[p.rank]
<1>7. [m.rdata EXCEPT ![p.rank] = R] = Fetched(m, p)
  BY Zenon DEF Fetched
<1>6. CASE Reserved(p.row)
  <2>1. n = [x EXCEPT !.rdata[p.rank] = R]
    BY <1>3, <1>6 DEF RankReceive
  <2> HIDE DEF R, n
  <2>2. Same(x, n, {"rdata"}) /\ n.rdata = [m.rdata EXCEPT ![p.rank] = R]
    BY Zenon, <1>3, <2>1 DEF Same, IsMem, MemFields
  <2>3. Same(m, n, {"cmd", "cmdLeft", "dev", "rdata", "panic"}) /\ n.cmd = NoPacket
        /\ n.dev = m.dev /\ n.panic = m.panic
    BY <1>2, <1>3, <2>2 DEF Same, MemFields
  <2>4. \A r \in Ranks, b \in Banks :
          n.dev[r][b] = IF r = p.rank THEN DevAfter(m.dev[r][b], p, b) ELSE m.dev[r][b]
    BY <1>6, <2>3 DEF DevAfter
  <2>5. n.panic = (m.panic \/ Refused(m, p))
    BY <1>6, <2>3 DEF Refused
  <2>6. n.rdata = Fetched(m, p)
    BY <1>7, <2>2
  <2> QED
    BY <1>1, <2>3, <2>4, <2>5, <2>6 DEF n
<1>4. CASE p.type = "REF" /\ ~Reserved(p.row)
  <2> DEFINE P == m.panic \/ \E b \in Banks : m.dev[p.rank][b].st # "Idle"
             D == [b \in Banks |-> [m.dev[p.rank][b] EXCEPT !.act = T.tRFC]]
  <2>1. n = [x EXCEPT !.panic = P, !.dev[p.rank] = D]
    BY <1>3, <1>4 DEF RankReceive
  <2> HIDE DEF P, D, n
  <2>2. Same(x, n, {"dev", "panic"}) /\ n.panic = P /\ n.dev = [m.dev EXCEPT ![p.rank] = D]
    BY Zenon, <1>3, <2>1 DEF Same, IsMem, MemFields
  <2>3. Same(m, n, {"cmd", "cmdLeft", "dev", "rdata", "panic"}) /\ n.cmd = NoPacket
        /\ n.rdata = m.rdata
    BY <1>2, <1>3, <2>2 DEF Same, MemFields
  <2>7. \A b \in Banks : D[b] = DevAfter(m.dev[p.rank][b], p, b)
    BY <1>4 DEF D, DevAfter, Updated
  <2>4. \A r \in Ranks, b \in Banks :
          n.dev[r][b] = IF r = p.rank THEN DevAfter(m.dev[r][b], p, b) ELSE m.dev[r][b]
    BY <2>2, <2>7
  <2>8. n.dev = [r \in Ranks |-> n.dev[r]]
    BY <2>2
  <2>5. n.panic = (m.panic \/ Refused(m, p))
    BY <1>4, <2>2 DEF P, Refused
  <2>6. n.rdata = Fetched(m, p)
    BY <1>4, <2>3 DEF Fetched
  <2> QED
    BY <1>1, <2>3, <2>4, <2>5, <2>6, <2>8 DEF n
<1>5. CASE p.type # "REF" /\ ~Reserved(p.row)
  <2> DEFINE P == m.panic \/ ~Allowed(m.dev[p.rank][p.bank], p.type, p.row)
             D == [j \in Banks |-> UpdateBank(m.dev[p.rank][j], p.type, j, p.bank, p.row)]
  <2>1. n = [x EXCEPT !.panic = P, !.dev[p.rank] = D, !.rdata[p.rank] = R]
    BY <1>3, <1>5 DEF RankReceive
  <2> HIDE DEF P, D, R, n
  <2>2. Same(x, n, {"dev", "panic", "rdata"}) /\ n.panic = P
        /\ n.dev = [m.dev EXCEPT ![p.rank] = D] /\ n.rdata = [m.rdata EXCEPT ![p.rank] = R]
    BY Zenon, <1>3, <2>1 DEF Same, IsMem, MemFields
  <2>3. Same(m, n, {"cmd", "cmdLeft", "dev", "rdata", "panic"}) /\ n.cmd = NoPacket
    BY <1>2, <1>3, <2>2 DEF Same, MemFields
  <2>7. \A b \in Banks : D[b] = DevAfter(m.dev[p.rank][b], p, b)
    BY <1>5 DEF D, DevAfter, Updated
  <2>4. \A r \in Ranks, b \in Banks :
          n.dev[r][b] = IF r = p.rank THEN DevAfter(m.dev[r][b], p, b) ELSE m.dev[r][b]
    BY <2>2, <2>7
  <2>8. n.dev = [r \in Ranks |-> n.dev[r]]
    BY <2>2
  <2>5. n.panic = (m.panic \/ Refused(m, p))
    BY <1>5, <2>2 DEF P, Refused
  <2>6. n.rdata = Fetched(m, p)
    BY <1>7, <2>2
  <2> QED
    BY <1>1, <2>3, <2>4, <2>5, <2>6, <2>8 DEF n
<1> QED
  BY <1>4, <1>5, <1>6

\* Without a command nothing reaches a rank.
LEMMA NoCommandFields == ASSUME NEW m, m.cmd = NoPacket PROVE CommandBus(m) = m
BY DEF CommandBus

\* Send, for a packet p.
LEMMA SendFields ==
    ASSUME NEW m, IsMem(m), NEW p, p.rank \in Ranks, m.q = [r \in Ranks |-> m.q[r]]
    PROVE  LET n == Send(m, p)
           IN  /\ Same(m, n, {"q", "bank", "wdata", "panic", "cmd", "cmdLeft"})
               /\ n.cmd = p /\ n.cmdLeft = T.tCMD /\ n.panic = (m.panic \/ m.cmd # NoPacket)
               /\ n.bank = [r \in Ranks |-> [b \in Banks |-> AfterCommand(m, p, r, b)]]
               /\ n.wdata = (IF p.type = "WRITE" THEN Append(m.wdata, <<p.id, T.WL>>) ELSE m.wdata)
               /\ n.q = (IF p.type \in {"READ", "WRITE"}
                         THEN [m.q EXCEPT ![p.rank] = RemoveAt(@, CHOOSE i \in DOMAIN @ : @[i] = p.id)]
                         ELSE m.q)
<1> DEFINE n == Send(m, p)
           Q == IF p.type \in {"READ", "WRITE"}
                THEN RemoveAt(m.q[p.rank], CHOOSE i \in DOMAIN m.q[p.rank] : m.q[p.rank][i] = p.id)
                ELSE m.q[p.rank]
           B == [r \in Ranks |-> [b \in Banks |-> AfterCommand(m, p, r, b)]]
           W == IF p.type = "WRITE" THEN Append(m.wdata, <<p.id, T.WL>>) ELSE m.wdata
           P == m.panic \/ m.cmd # NoPacket
<1>1. n = [m EXCEPT !.q[p.rank] = Q, !.bank = B, !.wdata = W, !.panic = P, !.cmd = p,
                    !.cmdLeft = T.tCMD]
  BY DEF Send
<1> HIDE DEF Q, B, W, P, n
<1>2. /\ Same(m, n, {"q", "bank", "wdata", "panic", "cmd", "cmdLeft"})
      /\ n.cmd = p /\ n.cmdLeft = T.tCMD /\ n.panic = P /\ n.bank = B /\ n.wdata = W
      /\ n.q = [m.q EXCEPT ![p.rank] = Q]
  BY Zenon, <1>1 DEF Same, IsMem, MemFields
<1>3. n.q = (IF p.type \in {"READ", "WRITE"}
             THEN [m.q EXCEPT ![p.rank] = RemoveAt(@, CHOOSE i \in DOMAIN @ : @[i] = p.id)]
             ELSE m.q)
  BY <1>2 DEF Q
<1> QED
  BY <1>2, <1>3 DEF B, W, P, n

-----------------------------------------------------------------------------
(* What Pop sends.                                                         *)

\* A rank's commands are those of the accesses to it.
Queues(m) ==
    /\ m.q \in [Ranks -> Seq(Ids)]
    /\ \A r \in Ranks : \A i \in DOMAIN m.q[r] : Requests[m.q[r][i]].rank = r
Turns(m) == m.refRank \in Ranks /\ m.nextRank \in Ranks /\ m.nextPre \in Ranks \X Banks

AccessOf(m, p) == \E r \in Ranks : \E i \in DOMAIN m.q[r] :
                     p = Access(m.q[r][i]) /\ Free(m, m.q[r], i)
Sendable(m, p) ==
    /\ IsCommand(p) /\ Issuable(m, p)
    /\ p.type \in {"READ", "WRITE"} => AccessOf(m, p)
    /\ p.type = "REF" => ~Reserved(p.row) /\ \A b \in Banks : m.bank[p.rank][b].st # "RowActive"
    /\ p.type = "PRE" => p.row = m.bank[p.rank][p.bank].row

\* The requests are numbered from 1.
LEMMA IdsAre == Ids \subseteq Nat \ {0} /\ IsFiniteSet(Ids) /\ Ids = 1 .. Len(Requests)
                /\ Len(Requests) \in Nat
<1> DEFINE n == Len(Requests)
<1>1. Ids = 1 .. n /\ n \in Nat
  BY MemAssumption, LenProperties DEF Ids
<1> HIDE DEF n
<1>2. IsFiniteSet(1 .. n)
  BY <1>1, FS_Interval
<1>3. Ids \subseteq Nat \ {0}
  BY <1>1
<1> QED
  BY <1>1, <1>2, <1>3 DEF n

\* The parts of a request.
LEMMA RequestType == ASSUME NEW i \in Ids
    PROVE  /\ Requests[i].rank \in Ranks /\ Requests[i].bank \in Banks /\ Requests[i].row \in Nat
           /\ Requests[i].write \in BOOLEAN /\ Requests[i].bar \in BOOLEAN
<1> DEFINE R == [write : BOOLEAN, rank : 0 .. NumRanks - 1, bank : 0 .. NumBanks - 1,
                 row : Nat, col : Nat, bar : BOOLEAN]
<1>1. Requests \in Seq(R) /\ i \in 1 .. Len(Requests)
  BY MemAssumption, IdsAre
<1>2. Requests[i] \in R
  BY <1>1, ElementOfSeq
<1> QED
  BY <1>2 DEF Ranks, Banks

\* The command of an access, and the activation for it.
LEMMA AccessIs == ASSUME NEW i \in Ids
    PROVE  LET p == Access(i)
           IN  /\ p.type \in {"READ", "WRITE"} /\ IsCommand(p) /\ p.id = i
               /\ (p.type = "WRITE" <=> Requests[i].write)
               /\ p.rank = Requests[i].rank /\ p.bank = Requests[i].bank
               /\ p.row = Requests[i].row
               /\ LET a == [p EXCEPT !.type = "ACT"]
                  IN  IsCommand(a) /\ a.type = "ACT" /\ a.rank = p.rank /\ a.bank = p.bank
BY RequestType DEF Access, Packet, IsCommand

\* The parts of a packet.
LEMMA PacketIs == ASSUME NEW t, NEW r, NEW b, NEW row, NEW id
    PROVE  LET p == Packet(t, r, b, row, id)
           IN  p.type = t /\ p.rank = r /\ p.bank = b /\ p.row = row /\ p.id = id
BY DEF Packet

\* The commands process_command finds in a queue.
LEMMA QueuePacketsOK ==
    ASSUME NEW m, Queues(m), NEW r \in Ranks, NEW p \in QueuePackets(m, m.q[r])
    PROVE  Sendable(m, p)
<1> DEFINE q == m.q[r]
           go == {i \in DOMAIN q : Issuable(m, Access(q[i])) /\ Free(m, q, i)}
           act(i) == [Access(q[i]) EXCEPT !.type = "ACT"]
           open == {i \in DOMAIN q : /\ \A j \in 2 .. i : q[j] \notin m.bars
                                     /\ m.bank[act(i).rank][act(i).bank].st = "Idle"
                                     /\ Issuable(m, act(i))}
<1>1. q \in Seq(Ids) /\ DOMAIN q \subseteq Nat /\ \A i \in DOMAIN q : q[i] \in Ids
  BY LenProperties, ElementOfSeq DEF Queues
<1>2. QueuePackets(m, q) = IF go # {} THEN {Access(q[Min(go)])}
                           ELSE IF open # {} THEN {act(Min(open))} ELSE {}
  BY Zenon DEF QueuePackets
<1>3. go \in SUBSET Nat /\ open \in SUBSET Nat
  BY <1>1
<1>4. CASE go # {}
  <2> DEFINE i == Min(go)
  <2>1. i \in go
    BY <1>3, <1>4, MinIs
  <2>2. p = Access(q[i])
    BY Zenon, <1>2, <1>4
  <2> HIDE DEF i
  <2>3. i \in DOMAIN q /\ Issuable(m, Access(q[i])) /\ Free(m, q, i)
    BY <2>1
  <2>4. AccessOf(m, p)
    BY <2>2, <2>3 DEF AccessOf
  <2>5. p.type \in {"READ", "WRITE"} /\ IsCommand(p)
    BY Zenon, <1>1, <2>2, <2>3, AccessIs
  <2> QED
    BY <2>2, <2>3, <2>4, <2>5 DEF Sendable
<1>5. CASE go = {}
  <2> DEFINE i == Min(open)
  <2>1. open # {} /\ p = act(i)
    BY Zenon, <1>2, <1>5
  <2>2. i \in open
    BY Zenon, <1>3, <2>1, MinIs
  <2> HIDE DEF i
  <2>3. i \in DOMAIN q /\ Issuable(m, act(i))
    BY <2>2
  <2>4. IsCommand(act(i)) /\ act(i).type = "ACT"
    BY <1>1, <2>3, AccessIs
  <2> HIDE DEF act
  <2> QED
    BY <2>1, <2>3, <2>4 DEF Sendable
<1> QED
  BY <1>4, <1>5

\* The banks of a table are banks.
Table(m) == \A r \in Ranks, b \in Banks : CtrlBank(m.bank[r][b])

\* A precharge the controller finds issuable may be sent.
LEMMA PreOK ==
    ASSUME NEW m, Table(m), NEW r \in Ranks, NEW b \in Banks, NEW p,
           p = Packet("PRE", r, b, m.bank[r][b].row, 0), Issuable(m, p)
    PROVE  Sendable(m, p)
<1>1. p.type = "PRE" /\ p.rank = r /\ p.bank = b /\ p.row = m.bank[r][b].row
  BY PacketIs
<1>2. m.bank[r][b].row \in Nat
  BY DEF Table, CtrlBank
<1> QED
  BY Zenon, <1>1, <1>2 DEF Sendable, IsCommand

\* Multiplication is monotone.
LEMMA TimesMono == ASSUME NEW a \in Nat, NEW b \in Nat, NEW c \in Nat, b <= c
                   PROVE  a * b <= a * c
<1> DEFINE d == c - b
<1>1. d \in Nat /\ c = b + d
  OBVIOUS
<1> HIDE DEF d
<1>2. a * (b + d) = a * b + a * d
  BY <1>1
<1>3. a * d \in Nat /\ a * b \in Nat
  BY <1>1, TimesNat
<1> QED
  BY <1>1, <1>2, <1>3

\* PreOrder goes through all banks of all ranks.
LEMMA PreOrderIs ==
    LET N == NumRanks * NumBanks
    IN  /\ N \in Nat \ {0} /\ DOMAIN PreOrder = 0 .. N - 1
        /\ \A n \in 0 .. N - 1 : PreOrder[n] \in Ranks \X Banks
        /\ \A x \in Ranks \X Banks : \E n \in 0 .. N - 1 : PreOrder[n] = x
<1> DEFINE N == NumRanks * NumBanks
<1>1. NumRanks \in Nat \ {0} /\ NumBanks \in Nat \ {0}
  BY MemAssumption
<1>2. N \in Nat \ {0} /\ N = NumBanks * NumRanks
  BY <1>1, TimesNat
<1>3. DOMAIN PreOrder = 0 .. N - 1
  BY DEF PreOrder
<1>4. \A n \in 0 .. N - 1 : PreOrder[n] = <<n % NumRanks, n \div NumRanks>>
  BY DEF PreOrder
<1>5. ASSUME NEW n \in 0 .. N - 1 PROVE PreOrder[n] \in Ranks \X Banks
  <2> DEFINE a == n \div NumRanks
             c == n % NumRanks
  <2>1. c \in 0 .. NumRanks - 1 /\ a \in Nat /\ n = NumRanks * a + c
    <3> HIDE DEF N
    <3>1. n \in Nat
      BY <1>2
    <3> QED
      BY <1>1, <3>1
  <2> HIDE DEF a, c
  <2>2. a < NumBanks
    <3>1. SUFFICES ASSUME a >= NumBanks PROVE FALSE
      BY <1>1, <2>1
    <3>2. NumRanks * NumBanks <= NumRanks * a
      BY <1>1, <2>1, <3>1, TimesMono
    <3>3. NumRanks * a \in Nat
      BY <1>1, <2>1, TimesNat
    <3> QED
      BY <1>1, <1>2, <2>1, <3>2, <3>3
  <2>3. a \in Banks /\ c \in Ranks
    BY <1>1, <2>1, <2>2 DEF Ranks, Banks
  <2>4. PreOrder[n] = <<c, a>>
    BY <1>4 DEF a, c
  <2> QED
    BY <2>3, <2>4
<1>6. ASSUME NEW x \in Ranks \X Banks PROVE \E n \in 0 .. N - 1 : PreOrder[n] = x
  <2>1. x[1] \in 0 .. NumRanks - 1 /\ x[2] \in 0 .. NumBanks - 1 /\ x = <<x[1], x[2]>>
    BY DEF Ranks, Banks
  <2> DEFINE n == x[1] + x[2] * NumRanks
  <2>2. n % NumRanks = x[1] /\ n \div NumRanks = x[2] /\ n \in 0 .. NumBanks * NumRanks - 1
    BY <1>1, <2>1, TwoDigits
  <2> HIDE DEF n
  <2> QED
    BY <1>2, <1>4, <2>1, <2>2
<1> QED
  BY <1>2, <1>3, <1>5, <1>6

\* process_precharge finds an issuable precharge.
LEMMA PreTurnsOK ==
    ASSUME NEW m, Table(m), Turns(m), NEW rb \in PreTurns(m)
    PROVE  rb \in Ranks \X Banks
           /\ Issuable(m, Packet("PRE", rb[1], rb[2], m.bank[rb[1]][rb[2]].row, 0))
<1> DEFINE N == NumRanks * NumBanks
           from == CHOOSE n \in DOMAIN PreOrder : PreOrder[n] = m.nextPre
           At(d) == PreOrder[(from + d) % N]
           Hits(r, b) == \E i \in DOMAIN m.q[r] :
                            /\ \A j \in 1 .. i - 1 : m.q[r][j] \notin m.bars
                            /\ Requests[m.q[r][i]].bank = b /\ m.bank[r][b].st = "RowActive"
                            /\ Requests[m.q[r][i]].row = m.bank[r][b].row
           Can(x) == /\ ~Hits(x[1], x[2])
                     /\ Issuable(m, Packet("PRE", x[1], x[2], m.bank[x[1]][x[2]].row, 0))
<1>1. PICK e \in DOMAIN PreOrder : Can(At(e)) /\ rb = At(e)
  BY Zenon DEF PreTurns
<1> HIDE DEF Can
<1>2. /\ N \in Nat \ {0} /\ DOMAIN PreOrder = 0 .. N - 1
      /\ \A n \in 0 .. N - 1 : PreOrder[n] \in Ranks \X Banks
      /\ \A x \in Ranks \X Banks : \E n \in 0 .. N - 1 : PreOrder[n] = x
  BY PreOrderIs
<1>3. from \in 0 .. N - 1
  BY <1>2 DEF Turns
<1> HIDE DEF N, from
<1>4. (from + e) % N \in 0 .. N - 1
  BY <1>1, <1>2, <1>3
<1>5. At(e) \in Ranks \X Banks
  BY <1>2, <1>4
<1> HIDE DEF At
<1> QED
  BY <1>1, <1>5 DEF Can

Pointers == {"refWait", "nextRank", "nextPre"}

\* process_refresh.
LEMMA RefreshOK ==
    ASSUME NEW m, Table(m), Turns(m), NEW p \in RefreshPackets(m)
    PROVE  Sendable(m, p)
<1> DEFINE open == {b \in Banks : m.bank[m.refRank][b].st = "RowActive"}
           pre(b) == Packet("PRE", m.refRank, b, m.bank[m.refRank][b].row, 0)
           can == {b \in open : Issuable(m, pre(b))}
           R == m.refRank
<1>1. R \in Ranks
  BY DEF Turns
<1>2. RefreshPackets(m) = IF ~m.refWait THEN {}
                          ELSE IF open = {} THEN {Packet("REF", R, 0, 0, 0)}
                          ELSE IF can = {} THEN {} ELSE {pre(Min(can))}
  BY DEF RefreshPackets
<1>3. CASE open = {}
  <2>1. p = Packet("REF", R, 0, 0, 0)
    BY <1>2, <1>3
  <2>2. p.type = "REF" /\ p.rank = R /\ p.bank = 0 /\ p.row = 0
    BY <2>1, PacketIs
  <2>3. 0 \in Banks
    BY MemAssumption DEF Banks
  <2>4. \A b \in Banks : m.bank[R][b].st # "RowActive"
    BY <1>3
  <2>5. Issuable(m, p)
    BY <2>2 DEF Issuable
  <2>6. ~Reserved(p.row)
    BY <2>2 DEF Reserved
  <2> QED
    BY <1>1, <2>2, <2>3, <2>4, <2>5, <2>6 DEF Sendable, IsCommand
<1>4. CASE open # {}
  <2>1. can # {} /\ p = pre(Min(can))
    BY Zenon, <1>2, <1>4
  <2>2. can \in SUBSET Nat
    BY DEF Banks
  <2>3. Min(can) \in can
    BY Zenon, <2>1, <2>2, MinIs
  <2> DEFINE b == Min(can)
  <2>4. b \in Banks /\ Issuable(m, pre(b))
    BY Zenon, <2>3
  <2> HIDE DEF b
  <2> QED
    BY Zenon, <1>1, <2>1, <2>4, PreOK DEF b
<1> QED
  BY <1>3, <1>4

\* CommandQueue::pop sends nothing or one command that may be sent.
LEMMA PopIs ==
    ASSUME NEW m, IsMem(m), Queues(m), Table(m), Turns(m)
    PROVE  \/ Pop(m) = m
           \/ \E x, p : Same(m, x, Pointers) /\ Turns(x) /\ Sendable(m, p) /\ Pop(m) = Send(x, p)
<1> DEFINE ref == RefreshPackets(m)
           turns == RankTurns(m)
           r == (m.nextRank + Min(turns)) % NumRanks
<1>1. CASE ref # {}
  <2> DEFINE p == CHOOSE p \in ref : TRUE
             x == [m EXCEPT !.refWait = p.type # "REF"]
  <2>1. p \in ref
    BY <1>1
  <2>2. Pop(m) = Send(x, p)
    BY <1>1 DEF Pop
  <2>3. Same(m, x, Pointers) /\ Turns(x)
    BY Zenon DEF Same, IsMem, MemFields, Pointers, Turns
  <2>4. Sendable(m, p)
    BY <2>1, RefreshOK
  <2> QED
    BY Zenon, <2>2, <2>3, <2>4
<1>2. CASE ref = {} /\ turns # {}
  <2> DEFINE x == [m EXCEPT !.nextRank = r]
             p == CHOOSE p \in QueuePackets(m, m.q[r]) : TRUE
             d == Min(turns)
  <2>1. turns \in SUBSET Nat /\ turns \subseteq Ranks
    BY DEF RankTurns, Ranks
  <2>2. d \in turns
    BY <1>2, <2>1, MinIs
  <2>3. QueuePackets(m, m.q[r]) # {}
    BY <2>2 DEF RankTurns
  <2>4. r \in Ranks
    <3>1. NumRanks \in Nat \ {0} /\ m.nextRank \in Nat /\ d \in Nat
      BY <2>1, <2>2, MemAssumption DEF Turns, Ranks
    <3> HIDE DEF d
    <3> QED
      BY <3>1 DEF Ranks, d
  <2>5. p \in QueuePackets(m, m.q[r])
    BY <2>3
  <2>6. Pop(m) = Send(x, p)
    BY <1>2 DEF Pop
  <2> HIDE DEF r, p
  <2>7. Same(m, x, Pointers) /\ Turns(x)
    BY <2>4 DEF Same, IsMem, MemFields, Pointers, Turns
  <2>8. Sendable(m, p)
    BY <2>4, <2>5, QueuePacketsOK
  <2> QED
    BY <2>6, <2>7, <2>8
<1>3. CASE ref = {} /\ turns = {} /\ PreTurns(m) # {}
  <2> DEFINE rb == CHOOSE x \in PreTurns(m) : TRUE
             p == Packet("PRE", rb[1], rb[2], m.bank[rb[1]][rb[2]].row, 0)
             x == [m EXCEPT !.nextPre = rb]
  <2>1. rb \in PreTurns(m)
    BY <1>3
  <2>2. Pop(m) = Send(x, p)
    BY <1>3 DEF Pop
  <2> HIDE DEF rb
  <2>3. rb \in Ranks \X Banks /\ Issuable(m, p)
    BY <2>1, PreTurnsOK
  <2>4. Same(m, x, Pointers) /\ Turns(x)
    BY <2>3 DEF Same, IsMem, MemFields, Pointers, Turns
  <2>5. Sendable(m, p)
    BY <2>3, PreOK
  <2> QED
    BY <2>2, <2>4, <2>5
<1>4. CASE ref = {} /\ turns = {} /\ PreTurns(m) = {}
  BY <1>4 DEF Pop
<1> QED
  BY <1>1, <1>2, <1>3, <1>4

-----------------------------------------------------------------------------
(* The other parts.                                                        *)

\* DrainPending takes the first overflown transaction.
LEMMA DrainFields ==
    ASSUME NEW m, IsMem(m)
    PROVE  LET n == DrainPending(m)
           IN  /\ Same(m, n, {"pend", "tq", "taken", "fly"})
               /\ IF m.pend # <<>> /\ WillAccept(m)
                  THEN /\ n.pend = Tail(m.pend) /\ n.tq = Append(m.tq, Head(m.pend))
                       /\ n.taken = Append(m.taken, Head(m.pend)) /\ n.fly = m.fly + 1
                  ELSE n = m
BY Zenon DEF DrainPending, Accept, Same, IsMem, MemFields

\* addTransaction takes the transaction or lets it overflow.
LEMMA AddFields ==
    ASSUME NEW m, IsMem(m), NEW i
    PROVE  LET n == AddTransaction(m, i)
           IN  /\ Same(m, n, {"pend", "tq", "taken", "fly"})
               /\ IF WillAccept(m)
                  THEN /\ n.pend = m.pend /\ n.tq = Append(m.tq, i)
                       /\ n.taken = Append(m.taken, i) /\ n.fly = m.fly + 1
                  ELSE /\ n.pend = Append(m.pend, i) /\ n.tq = m.tq /\ n.taken = m.taken
                       /\ n.fly = m.fly
BY Zenon DEF AddTransaction, Accept, Same, IsMem, MemFields

\* addBarrier marks the last of the queue that takes new ones.
LEMMA BarrierFields ==
    ASSUME NEW m, IsMem(m)
    PROVE  LET n == AddBarrier(m)
               to == IF WillAccept(m) THEN m.tq ELSE m.pend
           IN  /\ Same(m, n, {"bars"})
               /\ n.bars = IF to = <<>> THEN m.bars ELSE m.bars \cup {Last(to)}
BY DEF AddBarrier, Same, IsMem, MemFields

\* updateRefresh asks for a refresh and turns to the next rank.
LEMMA RefreshFields ==
    ASSUME NEW m, IsMem(m), Turns(m), m.dueRank \in Ranks
    PROVE  LET n == UpdateRefresh(m)
           IN  /\ Same(m, n, {"refWait", "refRank", "due", "dueRank"})
               /\ Turns(n) /\ n.dueRank \in Ranks
<1>1. NumRanks \in Nat \ {0} /\ m.dueRank \in Nat
  BY MemAssumption DEF Ranks
<1>2. (m.dueRank + 1) % NumRanks \in Ranks
  BY <1>1 DEF Ranks
<1>3. CASE m.due[m.dueRank] = 0
  <2> DEFINE n == [m EXCEPT !.refWait = TRUE, !.refRank = m.dueRank, !.due[m.dueRank] = T.tREFI,
                            !.dueRank = (@ + 1) % NumRanks]
  <2>1. UpdateRefresh(m) = n
    BY <1>3 DEF UpdateRefresh
  <2>2. Same(m, n, {"refWait", "refRank", "due", "dueRank"}) /\ n.refRank = m.dueRank
        /\ n.dueRank = (m.dueRank + 1) % NumRanks
    BY Zenon DEF Same, IsMem, MemFields
  <2> HIDE DEF n
  <2>3. n.nextRank = m.nextRank /\ n.nextPre = m.nextPre
    BY <2>2 DEF Same, MemFields
  <2> QED
    BY <1>2, <2>1, <2>2, <2>3 DEF Turns
<1>4. CASE m.due[m.dueRank] # 0
  BY <1>4 DEF UpdateRefresh, Same
<1> QED
  BY <1>3, <1>4

\* The places of the queue whose rank has room.
Fits(m) == {i \in DOMAIN m.tq : CmdDepth - Len(m.q[Requests[m.tq[i]].rank]) >= 1}

\* updateTransactionQueue moves the first that fits to the queue of its rank.
LEMMA QueueFields ==
    ASSUME NEW m, IsMem(m), m.q = [r \in Ranks |-> m.q[r]]
    PROVE  LET n == UpdateTransactionQueue(m)
               j == Min(Fits(m))
               id == m.tq[j]
           IN  /\ Same(m, n, {"tq", "q", "reads"})
               /\ IF Fits(m) = {} THEN n = m
                  ELSE /\ n.tq = RemoveAt(m.tq, j)
                       /\ n.q = [m.q EXCEPT ![Requests[id].rank] = Append(@, id)]
                       /\ n.reads = IF Requests[id].write THEN m.reads ELSE Append(m.reads, id)
<1> DEFINE n == UpdateTransactionQueue(m)
           j == Min(Fits(m))
           id == m.tq[j]
           rs == IF Requests[id].write THEN m.reads ELSE Append(m.reads, id)
<1>1. CASE Fits(m) = {}
  <2>1. n = m
    BY Zenon, <1>1 DEF UpdateTransactionQueue, Fits
  <2> QED
    BY <1>1, <2>1 DEF Same
<1>2. CASE Fits(m) # {}
  <2>1. n = [m EXCEPT !.tq = RemoveAt(@, j), !.q[Requests[id].rank] = Append(@, id),
                      !.reads = rs]
    BY Zenon, <1>2 DEF UpdateTransactionQueue, Fits
  <2> HIDE DEF n, j, id, rs
  <2>2. /\ Same(m, n, {"tq", "q", "reads"}) /\ n.tq = RemoveAt(m.tq, j)
        /\ n.q = [m.q EXCEPT ![Requests[id].rank] = Append(@, id)] /\ n.reads = rs
    BY Zenon, <2>1 DEF Same, IsMem, MemFields
  <2> QED
    BY Zenon, <1>2, <2>2 DEF n, j, id, rs
<1> QED
  BY <1>1, <1>2

\* The first returned datum answers the first pending read of its cell.
LEMMA ReturnFields ==
    ASSUME NEW m, IsMem(m)
    PROVE  LET n == ReturnData(m)
           IN  /\ Same(m, n, {"ret", "reads", "fly", "panic"})
               /\ m.ret = <<>> => n = m
               /\ m.ret # <<>> /\ Answered(m) = {}
                    => n.panic /\ n.ret = m.ret /\ n.reads = m.reads /\ n.fly = m.fly
               /\ m.ret # <<>> /\ Answered(m) # {}
                    => /\ n.ret = Tail(m.ret) /\ n.reads = RemoveAt(m.reads, Min(Answered(m)))
                       /\ n.fly = m.fly - 1 /\ n.panic = m.panic
<1>1. CASE m.ret = <<>>
  BY <1>1 DEF ReturnData, Same
<1>2. CASE m.ret # <<>> /\ Answered(m) = {}
  BY <1>2 DEF ReturnData, Same, IsMem, MemFields
<1>3. CASE m.ret # <<>> /\ Answered(m) # {}
  <2>1. ReturnData(m) = [m EXCEPT !.ret = Tail(@), !.reads = RemoveAt(@, Min(Answered(m))),
                                  !.fly = @ - 1]
    BY <1>3 DEF ReturnData
  <2> QED
    BY <1>3, <2>1 DEF Same, IsMem, MemFields
<1> QED
  BY <1>1, <1>2, <1>3

-----------------------------------------------------------------------------
(* Data with the cycles they still take, in the order they were sent.      *)

IdsOf(s) == {s[i][1] : i \in DOMAIN s}
Timed == {s \in Seq(Ids \X Int) : \A i, j \in DOMAIN s : s[i][1] = s[j][1] => i = j}
Lowered(s) == [i \in DOMAIN s |-> <<s[i][1], s[i][2] - 1>>]

\* The entries of a line of data.
LEMMA TimedIs == ASSUME NEW s \in Timed
    PROVE  /\ s \in Seq(Ids \X Int) /\ DOMAIN s = 1 .. Len(s) /\ Len(s) \in Nat
           /\ \A i \in DOMAIN s : s[i] = <<s[i][1], s[i][2]>> /\ s[i][1] \in Ids /\ s[i][2] \in Int
           /\ IdsOf(s) \subseteq Ids
<1>1. s \in Seq(Ids \X Int) /\ DOMAIN s = 1 .. Len(s) /\ Len(s) \in Nat
  BY LenProperties DEF Timed
<1>2. \A i \in DOMAIN s : s[i] \in Ids \X Int
  BY <1>1, ElementOfSeq
<1>3. \A i \in DOMAIN s : s[i] = <<s[i][1], s[i][2]>> /\ s[i][1] \in Ids /\ s[i][2] \in Int
  BY <1>2
<1> QED
  BY <1>1, <1>3 DEF IdsOf

\* A cycle passes for all of them.
LEMMA LoweredIs == ASSUME NEW s \in Timed
    PROVE  /\ Lowered(s) \in Timed /\ IdsOf(Lowered(s)) = IdsOf(s) /\ Len(Lowered(s)) = Len(s)
           /\ DOMAIN Lowered(s) = DOMAIN s
           /\ \A i \in DOMAIN s : Lowered(s)[i] = <<s[i][1], s[i][2] - 1>>
<1> DEFINE t == Lowered(s)
<1>1. DOMAIN s = 1 .. Len(s) /\ Len(s) \in Nat
      /\ \A i \in DOMAIN s : s[i][1] \in Ids /\ s[i][2] \in Int
  BY TimedIs
<1>2. DOMAIN t = DOMAIN s /\ \A i \in DOMAIN s : t[i] = <<s[i][1], s[i][2] - 1>>
  BY DEF Lowered
<1> HIDE DEF t
<1>3. \A i \in DOMAIN s : t[i] \in Ids \X Int
  <2> TAKE i \in DOMAIN s
  <2>1. t[i] = <<s[i][1], s[i][2] - 1>> /\ s[i][1] \in Ids /\ s[i][2] - 1 \in Int
    BY <1>1, <1>2
  <2> QED
    BY <2>1
<1>4. t = [i \in 1 .. Len(s) |-> t[i]]
  <2>1. Lowered(s) = [i \in 1 .. Len(s) |-> Lowered(s)[i]]
    BY <1>1 DEF Lowered
  <2> QED
    BY <2>1 DEF t
<1>5. t \in [1 .. Len(s) -> Ids \X Int]
  BY <1>1, <1>3, <1>4
<1>6. t \in Seq(Ids \X Int) /\ Len(t) = Len(s)
  BY <1>1, <1>5, IsASeq, LenProperties
<1>7. \A i, j \in DOMAIN t : t[i][1] = t[j][1] => i = j
  BY <1>2 DEF Timed
<1>8. IdsOf(t) = IdsOf(s)
  BY <1>2 DEF IdsOf
<1> QED
  BY <1>2, <1>6, <1>7, <1>8 DEF t, Timed

\* The first leaves.
LEMMA TimedTail == ASSUME NEW s \in Timed, s # <<>>
    PROVE  /\ Tail(s) \in Timed /\ IdsOf(Tail(s)) = IdsOf(s) \ {Head(s)[1]}
           /\ Head(s) = s[1] /\ Head(s)[1] \in IdsOf(s) /\ Head(s)[1] \in Ids /\ 1 \in DOMAIN s
           /\ Len(Tail(s)) = Len(s) - 1 /\ DOMAIN Tail(s) = 1 .. Len(s) - 1
           /\ \A i \in 1 .. Len(s) - 1 : Tail(s)[i] = s[i + 1]
<1> DEFINE t == Tail(s)
           n == Len(s)
<1>1. /\ s \in Seq(Ids \X Int) /\ DOMAIN s = 1 .. n /\ n \in Nat
      /\ \A i \in DOMAIN s : s[i][1] \in Ids
      /\ \A i, j \in DOMAIN s : s[i][1] = s[j][1] => i = j
  BY TimedIs DEF Timed
<1>2. n # 0
  BY <1>1, EmptySeq
<1>3. /\ t \in Seq(Ids \X Int) /\ Len(t) = n - 1 /\ \A i \in 1 .. Len(t) : t[i] = s[i + 1]
  BY <1>1, HeadTailProperties
<1>4. DOMAIN t = 1 .. n - 1
  BY <1>3, LenProperties
<1>5. Head(s) = s[1]
  BY <1>1, MembersOf
<1> HIDE DEF t, n
<1>10. n \in Nat /\ DOMAIN s = 1 .. n
  BY <1>1
<1>11. \A i \in DOMAIN t : i \in Nat /\ i + 1 \in DOMAIN s /\ t[i] = s[i + 1]
  BY <1>3, <1>4, <1>10
<1>6. t \in Timed
  <2>1. ASSUME NEW i \in DOMAIN t, NEW j \in DOMAIN t, t[i][1] = t[j][1] PROVE i = j
    <3>1. i + 1 \in DOMAIN s /\ j + 1 \in DOMAIN s /\ t[i] = s[i + 1] /\ t[j] = s[j + 1]
          /\ i \in Nat /\ j \in Nat
      BY <1>11
    <3>2. i + 1 = j + 1
      BY <1>1, <2>1, <3>1
    <3> QED
      BY <3>1, <3>2
  <2> QED
    BY <1>3, <2>1 DEF Timed
<1>7. ASSUME NEW x \in IdsOf(t) PROVE x \in IdsOf(s) \ {s[1][1]}
  <2>1. PICK i \in DOMAIN t : x = t[i][1]
    BY DEF IdsOf
  <2>2. i + 1 \in DOMAIN s /\ i + 1 # 1 /\ 1 \in DOMAIN s /\ x = s[i + 1][1]
    BY <1>1, <1>2, <1>3, <1>4, <2>1
  <2> QED
    BY <1>1, <2>2 DEF IdsOf
<1>8. ASSUME NEW x \in IdsOf(s), x # s[1][1] PROVE x \in IdsOf(t)
  <2>1. PICK i \in DOMAIN s : x = s[i][1]
    BY DEF IdsOf
  <2>2. i - 1 \in DOMAIN t /\ t[i - 1] = s[i]
    BY <1>1, <1>2, <1>3, <1>4, <1>8, <2>1
  <2> QED
    BY <2>1, <2>2 DEF IdsOf
<1>9. 1 \in DOMAIN s /\ s[1][1] \in IdsOf(s) /\ s[1][1] \in Ids
  BY <1>1, <1>2 DEF IdsOf
<1> QED
  BY <1>3, <1>4, <1>5, <1>6, <1>7, <1>8, <1>9 DEF t, n

\* Another one enters at the end.
LEMMA TimedAppend == ASSUME NEW s \in Timed, NEW x \in Ids, NEW k \in Int, x \notin IdsOf(s)
    PROVE  LET t == Append(s, <<x, k>>)
           IN  /\ t \in Timed /\ IdsOf(t) = IdsOf(s) \cup {x} /\ DOMAIN t = 1 .. Len(s) + 1
               /\ \A i \in 1 .. Len(s) : t[i] = s[i]
               /\ t[Len(s) + 1] = <<x, k>>
<1> DEFINE t == Append(s, <<x, k>>)
           n == Len(s)
<1>1. /\ s \in Seq(Ids \X Int) /\ DOMAIN s = 1 .. n /\ n \in Nat
      /\ \A i, j \in DOMAIN s : s[i][1] = s[j][1] => i = j
      /\ <<x, k>> \in Ids \X Int
  BY TimedIs DEF Timed
<1>2. /\ t \in Seq(Ids \X Int) /\ Len(t) = n + 1 /\ \A i \in 1 .. n : t[i] = s[i]
      /\ t[n + 1] = <<x, k>>
  BY <1>1, AppendProperties
<1>3. DOMAIN t = 1 .. n + 1
  BY <1>2, LenProperties
<1> HIDE DEF t, n
<1>4. \A i \in 1 .. n : s[i][1] # x
  BY <1>1 DEF IdsOf
<1>5. \A i, j \in DOMAIN t : t[i][1] = t[j][1] => i = j
  <2> TAKE i, j \in DOMAIN t
  <2>1. i \in 1 .. n \/ i = n + 1
    BY <1>1, <1>3
  <2>2. j \in 1 .. n \/ j = n + 1
    BY <1>1, <1>3
  <2>3. t[n + 1][1] = x
    BY <1>2
  <2> QED
    BY <1>1, <1>2, <1>4, <2>1, <2>2, <2>3
<1>6. t \in Timed
  BY <1>2, <1>5 DEF Timed
<1>7. IdsOf(t) = IdsOf(s) \cup {x}
  <2>1. ASSUME NEW y \in IdsOf(t) PROVE y \in IdsOf(s) \cup {x}
    <3>1. PICK i \in DOMAIN t : y = t[i][1]
      BY DEF IdsOf
    <3>2. i \in 1 .. n \/ i = n + 1
      BY <1>1, <1>3
    <3> QED
      BY <1>1, <1>2, <3>1, <3>2 DEF IdsOf
  <2>2. ASSUME NEW i \in 1 .. n PROVE s[i][1] \in IdsOf(t)
    <3>1. i \in DOMAIN t
      BY <1>1, <1>3
    <3>2. t[i] = s[i]
      BY <1>2
    <3> QED
      BY <3>1, <3>2 DEF IdsOf
  <2>3. n + 1 \in DOMAIN t /\ t[n + 1][1] = x
    BY <1>1, <1>2, <1>3
  <2>4. x \in IdsOf(t)
    BY <2>3 DEF IdsOf
  <2>5. IdsOf(s) \subseteq IdsOf(t)
    BY <1>1, <2>2 DEF IdsOf
  <2> QED
    BY <2>1, <2>4, <2>5
<1> QED
  BY <1>2, <1>3, <1>6, <1>7 DEF t, n

\* n after the data bus of m, on which data is left and the writes wd wait.
Filled(m, n, wd, data) ==
    LET enters == wd # <<>> /\ Head(wd)[2] = 0
    IN  /\ Same(m, n, {"data", "dataLeft", "wdata", "fly", "panic"})
        /\ n.fly = (IF WriteEnds(m) THEN m.fly - 1 ELSE m.fly)
        /\ n.wdata = (IF enters THEN Tail(wd) ELSE wd)
        /\ n.data = (IF enters THEN Head(wd)[1] ELSE data)
        /\ n.dataLeft = (IF enters THEN T.half ELSE IF m.data = 0 THEN m.dataLeft
                         ELSE IF WriteEnds(m) THEN 0 ELSE m.dataLeft - 1)
        /\ n.panic = (m.panic \/ (enters /\ data # 0))

\* The data bus ends a write, and takes the next when its time has come.
LEMMA DataFields ==
    ASSUME NEW m, IsMem(m), m.panic \in BOOLEAN
    PROVE  Filled(m, DataBus(m), Lowered(m.wdata), IF WriteEnds(m) THEN 0 ELSE m.data)
<1> DEFINE n == DataBus(m)
           wd == Lowered(m.wdata)
           enters == wd # <<>> /\ Head(wd)[2] = 0
           data == IF WriteEnds(m) THEN 0 ELSE m.data
           x == IF m.data = 0 THEN m
                ELSE IF WriteEnds(m) THEN [m EXCEPT !.data = 0, !.dataLeft = 0, !.fly = @ - 1]
                ELSE [m EXCEPT !.dataLeft = @ - 1]
<1>1. /\ Same(m, x, {"data", "dataLeft", "fly"}) /\ x.data = data
      /\ x.fly = (IF WriteEnds(m) THEN m.fly - 1 ELSE m.fly)
      /\ x.dataLeft = (IF m.data = 0 THEN m.dataLeft
                       ELSE IF WriteEnds(m) THEN 0 ELSE m.dataLeft - 1)
  <2>1. CASE m.data = 0
    BY <2>1 DEF Same, IsMem, MemFields, WriteEnds
  <2>2. CASE m.data # 0 /\ WriteEnds(m)
    BY Zenon, <2>2 DEF Same, IsMem, MemFields
  <2>3. CASE m.data # 0 /\ ~WriteEnds(m)
    BY <2>3 DEF Same, IsMem, MemFields
  <2> QED
    BY <2>1, <2>2, <2>3
<1>2. n = IF wd # <<>> /\ Head(wd)[2] = 0
          THEN [x EXCEPT !.panic = @ \/ x.data # 0, !.data = Head(wd)[1], !.dataLeft = T.half,
                         !.wdata = Tail(wd)]
          ELSE [x EXCEPT !.wdata = wd]
  BY DEF DataBus, Lowered
<1> HIDE DEF n, wd, x, data
<1>3. x.panic = m.panic /\ IsMem(x)
  BY <1>1 DEF Same, MemFields
<1>4. ASSUME enters PROVE Filled(m, n, wd, data)
  <2>1. n = [x EXCEPT !.panic = @ \/ x.data # 0, !.data = Head(wd)[1], !.dataLeft = T.half,
                      !.wdata = Tail(wd)]
    BY <1>2, <1>4
  <2>2. Same(x, n, {"data", "dataLeft", "wdata", "panic"}) /\ n.data = Head(wd)[1]
        /\ n.dataLeft = T.half /\ n.wdata = Tail(wd) /\ n.panic = (x.panic \/ x.data # 0)
    BY Zenon, <1>3, <2>1 DEF Same, IsMem, MemFields
  <2>3. Same(m, n, {"data", "dataLeft", "wdata", "fly", "panic"}) /\ n.fly = x.fly
    BY <1>1, <2>2 DEF Same, MemFields
  <2> QED
    BY <1>1, <1>3, <1>4, <2>2, <2>3 DEF Filled
<1>5. ASSUME ~enters PROVE Filled(m, n, wd, data)
  <2>1. n = [x EXCEPT !.wdata = wd]
    BY <1>2, <1>5
  <2>2. Same(x, n, {"wdata"}) /\ n.wdata = wd
    BY <1>3, <2>1 DEF Same, IsMem, MemFields
  <2>3. Same(m, n, {"data", "dataLeft", "wdata", "fly", "panic"}) /\ n.fly = x.fly
        /\ n.data = x.data /\ n.dataLeft = x.dataLeft /\ n.panic = x.panic
    BY <1>1, <2>2 DEF Same, MemFields
  <2> QED
    <3>1. n.panic = (m.panic \/ (enters /\ data # 0))
      BY <1>3, <1>5, <2>2, <2>3
    <3> QED
      BY <1>1, <1>3, <1>5, <2>2, <2>3, <3>1 DEF Filled
<1>6. Filled(m, n, wd, data)
  BY <1>4, <1>5
<1> QED
  BY <1>6 DEF n, wd, data

-----------------------------------------------------------------------------
(* The reads on their way.                                                 *)

AllReads == {i \in Ids : ~Requests[i].write}
ReadsOf(r) == {i \in AllReads : Requests[i].rank = r}
Fetching(m, r) == IdsOf(m.rdata[r])
Leaving(m, r) == {m.out[r]} \ {0}
Reading(m) == IF m.cmd.type = "READ" THEN {m.cmd.id} ELSE {}
QueuedReads(m, r) == ToSet(m.q[r]) \cap ReadsOf(r)

WayType(m) ==
    /\ m.rdata = [r \in Ranks |-> m.rdata[r]] /\ m.out = [r \in Ranks |-> m.out[r]]
    /\ m.outLeft = [r \in Ranks |-> m.outLeft[r]]
    /\ \A r \in Ranks : m.rdata[r] \in Timed /\ m.out[r] \in Ids \cup {0} /\ m.outLeft[r] \in Int
    /\ m.ret \in Distinct(Ids)

\* A datum is that of one read, in one place.
Way(m) ==
    /\ WayType(m)
    /\ ToSet(m.ret) \subseteq AllReads
    /\ m.cmd.type = "READ" => m.cmd.id \in ReadsOf(m.cmd.rank)
    /\ ToSet(m.ret) \cap Reading(m) = {}
    /\ \A r \in Ranks :
         /\ Fetching(m, r) \cup Leaving(m, r) \subseteq ReadsOf(r)
         /\ Fetching(m, r) \cap Leaving(m, r) = {}
         /\ (Fetching(m, r) \cup Leaving(m, r)) \cap (ToSet(m.ret) \cup Reading(m) \cup ToSet(m.q[r])) = {}
         /\ ToSet(m.q[r]) \cap (ToSet(m.ret) \cup Reading(m)) = {}

Under(m) == ToSet(m.ret) \cup Reading(m)
            \cup UNION {Fetching(m, r) \cup Leaving(m, r) \cup QueuedReads(m, r) : r \in Ranks}

RankParts == {"ret", "out", "outLeft", "rdata"}

\* Rank::update moves the data of the rank's own reads.
LEMMA RankFields ==
    ASSUME NEW m, IsMem(m), WayType(m), NEW r \in Ranks
    PROVE  LET n == RankUpdate(m, r)
               ends == m.out[r] # 0 /\ m.outLeft[r] = 1
               rd == Lowered(m.rdata[r])
               go == rd # <<>> /\ Head(rd)[2] = 0
           IN  /\ Same(m, n, RankParts)
               /\ n.ret = (IF ends THEN Append(m.ret, m.out[r]) ELSE m.ret)
               /\ n.out = [m.out EXCEPT ![r] = IF go THEN Head(rd)[1] ELSE IF ends THEN 0 ELSE @]
               /\ n.rdata = [m.rdata EXCEPT ![r] = IF go THEN Tail(rd) ELSE rd]
               /\ n.outLeft = [s \in Ranks |-> n.outLeft[s]]
               /\ \A s \in Ranks : n.outLeft[s] \in Int
<1> DEFINE left == m.outLeft[r] - 1
           n == RankUpdate(m, r)
           ends == m.out[r] # 0 /\ m.outLeft[r] = 1
           rd == Lowered(m.rdata[r])
           go == rd # <<>> /\ Head(rd)[2] = 0
           Rt == IF ends THEN Append(m.ret, m.out[r]) ELSE m.ret
           Ot == IF go THEN Head(rd)[1] ELSE IF ends THEN 0 ELSE m.out[r]
           Lf == IF go THEN T.half ELSE IF m.out[r] # 0 THEN left ELSE m.outLeft[r]
           Rd == IF go THEN Tail(rd) ELSE rd
<1>1. m.outLeft[r] \in Int /\ T.half \in Int
  BY Delays DEF WayType
<1>2. (m.outLeft[r] - 1 = 0) <=> m.outLeft[r] = 1
  BY <1>1
<1>3. n = [m EXCEPT !.ret = Rt, !.out[r] = Ot, !.outLeft[r] = Lf, !.rdata[r] = Rd]
  BY <1>2 DEF RankUpdate, Lowered
<1>4. Lf \in Int
  BY <1>1
<1> HIDE DEF Rt, Ot, Lf, Rd, n
<1>5. /\ Same(m, n, RankParts) /\ n.ret = Rt /\ n.out = [m.out EXCEPT ![r] = Ot]
      /\ n.rdata = [m.rdata EXCEPT ![r] = Rd] /\ n.outLeft = [m.outLeft EXCEPT ![r] = Lf]
  BY Zenon, <1>3 DEF Same, IsMem, MemFields, RankParts
<1>6. n.outLeft = [s \in Ranks |-> n.outLeft[s]] /\ \A s \in Ranks : n.outLeft[s] \in Int
  BY <1>4, <1>5 DEF WayType
<1>7. n.out = [m.out EXCEPT ![r] = IF go THEN Head(rd)[1] ELSE IF ends THEN 0 ELSE @]
  BY <1>5 DEF Ot
<1>8. n.rdata = [m.rdata EXCEPT ![r] = IF go THEN Tail(rd) ELSE rd]
  BY <1>5 DEF Rd
<1> QED
  BY <1>5, <1>6, <1>7, <1>8 DEF Rt, n

-----------------------------------------------------------------------------
(* The order of the accesses.                                              *)

QSet(m) == UNION {ToSet(m.q[r]) : r \in Ranks}

\* What was taken and not issued stands in the transaction queue or in the
\* queue of its rank, in the order it was taken; a rank's transactions leave the
\* first queue in that order.
Lined(m) ==
    /\ m.pend \in Distinct(Ids) /\ m.taken \in Distinct(Ids) /\ m.tq \in Distinct(Ids)
    /\ m.q = [r \in Ranks |-> m.q[r]]
    /\ \A r \in Ranks : /\ m.q[r] \in Distinct(Ids)
                        /\ \A x \in ToSet(m.q[r]) : Requests[x].rank = r
    /\ ToSet(m.tq) \cap QSet(m) = {} /\ ToSet(m.tq) \cup QSet(m) \subseteq ToSet(m.taken)
    /\ ToSet(m.taken) \cap ToSet(m.pend) = {}
Ordered(m) ==
    /\ \A x, y : InOrder(m.tq, x, y) => InOrder(m.taken, x, y)
    /\ \A r \in Ranks : \A x, y : InOrder(m.q[r], x, y) => InOrder(m.taken, x, y)
    /\ \A x \in ToSet(m.tq) : \A y : InOrder(m.taken, x, y) /\ SameRank(x, y) => y \in ToSet(m.tq)

\* i was taken before j, which depends on it.
Fence(m, i, j) == \E z \in m.bars : /\ SameRank(z, i)
                                    /\ \/ z = i \/ z = j
                                       \/ InOrder(m.taken, i, z) /\ InOrder(m.taken, z, j)
Depends(m, i, j) == /\ InOrder(m.taken, i, j)
                    /\ Cell(i) = Cell(j) \/ (SameRank(i, j) /\ Fence(m, i, j))

IssuedOK(m, s) ==
    /\ s \in Distinct(Ids) /\ ToSet(s) \cup ToSet(m.tq) \cup QSet(m) = ToSet(m.taken)
    /\ ToSet(s) \cap (ToSet(m.tq) \cup QSet(m)) = {}
    /\ \A i : \A j \in ToSet(s) : Depends(m, i, j) => i \in ToSet(s) /\ InOrder(s, i, j)

LineParts == {"pend", "taken", "tq", "q", "bars"}
Lines(m, s) == Lined(m) /\ Ordered(m) /\ IssuedOK(m, s)

\* The order depends on the queues alone.
LEMMA LinesSame ==
    ASSUME NEW m, NEW n, NEW s, Lines(m, s), \A f \in LineParts : n[f] = m[f]
    PROVE  Lines(n, s)
<1>1. n.pend = m.pend /\ n.taken = m.taken /\ n.tq = m.tq /\ n.q = m.q /\ n.bars = m.bars
  BY DEF LineParts
<1>2. QSet(n) = QSet(m)
  BY <1>1 DEF QSet
<1>3. Lined(n)
  BY <1>1, <1>2 DEF Lines, Lined
<1>4. Ordered(n)
  BY <1>1 DEF Lines, Ordered
<1>5. \A i, j : Depends(n, i, j) <=> Depends(m, i, j)
  BY <1>1 DEF Depends, Fence
<1>6. IssuedOK(n, s)
  BY <1>1, <1>2, <1>5 DEF Lines, IssuedOK
<1> QED
  BY <1>3, <1>4, <1>6 DEF Lines

\* The order of the issued requests is the one IssueOrder asks for.
LEMMA LinesOrder ==
    ASSUME NEW m, NEW s, Lines(m, s), m = mem, s = issued
    PROVE  IssueOrder
<1>1. /\ s \in Distinct(Ids) /\ m.taken \in Distinct(Ids)
      /\ \A i : \A j \in ToSet(s) : Depends(m, i, j) => i \in ToSet(s) /\ InOrder(s, i, j)
  BY DEF Lines, IssuedOK, Lined
<1>2. DOMAIN m.taken = 1 .. Len(m.taken) /\ Len(m.taken) \in Nat
  BY <1>1, LenProperties DEF Distinct
<1>3. ASSUME NEW a \in DOMAIN m.taken, NEW b \in DOMAIN m.taken, NEW i, NEW j,
             i = m.taken[a], j = m.taken[b], a < b,
             Cell(i) = Cell(j) \/ (SameRank(i, j) /\ \E c \in a .. b :
                 m.taken[c] \in m.bars /\ SameRank(m.taken[c], i)),
             Before(j, i)
      PROVE  FALSE
  <2>1. InOrder(m.taken, i, j)
    BY <1>3 DEF InOrder
  <2>2. InOrder(s, j, i)
    BY <1>3 DEF Before, InOrder
  <2>3. j \in ToSet(s) /\ ~InOrder(s, i, j)
    BY <1>1, <2>2, OrderStrict
  <2>4. Cell(i) = Cell(j) \/ (SameRank(i, j) /\ Fence(m, i, j))
    <3>1. ASSUME NEW c \in a .. b, m.taken[c] \in m.bars, SameRank(m.taken[c], i)
          PROVE  Fence(m, i, j)
      <4>1. c \in DOMAIN m.taken /\ (c = a \/ c = b \/ (a < c /\ c < b))
        BY <1>2, <1>3
      <4>2. CASE a < c /\ c < b
        <5>1. InOrder(m.taken, i, m.taken[c]) /\ InOrder(m.taken, m.taken[c], j)
          BY <1>3, <4>1, <4>2 DEF InOrder
        <5> QED
          BY <3>1, <5>1 DEF Fence
      <4>3. CASE c = a \/ c = b
        BY <1>3, <3>1, <4>3 DEF Fence
      <4> QED
        BY <4>1, <4>2, <4>3
    <3> QED
      BY <1>3, <3>1
  <2> QED
    BY <1>1, <2>1, <2>3, <2>4 DEF Depends
<1> QED
  BY <1>3 DEF IssueOrder

\* What stands in a queue of a rank stands in one.
LEMMA QSetHas == ASSUME NEW m, NEW r \in Ranks, NEW x \in ToSet(m.q[r]) PROVE x \in QSet(m)
BY DEF QSet

\* The controller takes x.
LEMMA AcceptLines ==
    ASSUME NEW m, NEW n, NEW s, NEW x \in Ids, Lines(m, s), x \notin ToSet(m.taken),
           n.taken = Append(m.taken, x), n.tq = Append(m.tq, x), n.q = m.q, n.bars = m.bars,
           n.pend \in Distinct(Ids), ToSet(n.pend) \cap (ToSet(m.taken) \cup {x}) = {}
    PROVE  Lines(n, s)
<1>1. /\ m.taken \in Distinct(Ids) /\ m.tq \in Distinct(Ids)
      /\ ToSet(m.tq) \cap QSet(m) = {} /\ ToSet(m.tq) \cup QSet(m) \subseteq ToSet(m.taken)
  BY DEF Lines, Lined
<1>2. QSet(n) = QSet(m)
  BY DEF QSet
<1>3. x \notin ToSet(m.tq) /\ x \notin QSet(m)
  BY <1>1
<1>4. /\ n.taken \in Distinct(Ids) /\ ToSet(n.taken) = ToSet(m.taken) \cup {x}
      /\ n.tq \in Distinct(Ids) /\ ToSet(n.tq) = ToSet(m.tq) \cup {x}
  BY <1>1, <1>3, DistinctAppend
<1>5. \A a, b : InOrder(n.taken, a, b) <=> InOrder(m.taken, a, b) \/ (a \in ToSet(m.taken) /\ b = x)
  BY <1>1, OrderAppend
<1>6. \A a, b : InOrder(n.tq, a, b) <=> InOrder(m.tq, a, b) \/ (a \in ToSet(m.tq) /\ b = x)
  BY <1>1, <1>3, OrderAppend
<1>7. \A a, b : InOrder(m.taken, a, b) => a \in ToSet(m.taken) /\ b \in ToSet(m.taken)
  BY <1>1, OrderStrict
<1>8. Lined(n)
  BY <1>1, <1>2, <1>3, <1>4 DEF Lines, Lined
<1>9. Ordered(n)
  <2>1. \A a, b : InOrder(n.tq, a, b) => InOrder(n.taken, a, b)
    BY <1>1, <1>5, <1>6 DEF Lines, Ordered
  <2>2. \A r \in Ranks : \A a, b : InOrder(n.q[r], a, b) => InOrder(n.taken, a, b)
    BY <1>5 DEF Lines, Ordered
  <2>3. ASSUME NEW a \in ToSet(n.tq), NEW b, InOrder(n.taken, a, b), SameRank(a, b)
        PROVE  b \in ToSet(n.tq)
    <3>1. CASE b = x
      BY <1>4, <3>1
    <3>2. CASE b # x
      <4>1. InOrder(m.taken, a, b)
        BY <1>5, <2>3, <3>2
      <4>2. a \in ToSet(m.tq)
        BY <1>4, <1>7, <4>1
      <4>3. b \in ToSet(m.tq)
        BY <2>3, <4>1, <4>2 DEF Lines, Ordered
      <4> QED
        BY <1>4, <4>3
    <3> QED
      BY <3>1, <3>2
  <2> QED
    BY <2>1, <2>2, <2>3 DEF Ordered
<1>10. IssuedOK(n, s)
  <2>1. /\ s \in Distinct(Ids) /\ ToSet(s) \cup ToSet(m.tq) \cup QSet(m) = ToSet(m.taken)
        /\ ToSet(s) \cap (ToSet(m.tq) \cup QSet(m)) = {}
        /\ \A i : \A j \in ToSet(s) : Depends(m, i, j) => i \in ToSet(s) /\ InOrder(s, i, j)
    BY DEF Lines, IssuedOK
  <2>2. ASSUME NEW i, NEW j \in ToSet(s), Depends(n, i, j) PROVE Depends(m, i, j)
    <3>1. j # x
      BY <2>1
    <3>2. InOrder(m.taken, i, j)
      BY <1>5, <2>2, <3>1 DEF Depends
    <3>3. ASSUME NEW z, InOrder(n.taken, i, z), InOrder(n.taken, z, j)
          PROVE  InOrder(m.taken, i, z) /\ InOrder(m.taken, z, j)
      <4>1. InOrder(m.taken, z, j)
        BY <1>5, <3>1, <3>3
      <4>2. z # x
        BY <1>7, <4>1
      <4> QED
        BY <1>5, <3>3, <4>1, <4>2
    <3>4. Fence(n, i, j) => Fence(m, i, j)
      BY <3>3 DEF Fence
    <3> QED
      BY <2>2, <3>2, <3>4 DEF Depends
  <2>3. ToSet(s) \cup ToSet(n.tq) \cup QSet(n) = ToSet(n.taken)
        /\ ToSet(s) \cap (ToSet(n.tq) \cup QSet(n)) = {}
    BY <1>2, <1>4, <2>1
  <2> QED
    BY <2>1, <2>2, <2>3 DEF IssuedOK
<1> QED
  BY <1>8, <1>9, <1>10 DEF Lines

\* A barrier behind x, which waits in the transaction queue or was not taken.
LEMMA BarLines ==
    ASSUME NEW m, NEW n, NEW s, NEW x, Lines(m, s), x \notin ToSet(m.taken) \/ x \in ToSet(m.tq),
           \A f \in LineParts \ {"bars"} : n[f] = m[f], n.bars = m.bars \cup {x}
    PROVE  Lines(n, s)
<1>1. n.pend = m.pend /\ n.taken = m.taken /\ n.tq = m.tq /\ n.q = m.q
  BY DEF LineParts
<1>2. QSet(n) = QSet(m)
  BY <1>1 DEF QSet
<1>3. Lined(n)
  BY <1>1, <1>2 DEF Lines, Lined
<1>4. Ordered(n)
  BY <1>1 DEF Lines, Ordered
<1>5. /\ s \in Distinct(Ids) /\ ToSet(s) \cup ToSet(m.tq) \cup QSet(m) = ToSet(m.taken)
      /\ ToSet(s) \cap (ToSet(m.tq) \cup QSet(m)) = {} /\ m.taken \in Distinct(Ids)
      /\ \A i : \A j \in ToSet(s) : Depends(m, i, j) => i \in ToSet(s) /\ InOrder(s, i, j)
      /\ \A a \in ToSet(m.tq) : \A b : InOrder(m.taken, a, b) /\ SameRank(a, b) => b \in ToSet(m.tq)
  BY DEF Lines, IssuedOK, Lined, Ordered
<1>6. \A a, b : InOrder(m.taken, a, b) => a \in ToSet(m.taken) /\ b \in ToSet(m.taken)
  BY <1>5, OrderStrict
<1>7. ASSUME NEW i, NEW j \in ToSet(s), Depends(n, i, j) PROVE Depends(m, i, j)
  <2>1. InOrder(m.taken, i, j)
    BY <1>1, <1>7 DEF Depends
  <2>2. SUFFICES ASSUME SameRank(i, j), Fence(n, i, j) PROVE Fence(m, i, j)
    BY <1>7, <2>1 DEF Depends
  <2>3. PICK z \in n.bars : /\ SameRank(z, i)
                            /\ \/ z = i \/ z = j
                               \/ InOrder(m.taken, i, z) /\ InOrder(m.taken, z, j)
    BY <1>1, <2>2 DEF Fence
  <2>4. CASE z \in m.bars
    BY <2>3, <2>4 DEF Fence
  <2>5. CASE z = x
    <3>1. x \in ToSet(m.taken)
      BY <1>6, <2>1, <2>3, <2>5
    <3>2. x \in ToSet(m.tq) /\ x # j
      BY <1>5, <3>1
    <3>3. InOrder(m.taken, x, j)
      BY <2>1, <2>3, <2>5, <3>2
    <3>4. SameRank(x, j)
      BY <2>2, <2>3, <2>5 DEF SameRank
    <3>5. j \in ToSet(m.tq)
      BY <1>5, <3>2, <3>3, <3>4
    <3> QED
      BY <1>5, <3>5
  <2> QED
    BY <2>4, <2>5
<1>8. IssuedOK(n, s)
  BY <1>1, <1>2, <1>5, <1>7 DEF IssuedOK
<1> QED
  BY <1>3, <1>4, <1>8 DEF Lines

\* The first transaction of its rank goes to the queue of the rank.
Enters(m, n, k, x, r) ==
    /\ k \in 1 .. Len(m.tq) /\ x = m.tq[k] /\ r = Requests[x].rank
    /\ \A i \in 1 .. k - 1 : Requests[m.tq[i]].rank # r
    /\ n.pend = m.pend /\ n.taken = m.taken /\ n.bars = m.bars
    /\ n.tq = RemoveAt(m.tq, k) /\ n.q = [m.q EXCEPT ![r] = Append(@, x)]

\* ... and the order is kept, of all queues.
LEMMA QueueLines ==
    ASSUME NEW m, NEW n, NEW s, Lines(m, s), NEW k, NEW x, NEW r, Enters(m, n, k, x, r)
    PROVE  Lines(n, s) /\ x \in Ids /\ r \in Ranks /\ x \in ToSet(m.tq)
           /\ ToSet(n.tq) = ToSet(m.tq) \ {x} /\ ToSet(n.q[r]) = ToSet(m.q[r]) \cup {x}
           /\ \A t \in Ranks \ {r} : n.q[t] = m.q[t]
<1>a. /\ k \in 1 .. Len(m.tq) /\ x = m.tq[k] /\ r = Requests[x].rank
      /\ \A i \in 1 .. k - 1 : Requests[m.tq[i]].rank # r
      /\ n.pend = m.pend /\ n.taken = m.taken /\ n.bars = m.bars
  BY DEF Enters
<1>b. n.tq = RemoveAt(m.tq, k)
  BY DEF Enters
<1>c. n.q = [m.q EXCEPT ![r] = Append(@, x)]
  BY DEF Enters
<1> USE <1>a
<1>1. /\ m.taken \in Distinct(Ids) /\ m.tq \in Distinct(Ids) /\ m.q = [t \in Ranks |-> m.q[t]]
      /\ \A t \in Ranks : /\ m.q[t] \in Distinct(Ids)
                          /\ \A y \in ToSet(m.q[t]) : Requests[y].rank = t
      /\ ToSet(m.tq) \cap QSet(m) = {} /\ ToSet(m.tq) \cup QSet(m) \subseteq ToSet(m.taken)
  BY DEF Lines, Lined
<1>2. m.tq \in Seq(Ids) /\ Len(m.tq) \in Nat /\ DOMAIN m.tq = 1 .. Len(m.tq)
      /\ \A a, b \in DOMAIN m.tq : m.tq[a] = m.tq[b] => a = b
  BY <1>1, LenProperties DEF Distinct, IsInjective
<1>3. x \in Ids /\ x \in ToSet(m.tq)
  BY <1>2, ElementOfSeq DEF ToSet
<1>4. r \in Ranks
  BY <1>3, RequestType
<1>5. x \notin QSet(m) /\ x \notin ToSet(m.q[r])
  BY <1>1, <1>3, <1>4, QSetHas
<1>6. n.tq \in Distinct(Ids) /\ ToSet(n.tq) = ToSet(m.tq) \ {x}
  BY <1>1, <1>b, DistinctRemoveAt
<1>7. Append(m.q[r], x) \in Distinct(Ids) /\ ToSet(Append(m.q[r], x)) = ToSet(m.q[r]) \cup {x}
  <2> DEFINE q == m.q[r]
  <2>1. q \in Distinct(Ids) /\ x \notin ToSet(q)
    BY <1>1, <1>4, <1>5
  <2> HIDE DEF q
  <2>2. Append(q, x) \in Distinct(Ids) /\ ToSet(Append(q, x)) = ToSet(q) \cup {x}
    BY <1>3, <2>1, DistinctAppend
  <2> QED
    BY <2>2 DEF q
<1>8. n.q = [t \in Ranks |-> n.q[t]] /\ n.q[r] = Append(m.q[r], x)
      /\ \A t \in Ranks \ {r} : n.q[t] = m.q[t]
  BY Zenon, <1>1, <1>4, <1>c
<1>9. QSet(n) = QSet(m) \cup {x}
  <2>1. ToSet(n.q[r]) = ToSet(m.q[r]) \cup {x}
    BY Zenon, <1>7, <1>8
  <2>2. \A t \in Ranks : t # r => ToSet(n.q[t]) = ToSet(m.q[t])
    BY Zenon, <1>8
  <2>3. ASSUME NEW y \in QSet(n) PROVE y \in QSet(m) \cup {x}
    BY <2>1, <2>2, <2>3 DEF QSet
  <2>4. ASSUME NEW y \in QSet(m) PROVE y \in QSet(n)
    BY <2>1, <2>2, <2>4 DEF QSet
  <2>5. x \in QSet(n)
    BY <1>4, <2>1 DEF QSet
  <2> QED
    BY <2>3, <2>4, <2>5
<1>10. \A y \in ToSet(m.q[r]) : y # x /\ y \in ToSet(m.taken) /\ SameRank(x, y) /\ y \in QSet(m)
  BY <1>1, <1>4, <1>5, QSetHas DEF SameRank
<1>11. Lined(n)
  <2>1. ASSUME NEW t \in Ranks
        PROVE  n.q[t] \in Distinct(Ids) /\ \A y \in ToSet(n.q[t]) : Requests[y].rank = t
    <3>1. CASE t = r
      <4>1. n.q[t] \in Distinct(Ids) /\ ToSet(n.q[t]) = ToSet(m.q[r]) \cup {x}
        BY Zenon, <1>7, <1>8, <3>1
      <4>2. \A y \in ToSet(m.q[r]) : Requests[y].rank = r
        BY <1>1, <1>4
      <4> QED
        BY <3>1, <4>1, <4>2
    <3>2. CASE t # r
      BY Zenon, <1>1, <1>8, <3>2
    <3> QED
      BY <3>1, <3>2
  <2>2. ToSet(n.tq) \cap QSet(n) = {} /\ ToSet(n.tq) \cup QSet(n) \subseteq ToSet(n.taken)
    BY <1>1, <1>3, <1>6, <1>9
  <2> QED
    BY Zenon, <1>6, <1>8, <2>1, <2>2 DEF Lines, Lined
<1>12. \A a \in ToSet(m.tq) : \A b : InOrder(m.taken, a, b) /\ SameRank(a, b) => b \in ToSet(m.tq)
  BY DEF Lines, Ordered
<1>13. Ordered(n)
  <2>1. \A a, b : InOrder(n.tq, a, b) => InOrder(n.taken, a, b)
    <3>1. \A a, b : InOrder(n.tq, a, b) => InOrder(m.tq, a, b)
      BY <1>1, <1>b, OrderRemoveAt
    <3> QED
      BY <3>1 DEF Lines, Ordered
  <2>2. ASSUME NEW t \in Ranks, NEW a, NEW b, InOrder(n.q[t], a, b) PROVE InOrder(n.taken, a, b)
    <3>1. CASE InOrder(m.q[t], a, b)
      BY <3>1 DEF Lines, Ordered
    <3>2. CASE ~InOrder(m.q[t], a, b)
      <4>1. t = r
        BY Zenon, <1>8, <2>2, <3>2
      <4>2. a \in ToSet(m.q[r]) /\ b = x
        <5> DEFINE q == m.q[r]
        <5>1. q \in Distinct(Ids) /\ x \notin ToSet(q) /\ InOrder(Append(q, x), a, b)
              /\ ~InOrder(q, a, b)
          BY Zenon, <1>1, <1>4, <1>5, <1>8, <2>2, <3>2, <4>1
        <5> HIDE DEF q
        <5>2. a \in ToSet(q) /\ b = x
          BY <1>3, <5>1, OrderAppend
        <5> QED
          BY <5>2 DEF q
      <4>3. InOrder(m.taken, a, x) \/ InOrder(m.taken, x, a)
        BY <1>1, <1>3, <1>10, <4>2, OrderTotal
      <4>4. ~InOrder(m.taken, x, a)
        BY <1>1, <1>3, <1>10, <1>12, <4>2
      <4> QED
        BY <4>2, <4>3, <4>4
    <3> QED
      BY <3>1, <3>2
  <2>3. ASSUME NEW a \in ToSet(n.tq), NEW b, InOrder(n.taken, a, b), SameRank(a, b)
        PROVE  b \in ToSet(n.tq)
    <3>1. a \in ToSet(m.tq) /\ a # x /\ b \in ToSet(m.tq)
      BY <1>6, <1>12, <2>3
    <3>2. SUFFICES ASSUME b = x PROVE FALSE
      BY <1>6, <3>1
    <3>3. ~InOrder(m.tq, x, a)
      <4>1. ~InOrder(m.taken, x, a)
        BY <1>1, <2>3, <3>2, OrderStrict
      <4> QED
        BY <4>1 DEF Lines, Ordered
    <3>4. InOrder(m.tq, a, x)
      BY <1>1, <1>3, <3>1, <3>3, OrderTotal
    <3>5. PICK c, d \in DOMAIN m.tq : c < d /\ m.tq[c] = a /\ m.tq[d] = x
      BY <3>4 DEF InOrder
    <3>6. d = k /\ c \in 1 .. k - 1
      BY <1>2, <3>5
    <3> QED
      BY <2>3, <3>2, <3>5, <3>6 DEF SameRank
  <2> QED
    BY <2>1, <2>2, <2>3 DEF Ordered
<1>14. IssuedOK(n, s)
  <2>1. \A i, j : Depends(n, i, j) <=> Depends(m, i, j)
    BY DEF Depends, Fence
  <2>2. ToSet(s) \cup ToSet(n.tq) \cup QSet(n) = ToSet(m.taken)
        /\ ToSet(s) \cap (ToSet(n.tq) \cup QSet(n)) = {}
    BY <1>3, <1>6, <1>9 DEF Lines, IssuedOK
  <2> QED
    BY <2>1, <2>2 DEF Lines, IssuedOK
<1> QED
  BY Zenon, <1>3, <1>4, <1>6, <1>7, <1>8, <1>11, <1>13, <1>14 DEF Lines

\* An access leaves the queue of its rank for the command bus.
LEMMA IssueLines ==
    ASSUME NEW m, NEW n, NEW s, Lines(m, s), NEW r \in Ranks, NEW k \in 1 .. Len(m.q[r]),
           NEW x, x = m.q[r][k], Free(m, m.q[r], k),
           \A f \in LineParts \ {"q"} : n[f] = m[f],
           n.q = [m.q EXCEPT ![r] = RemoveAt(@, k)]
    PROVE  Lines(n, Append(s, x)) /\ x \in ToSet(m.q[r]) /\ ToSet(n.q[r]) = ToSet(m.q[r]) \ {x}
           /\ \A t \in Ranks \ {r} : n.q[t] = m.q[t]
<1> DEFINE u == Append(s, x)
           q == m.q[r]
<1>1. n.pend = m.pend /\ n.taken = m.taken /\ n.tq = m.tq /\ n.bars = m.bars
  BY DEF LineParts
<1>2. /\ m.taken \in Distinct(Ids) /\ m.tq \in Distinct(Ids) /\ m.q = [t \in Ranks |-> m.q[t]]
      /\ \A t \in Ranks : /\ m.q[t] \in Distinct(Ids)
                          /\ \A y \in ToSet(m.q[t]) : Requests[y].rank = t
      /\ ToSet(m.tq) \cap QSet(m) = {} /\ ToSet(m.tq) \cup QSet(m) \subseteq ToSet(m.taken)
      /\ ToSet(m.taken) \cap ToSet(m.pend) = {}
  BY DEF Lines, Lined
<1>3. q \in Seq(Ids) /\ Len(q) \in Nat /\ DOMAIN q = 1 .. Len(q) /\ q \in Distinct(Ids)
      /\ \A a, b \in DOMAIN q : q[a] = q[b] => a = b
  BY <1>2, LenProperties DEF Distinct, IsInjective
<1>4. x \in Ids /\ x \in ToSet(q) /\ x \in QSet(m) /\ Requests[x].rank = r
  BY <1>2, <1>3, ElementOfSeq, QSetHas DEF ToSet
<1>5. RemoveAt(q, k) \in Distinct(Ids) /\ ToSet(RemoveAt(q, k)) = ToSet(q) \ {x}
  BY <1>3, DistinctRemoveAt
<1>6. n.q = [t \in Ranks |-> n.q[t]] /\ n.q[r] = RemoveAt(q, k)
      /\ \A t \in Ranks \ {r} : n.q[t] = m.q[t]
  BY <1>2
<1>7. QSet(n) = QSet(m) \ {x}
  <2>1. \A t \in Ranks : t # r => x \notin ToSet(m.q[t])
    BY <1>2, <1>4
  <2>2. \A t \in Ranks : ToSet(n.q[t]) = ToSet(m.q[t]) \ {x}
    BY <1>5, <1>6, <2>1
  <2> QED
    BY <2>2 DEF QSet
<1>8. /\ s \in Distinct(Ids) /\ ToSet(s) \cup ToSet(m.tq) \cup QSet(m) = ToSet(m.taken)
      /\ ToSet(s) \cap (ToSet(m.tq) \cup QSet(m)) = {}
      /\ \A i : \A j \in ToSet(s) : Depends(m, i, j) => i \in ToSet(s) /\ InOrder(s, i, j)
      /\ \A a \in ToSet(m.tq) : \A b : InOrder(m.taken, a, b) /\ SameRank(a, b) => b \in ToSet(m.tq)
      /\ \A a, b : InOrder(q, a, b) => InOrder(m.taken, a, b)
  BY DEF Lines, IssuedOK, Ordered
<1>9. u \in Distinct(Ids) /\ ToSet(u) = ToSet(s) \cup {x} /\ x \notin ToSet(s)
  BY <1>4, <1>8, DistinctAppend
<1>10. \A a, b : InOrder(u, a, b) <=> InOrder(s, a, b) \/ (a \in ToSet(s) /\ b = x)
  BY <1>4, <1>8, <1>9, OrderAppend
<1>11. Lined(n)
  <2>1. \A t \in Ranks : n.q[t] \in Distinct(Ids) /\ \A y \in ToSet(n.q[t]) : Requests[y].rank = t
    BY <1>2, <1>5, <1>6
  <2> QED
    BY <1>1, <1>2, <1>6, <1>7, <2>1 DEF Lined, Lines
<1>12. Ordered(n)
  <2>1. ASSUME NEW t \in Ranks, NEW a, NEW b, InOrder(n.q[t], a, b) PROVE InOrder(m.q[t], a, b)
    BY <1>3, <1>6, <2>1, OrderRemoveAt
  <2> QED
    BY <1>1, <2>1 DEF Lines, Ordered
<1>13. \A i, j : Depends(n, i, j) <=> Depends(m, i, j)
  BY <1>1 DEF Depends, Fence
\* What x depends on was issued: else it would stand before x in the queue.
<1>14. ASSUME NEW i, Depends(m, i, x) PROVE i \in ToSet(s)
  <2>1. SUFFICES ASSUME i \notin ToSet(s) PROVE FALSE
    OBVIOUS
  <2>2. InOrder(m.taken, i, x) /\ i \in ToSet(m.taken) /\ i # x
    BY <1>2, <1>14, OrderStrict DEF Depends
  <2>3. SameRank(i, x)
    BY <1>14 DEF Depends, SameRank, Cell
  <2>10. ASSUME NEW z, z \in ToSet(m.taken), SameRank(z, x), z # x, InOrder(m.taken, z, x),
                z \notin ToSet(s)
         PROVE  \E a \in 1 .. k - 1 : q[a] = z
    <3>1. z \notin ToSet(m.tq)
      BY <1>2, <1>4, <1>8, <2>10
    <3>2. z \in QSet(m)
      BY <1>8, <2>10, <3>1
    <3>3. PICK t \in Ranks : z \in ToSet(m.q[t])
      BY <3>2 DEF QSet
    <3>4. t = r
      BY <1>2, <1>4, <2>10, <3>3 DEF SameRank
    <3>5. InOrder(q, z, x) \/ InOrder(q, x, z)
      BY <1>3, <1>4, <2>10, <3>3, <3>4, OrderTotal
    <3>6. ~InOrder(m.taken, x, z)
      BY <1>2, <2>10, OrderStrict
    <3>7. InOrder(q, z, x)
      BY <1>8, <3>5, <3>6
    <3>8. PICK a, b \in DOMAIN q : a < b /\ q[a] = z /\ q[b] = x
      BY <3>7 DEF InOrder
    <3>9. b = k /\ a \in 1 .. k - 1
      BY <1>3, <3>8
    <3> QED
      BY <3>8, <3>9
  <2>4. PICK a \in 1 .. k - 1 : q[a] = i
    BY <2>1, <2>2, <2>3, <2>10
  <2>5. Cell(i) # Cell(x) /\ i \notin m.bars /\ x \notin m.bars
    BY <1>3, <2>4 DEF Free
  <2>6. PICK z \in m.bars : SameRank(z, i) /\ InOrder(m.taken, i, z) /\ InOrder(m.taken, z, x)
    BY <1>14, <2>5 DEF Depends, Fence
  <2>7. z \in ToSet(m.taken) /\ z # x /\ SameRank(z, x)
    BY <1>2, <2>3, <2>6, OrderStrict DEF SameRank
  <2>8. CASE z \in ToSet(s)
    <3>1. SameRank(i, z) /\ Fence(m, i, z)
      BY <2>6 DEF Fence, SameRank
    <3>2. Depends(m, i, z)
      BY <2>6, <3>1 DEF Depends
    <3> QED
      BY <1>8, <2>1, <2>8, <3>2
  <2>9. CASE z \notin ToSet(s)
    <3>1. PICK c \in 1 .. k - 1 : q[c] = z
      BY <2>6, <2>7, <2>9, <2>10
    <3>2. z \notin m.bars
      BY <3>1 DEF Free
    <3> QED
      BY <2>6, <3>2
  <2> QED
    BY <2>8, <2>9
<1>15. IssuedOK(n, u)
  <2>1. ToSet(u) \cup ToSet(n.tq) \cup QSet(n) = ToSet(n.taken)
        /\ ToSet(u) \cap (ToSet(n.tq) \cup QSet(n)) = {}
    BY <1>1, <1>2, <1>4, <1>7, <1>8, <1>9
  <2>2. ASSUME NEW i, NEW j \in ToSet(u), Depends(n, i, j)
        PROVE  i \in ToSet(u) /\ InOrder(u, i, j)
    <3>1. Depends(m, i, j)
      BY <1>13, <2>2
    <3>2. CASE j = x
      BY <1>9, <1>10, <1>14, <3>1, <3>2
    <3>3. CASE j \in ToSet(s)
      BY <1>8, <1>9, <1>10, <3>1, <3>3
    <3> QED
      BY <1>9, <2>2, <3>2, <3>3
  <2> QED
    BY <1>9, <2>1, <2>2 DEF IssuedOK
<1> QED
  BY <1>4, <1>5, <1>6, <1>11, <1>12, <1>15 DEF Lines

-----------------------------------------------------------------------------
(* Pop, when the command bus is free.                                      *)

Took(m, n, p, k) == /\ k \in 1 .. Len(m.q[p.rank]) /\ p = Access(m.q[p.rank][k])
                    /\ Free(m, m.q[p.rank], k)
                    /\ n.q = [m.q EXCEPT ![p.rank] = RemoveAt(@, k)]

SentParts == Pointers \cup {"q", "bank", "wdata", "cmd", "cmdLeft"}
Sent(m, n, p) ==
    /\ Same(m, n, SentParts) /\ Turns(n) /\ n.cmd = p /\ n.cmdLeft = T.tCMD
    /\ n.bank = [r \in Ranks |-> [b \in Banks |-> AfterCommand(m, p, r, b)]]
    /\ n.wdata = (IF p.type = "WRITE" THEN Append(m.wdata, <<p.id, T.WL>>) ELSE m.wdata)
    /\ IF p.type \in {"READ", "WRITE"} THEN \E k : Took(m, n, p, k) ELSE n.q = m.q

\* Queues in line are those of the ranks.
LEMMA LinedQueues == ASSUME NEW m, Lined(m) PROVE Queues(m)
<1>1. ASSUME NEW r \in Ranks
      PROVE  /\ m.q[r] \in Seq(Ids)
             /\ \A i \in DOMAIN m.q[r] : Requests[m.q[r][i]].rank = r
  <2>1. m.q[r] \in Distinct(Ids) /\ \A x \in ToSet(m.q[r]) : Requests[x].rank = r
    BY DEF Lined
  <2> QED
    BY <2>1 DEF Distinct, ToSet
<1>2. m.q = [r \in Ranks |-> m.q[r]]
  BY DEF Lined
<1> QED
  BY <1>1, <1>2 DEF Queues

\* What pop sends, when the command bus is free.
LEMMA PopSent ==
    ASSUME NEW m, IsMem(m), m.panic \in BOOLEAN, Lined(m), Table(m), Turns(m), m.cmd = NoPacket
    PROVE  Pop(m) = m \/ \E p : Sendable(m, p) /\ Sent(m, Pop(m), p)
<1>1. Queues(m)
  BY LinedQueues
<1>2. SUFFICES ASSUME NEW x, NEW p, Same(m, x, Pointers), Turns(x), Sendable(m, p)
               PROVE  Sent(m, Send(x, p), p)
  BY <1>1, PopIs
<1> DEFINE n == Send(x, p)
<1>3. IsMem(x) /\ \A f \in MemFields \ Pointers : x[f] = m[f]
  BY <1>2 DEF Same
<1>4. /\ x.q = m.q /\ x.bank = m.bank /\ x.wdata = m.wdata /\ x.panic = m.panic /\ x.cmd = m.cmd
      /\ x.refRank = m.refRank
  BY <1>3 DEF MemFields, Pointers
<1>5. IsCommand(p) /\ p.rank \in Ranks
  BY <1>2 DEF Sendable, IsCommand
<1>6. m.q = [r \in Ranks |-> m.q[r]] /\ x.q = [r \in Ranks |-> x.q[r]]
  BY <1>4 DEF Lined
<1>7. /\ Same(x, n, {"q", "bank", "wdata", "panic", "cmd", "cmdLeft"})
      /\ n.cmd = p /\ n.cmdLeft = T.tCMD /\ n.panic = (x.panic \/ x.cmd # NoPacket)
      /\ n.bank = [r \in Ranks |-> [b \in Banks |-> AfterCommand(x, p, r, b)]]
      /\ n.wdata = (IF p.type = "WRITE" THEN Append(x.wdata, <<p.id, T.WL>>) ELSE x.wdata)
      /\ n.q = (IF p.type \in {"READ", "WRITE"}
                THEN [x.q EXCEPT ![p.rank] = RemoveAt(@, CHOOSE i \in DOMAIN @ : @[i] = p.id)]
                ELSE x.q)
  BY <1>3, <1>5, <1>6, SendFields
<1> HIDE DEF n
<1>8. n.panic = m.panic
  BY <1>4, <1>7
<1>9. Same(m, n, SentParts)
  <2>1. IsMem(n) /\ \A f \in MemFields \ {"q", "bank", "wdata", "panic", "cmd", "cmdLeft"} : n[f] = x[f]
    BY <1>7 DEF Same
  <2>2. ASSUME NEW f \in MemFields \ SentParts PROVE n[f] = m[f]
    <3>1. CASE f = "panic"
      BY <1>8, <3>1
    <3>2. CASE f # "panic"
      BY <1>3, <2>1, <3>2 DEF SentParts
    <3> QED
      BY <3>1, <3>2
  <2> QED
    BY <2>1, <2>2 DEF Same
<1>10. Turns(n)
  <2>1. n.refRank = x.refRank /\ n.nextRank = x.nextRank /\ n.nextPre = x.nextPre
    BY <1>7 DEF Same, MemFields
  <2> QED
    BY <1>2, <2>1 DEF Turns
<1>11. n.bank = [r \in Ranks |-> [b \in Banks |-> AfterCommand(m, p, r, b)]]
  <2>1. \A r \in Ranks, b \in Banks : AfterCommand(x, p, r, b) = AfterCommand(m, p, r, b)
    BY <1>4 DEF AfterCommand
  <2> QED
    BY <1>7, <2>1
<1>12. CASE p.type \in {"READ", "WRITE"}
  <2>9. PICK r \in Ranks : \E k \in DOMAIN m.q[r] : p = Access(m.q[r][k]) /\ Free(m, m.q[r], k)
    BY <1>2, <1>12 DEF Sendable, AccessOf
  <2>1. PICK k \in DOMAIN m.q[r] : p = Access(m.q[r][k]) /\ Free(m, m.q[r], k)
    BY <2>9
  <2> DEFINE q == m.q[r]
             i == CHOOSE i \in DOMAIN q : q[i] = p.id
  <2>2. q \in Seq(Ids) /\ Len(q) \in Nat /\ DOMAIN q = 1 .. Len(q)
        /\ \A a, b \in DOMAIN q : q[a] = q[b] => a = b
    BY LenProperties DEF Lined, Distinct, IsInjective
  <2>3. q[k] \in Ids /\ Requests[q[k]].rank = r
    <3>1. \A y \in ToSet(m.q[r]) : Requests[y].rank = r
      BY DEF Lined
    <3> QED
      BY <2>1, <2>2, <3>1, ElementOfSeq DEF ToSet
  <2>4. p.id = q[k] /\ p.rank = r
    BY <2>1, <2>3, AccessIs
  <2>5. i = k
    BY <2>1, <2>2, <2>4
  <2>6. n.q = [m.q EXCEPT ![r] = RemoveAt(q, i)]
    BY <1>4, <1>7, <1>12, <2>4
  <2>7. Took(m, n, p, k)
    BY <2>1, <2>2, <2>4, <2>5, <2>6 DEF Took
  <2> QED
    BY <1>4, <1>7, <1>9, <1>10, <1>11, <1>12, <2>7 DEF Sent, n
<1>13. CASE p.type \notin {"READ", "WRITE"}
  BY <1>4, <1>7, <1>9, <1>10, <1>11, <1>13 DEF Sent, n
<1> QED
  BY <1>12, <1>13

-----------------------------------------------------------------------------
(* The two tables.                                                         *)

\* The rank's table once the command on the bus has reached it.
Pending(m, r, b) == IF m.cmd # NoPacket /\ r = m.cmd.rank THEN DevAfter(m.dev[r][b], m.cmd, b)
                    ELSE m.dev[r][b]
Tabled(m) ==
    /\ m.dev = [r \in Ranks |-> m.dev[r]]
    /\ m.cmd # NoPacket => IsCommand(m.cmd) /\ m.cmdLeft = 1 /\ ~Refused(m, m.cmd)
    /\ \A r \in Ranks, b \in Banks :
         /\ CtrlBank(m.bank[r][b]) /\ DevBank(m.dev[r][b])
         /\ DevBank(Pending(m, r, b)) /\ Behind(m.bank[r][b], Pending(m, r, b))

TableParts == {"bank", "dev", "cmd", "cmdLeft"}

\* The relation of the tables depends on them and the command bus alone.
LEMMA TabledSame ==
    ASSUME NEW m, NEW n, Tabled(m), \A f \in TableParts : n[f] = m[f]
    PROVE  Tabled(n)
<1>1. n.bank = m.bank /\ n.dev = m.dev /\ n.cmd = m.cmd /\ n.cmdLeft = m.cmdLeft
  BY DEF TableParts
<1>2. \A r, b : Pending(n, r, b) = Pending(m, r, b)
  BY <1>1 DEF Pending
<1>3. Refused(n, n.cmd) <=> Refused(m, m.cmd)
  BY <1>1 DEF Refused
<1> QED
  BY <1>1, <1>2, <1>3 DEF Tabled

\* updateBankState opens no bank and shortens no delay.
LEMMA BankTickIs ==
    ASSUME NEW k, NEW d, CtrlBank(k), DevBank(d), Behind(k, d)
    PROVE  /\ CtrlBank(BankTick(k)) /\ Behind(BankTick(k), d)
           /\ BankTick(k).wr = k.wr /\ (BankTick(k).st = "RowActive" => k.st = "RowActive")
<1> DEFINE n == BankTick(k)
<1>1. IsBank(k) /\ k.cnt \in Int /\ k.st \in CtrlStates
  BY DEF CtrlBank
<1>2. /\ IsBank(n) /\ n.row = k.row /\ n.rd = k.rd /\ n.wr = k.wr /\ n.act = k.act /\ n.pre = k.pre
      /\ n.cnt = (IF k.cnt > 0 THEN k.cnt - 1 ELSE 0)
      /\ n.st = (IF k.cnt = 1 /\ k.st \in {"Precharging", "Refreshing"} THEN "Idle" ELSE k.st)
  BY <1>1 DEF BankTick, IsBank, BankFields
<1> HIDE DEF n
<1>3. n.cnt \in Int /\ n.st \in CtrlStates /\ ((n.st = "RowActive") <=> (k.st = "RowActive"))
  BY <1>1, <1>2 DEF CtrlStates
<1>4. CtrlBank(n)
  BY <1>2, <1>3 DEF CtrlBank
<1>5. Behind(n, d)
  BY <1>2, <1>3 DEF Behind
<1> QED
  BY <1>2, <1>3, <1>4, <1>5 DEF n

\* updateBankState keeps the relation of the tables.
LEMMA TickTabled ==
    ASSUME NEW m, NEW n, Tabled(m), Same(m, n, {"bank"}),
           n.bank = [r \in Ranks |-> [b \in Banks |-> BankTick(m.bank[r][b])]]
    PROVE  Tabled(n)
<1>1. n.dev = m.dev /\ n.cmd = m.cmd /\ n.cmdLeft = m.cmdLeft
  BY DEF Same, MemFields
<1>2. \A r, b : Pending(n, r, b) = Pending(m, r, b)
  BY <1>1 DEF Pending
<1>3. Refused(n, n.cmd) <=> Refused(m, m.cmd)
  BY <1>1 DEF Refused
<1>4. ASSUME NEW r \in Ranks, NEW b \in Banks
      PROVE  CtrlBank(n.bank[r][b]) /\ Behind(n.bank[r][b], Pending(m, r, b))
  <2>1. CtrlBank(m.bank[r][b]) /\ DevBank(Pending(m, r, b)) /\ Behind(m.bank[r][b], Pending(m, r, b))
    BY DEF Tabled
  <2>2. n.bank[r][b] = BankTick(m.bank[r][b])
    OBVIOUS
  <2> QED
    BY <2>1, <2>2, BankTickIs
<1> QED
  BY <1>1, <1>2, <1>3, <1>4 DEF Tabled

\* The command reaches its rank, which allows it.
LEMMA CommandTabled ==
    ASSUME NEW m, IsMem(m), Tabled(m), m.rdata = [r \in Ranks |-> m.rdata[r]], m.panic = FALSE
    PROVE  LET n == CommandBus(m)
           IN  /\ Tabled(n) /\ n.cmd = NoPacket /\ n.panic = FALSE
               /\ Same(m, n, {"cmd", "cmdLeft", "dev", "rdata", "panic"})
               /\ n.rdata = (IF m.cmd = NoPacket THEN m.rdata ELSE Fetched(m, m.cmd))
<1> DEFINE n == CommandBus(m)
           p == m.cmd
<1>1. CASE p = NoPacket
  <2>1. n = m
    BY <1>1, NoCommandFields
  <2> QED
    BY <1>1, <2>1 DEF Same
<1>2. CASE p # NoPacket
  <2>1. IsCommand(p) /\ p.rank \in Ranks /\ m.cmdLeft = 1 /\ ~Refused(m, p)
        /\ m.dev = [r \in Ranks |-> m.dev[r]]
    BY <1>2 DEF Tabled, IsCommand
  <2>2. /\ Same(m, n, {"cmd", "cmdLeft", "dev", "rdata", "panic"}) /\ n.cmd = NoPacket
        /\ \A r \in Ranks, b \in Banks :
             n.dev[r][b] = IF r = p.rank THEN DevAfter(m.dev[r][b], p, b) ELSE m.dev[r][b]
        /\ n.panic = (m.panic \/ Refused(m, p)) /\ n.rdata = Fetched(m, p)
        /\ n.dev = [r \in Ranks |-> n.dev[r]]
    <3>1. m.panic \in BOOLEAN
      OBVIOUS
    <3> QED
      BY <1>2, <2>1, <3>1, CommandFields
  <2> HIDE DEF n
  <2>3. n.bank = m.bank
    BY <2>2 DEF Same, MemFields
  <2>4. \A r \in Ranks, b \in Banks : n.dev[r][b] = Pending(m, r, b)
    BY <1>2, <2>2 DEF Pending
  <2>5. \A r \in Ranks, b \in Banks : Pending(n, r, b) = Pending(m, r, b)
    BY <2>2, <2>4 DEF Pending
  <2>6. Tabled(n)
    BY <2>2, <2>3, <2>4, <2>5 DEF Tabled
  <2> QED
    BY <1>2, <2>1, <2>2, <2>6 DEF n
<1> QED
  BY <1>1, <1>2

\* What the controller may send, the rank allows one cycle later.
LEMMA NotRefused ==
    ASSUME NEW m, NEW n, NEW p, Tabled(m), m.cmd = NoPacket, Sendable(m, p),
           \A r \in Ranks, b \in Banks : n.dev[r][b] = Aged(m.dev[r][b])
    PROVE  ~Refused(n, p)
<1> SUFFICES ASSUME ~Reserved(p.row) PROVE ~Refused(n, p)
  BY DEF Refused
<1>1. IsCommand(p) /\ p.rank \in Ranks /\ p.bank \in Banks /\ Issuable(m, p)
  BY DEF Sendable, IsCommand
<1>2. ASSUME NEW b \in Banks
      PROVE  LET k == m.bank[p.rank][b]
                 d == m.dev[p.rank][b]
                 e == n.dev[p.rank][b]
             IN  /\ k.st \in CtrlStates /\ k.rd \in Nat /\ k.wr \in Nat /\ k.act \in Nat /\ k.pre \in Nat
                 /\ ((d.st = "RowActive") <=> (k.st = "RowActive" /\ ~Reserved(k.row)))
                 /\ d.st \in {"Idle", "RowActive"}
                 /\ (d.st = "RowActive" => d.row = k.row) /\ e.st = d.st /\ e.row = d.row
                 /\ e.rd \in Nat /\ e.wr \in Nat /\ e.act \in Nat /\ e.pre \in Nat
                 /\ e.rd <= k.rd /\ e.wr <= k.wr /\ e.act <= k.act /\ e.pre <= k.pre
  <2> DEFINE k == m.bank[p.rank][b]
             d == m.dev[p.rank][b]
             e == n.dev[p.rank][b]
  <2>1. CtrlBank(k) /\ DevBank(d) /\ Behind(k, d)
    BY <1>1 DEF Tabled, Pending
  <2>2. e = Aged(d)
    BY <1>1
  <2> HIDE DEF k, d, e
  <2>3. /\ k.rd \in Nat /\ k.wr \in Nat /\ k.act \in Nat /\ k.pre \in Nat
        /\ k.st \in CtrlStates /\ IsBank(d) /\ d.st \in {"Idle", "RowActive"}
        /\ ((d.st = "RowActive") <=> (k.st = "RowActive" /\ ~Reserved(k.row)))
        /\ (d.st = "RowActive" => d.row = k.row)
    BY <2>1, BankNumbers
  <2>4. e.st = d.st /\ e.row = d.row
    BY <2>2, <2>3, AgedIs
  <2>5. /\ e.rd \in Nat /\ e.wr \in Nat /\ e.act \in Nat /\ e.pre \in Nat
        /\ e.rd <= k.rd /\ e.wr <= k.wr /\ e.act <= k.act /\ e.pre <= k.pre
    BY <2>1, <2>2, AgedBehind
  <2> QED
    BY <2>3, <2>4, <2>5 DEF k, d, e
<1> DEFINE k == m.bank[p.rank][p.bank]
           d == m.dev[p.rank][p.bank]
           e == n.dev[p.rank][p.bank]
<1>3. /\ k.st \in CtrlStates /\ k.rd \in Nat /\ k.wr \in Nat /\ k.act \in Nat /\ k.pre \in Nat
      /\ ((d.st = "RowActive") <=> (k.st = "RowActive" /\ ~Reserved(k.row)))
      /\ d.st \in {"Idle", "RowActive"}
      /\ (d.st = "RowActive" => d.row = k.row) /\ e.st = d.st /\ e.row = d.row
      /\ e.rd \in Nat /\ e.wr \in Nat /\ e.act \in Nat /\ e.pre \in Nat
      /\ e.rd <= k.rd /\ e.wr <= k.wr /\ e.act <= k.act /\ e.pre <= k.pre
  BY <1>1, <1>2
<1>4. CASE p.type = "REF"
  <2>1. \A b \in Banks : m.bank[p.rank][b].st # "RowActive"
    BY <1>4 DEF Sendable
  <2>2. \A b \in Banks : n.dev[p.rank][b].st = "Idle"
    BY <1>2, <2>1
  <2> QED
    BY <1>4, <2>2 DEF Refused
<1>5. CASE p.type = "READ"
  <2>1. k.st = "RowActive" /\ k.rd = 0 /\ k.row = p.row
    BY <1>1, <1>5 DEF Issuable
  <2> HIDE DEF k, d, e
  <2>2. e.st = "RowActive" /\ e.rd = 0 /\ e.row = p.row
    BY <1>3, <2>1
  <2> QED
    BY <1>5, <2>2 DEF Refused, Allowed, e
<1>6. CASE p.type = "WRITE"
  <2>1. k.st = "RowActive" /\ k.wr = 0 /\ k.row = p.row
    BY <1>1, <1>6 DEF Issuable
  <2> HIDE DEF k, d, e
  <2>2. e.st = "RowActive" /\ e.wr = 0 /\ e.row = p.row
    BY <1>3, <2>1
  <2> QED
    BY <1>6, <2>2 DEF Refused, Allowed, e
<1>7. CASE p.type = "ACT"
  <2>1. k.st \in {"Idle", "Refreshing"} /\ k.act = 0
    BY <1>1, <1>7 DEF Issuable
  <2> HIDE DEF k, d, e
  <2>2. e.st = "Idle" /\ e.act = 0
    BY <1>3, <2>1
  <2> QED
    BY <1>7, <2>2 DEF Refused, Allowed, e
<1>8. CASE p.type = "PRE"
  <2>1. k.st = "RowActive" /\ k.pre = 0 /\ k.row = p.row
    BY <1>1, <1>8 DEF Issuable, Sendable
  <2> HIDE DEF k, d, e
  <2>2. e.st = "RowActive" /\ e.pre = 0
    BY <1>3, <2>1
  <2> QED
    BY <1>8, <2>2 DEF Refused, Allowed, e
<1> QED
  BY <1>1, <1>4, <1>5, <1>6, <1>7, <1>8 DEF IsCommand

\* A table of the controller stays one.
LEMMA AgedCtrl == ASSUME NEW k, CtrlBank(k) PROVE CtrlBank(Aged(k))
<1> DEFINE a == Aged(k)
<1>1. /\ IsBank(k) /\ k.st \in CtrlStates /\ k.row \in Nat /\ k.cnt \in Int
      /\ k.rd \in Int /\ k.wr \in Int /\ k.act \in Int /\ k.pre \in Int
  BY DEF CtrlBank
<1>2. /\ IsBank(a) /\ a.st = k.st /\ a.row = k.row /\ a.cnt = k.cnt
      /\ a.rd = Less(k.rd) /\ a.wr = Less(k.wr) /\ a.act = Less(k.act) /\ a.pre = Less(k.pre)
  BY <1>1, AgedIs
<1>3. a.rd \in Nat /\ a.wr \in Nat /\ a.act \in Nat /\ a.pre \in Nat
  BY <1>1, <1>2, LessIs
<1> HIDE DEF a
<1>4. CtrlBank(a)
  BY <1>1, <1>2, <1>3 DEF CtrlBank
<1> QED
  BY <1>4 DEF a

Aging(m, n) ==
    /\ Same(m, n, {"due", "bank", "dev"})
    /\ n.bank = [r \in Ranks |-> [b \in Banks |-> Aged(m.bank[r][b])]]
    /\ n.dev = [r \in Ranks |-> [b \in Banks |-> Aged(m.dev[r][b])]]

\* A cycle in which no command is sent.
LEMMA IdleTabled ==
    ASSUME NEW m, NEW n, Tabled(m), m.cmd = NoPacket, Aging(m, n)
    PROVE  Tabled(n)
<1>1. n.cmd = NoPacket
  BY DEF Aging, Same, MemFields
<1>2. n.dev = [r \in Ranks |-> n.dev[r]]
  BY DEF Aging
<1>3. ASSUME NEW r \in Ranks, NEW b \in Banks
      PROVE  /\ CtrlBank(n.bank[r][b]) /\ DevBank(n.dev[r][b])
             /\ DevBank(Pending(n, r, b)) /\ Behind(n.bank[r][b], Pending(n, r, b))
  <2> DEFINE k == m.bank[r][b]
             d == m.dev[r][b]
  <2>1. CtrlBank(k) /\ DevBank(d) /\ Behind(k, d)
    BY DEF Tabled, Pending
  <2>2. CtrlBank(Aged(k)) /\ DevBank(Aged(d)) /\ Behind(Aged(k), Aged(d))
    BY <2>1, AgedBehind
  <2>3. n.bank[r][b] = Aged(k) /\ n.dev[r][b] = Aged(d)
    BY DEF Aging
  <2>4. Pending(n, r, b) = n.dev[r][b]
    BY <1>1 DEF Pending
  <2> QED
    BY <2>2, <2>3, <2>4
<1> QED
  BY <1>1, <1>2, <1>3 DEF Tabled

\* ... and one in which p is.
LEMMA SentFollows ==
    ASSUME DeviceTimes, NEW m, NEW x, NEW p, Tabled(m), m.cmd = NoPacket,
           Sendable(m, p), Sent(m, x, p), NEW r \in Ranks, NEW b \in Banks
    PROVE  Followed(m.bank[r][b], x.bank[r][b], After(m.dev[r][b], p, r, b), p)
<1>1. CtrlBank(m.bank[r][b]) /\ DevBank(m.dev[r][b]) /\ Behind(m.bank[r][b], m.dev[r][b])
  BY DEF Tabled, Pending
<1>2. /\ IsCommand(p) /\ (p.type = "REF" /\ r = p.rank => m.bank[r][b].st # "RowActive")
      /\ p.type = "REF" => ~Reserved(p.row)
      /\ p.type = "PRE" /\ r = p.rank /\ b = p.bank => p.row = m.bank[r][b].row
  BY DEF Sendable
<1>4. p.type = "ACT" /\ r = p.rank /\ b = p.bank => m.bank[r][b].st # "RowActive"
  BY DEF Sendable, Issuable
<1>3. x.bank[r][b] = AfterCommand(m, p, r, b)
  BY DEF Sent
<1> QED
  BY <1>1, <1>2, <1>3, <1>4, CommandFollows

\* The tables after a cycle in which p was sent.
LEMMA SentTabled ==
    ASSUME DeviceTimes, NEW m, NEW x, NEW n, NEW p, Tabled(m), m.cmd = NoPacket,
           Sendable(m, p), Sent(m, x, p), Aging(x, n)
    PROVE  Tabled(n)
<1>1. IsCommand(p) /\ x.cmd = p /\ x.cmdLeft = 1 /\ x.dev = m.dev
  BY DEF Sendable, Sent, Same, SentParts, Pointers, MemFields, DeviceTimes
<1>2. n.cmd = p /\ n.cmdLeft = 1
  BY <1>1 DEF Aging, Same, MemFields
<1>3. n.dev = [r \in Ranks |-> n.dev[r]]
  BY DEF Aging
<1>4. \A r \in Ranks, b \in Banks :
        n.bank[r][b] = Aged(x.bank[r][b]) /\ n.dev[r][b] = Aged(m.dev[r][b])
  BY <1>1 DEF Aging
<1>5. ~Refused(n, p)
  BY <1>4, NotRefused
<1>6. p # NoPacket
  BY <1>1 DEF IsCommand, NoPacket
<1>7. ASSUME NEW r \in Ranks, NEW b \in Banks
      PROVE  /\ CtrlBank(n.bank[r][b]) /\ DevBank(n.dev[r][b])
             /\ DevBank(Pending(n, r, b)) /\ Behind(n.bank[r][b], Pending(n, r, b))
  <2> DEFINE k == x.bank[r][b]
             d == m.dev[r][b]
             e == After(d, p, r, b)
  <2>1. Followed(m.bank[r][b], k, e, p)
    BY SentFollows
  <2>2. CtrlBank(k) /\ DevBank(e) /\ Behind(Aged(k), e)
    BY <2>1 DEF Followed
  <2>3. CtrlBank(m.bank[r][b]) /\ DevBank(d) /\ Behind(m.bank[r][b], d)
    BY DEF Tabled, Pending
  <2>4. DevBank(Aged(d))
    BY <2>3, AgedBehind
  <2>5. CtrlBank(Aged(k))
    BY <2>2, AgedCtrl
  <2>6. Pending(n, r, b) = e
    BY <1>2, <1>4, <1>6 DEF Pending, After
  <2> QED
    BY <1>4, <2>2, <2>4, <2>5, <2>6
<1> QED
  BY <1>1, <1>2, <1>3, <1>5, <1>7 DEF Tabled

-----------------------------------------------------------------------------
(* The data bus.                                                           *)

\* The data of the writes reach the bus one after the other, in the order of
\* their commands; x is 1 between the cycles and 0 when Pop is called.
Spaced(m, x) ==
    /\ m.wdata \in Timed /\ m.data \in Ids \cup {0} /\ m.dataLeft \in Int
    /\ m.data # 0 => m.dataLeft \in 1 .. T.half
    /\ \A i \in DOMAIN m.wdata : /\ 1 <= m.wdata[i][2] /\ m.wdata[i][2] < T.WL + x
                                 /\ m.data # 0 => m.dataLeft <= m.wdata[i][2]
    /\ \A i, j \in DOMAIN m.wdata : i < j => m.wdata[i][2] + T.half <= m.wdata[j][2]
\* A bank cannot be written before the bus is free for the data.
Awaited(m, wr, x) ==
    /\ \A i \in DOMAIN m.wdata : m.wdata[i][2] + T.half <= T.WL + wr + x
    /\ m.data # 0 => m.dataLeft <= T.WL + wr + x
BusOK(m, x) ==
    /\ Spaced(m, x)
    /\ \A r \in Ranks, b \in Banks :
         m.bank[r][b].st = "RowActive" => Awaited(m, m.bank[r][b].wr, x)

BusParts == {"wdata", "data", "dataLeft", "bank"}

\* The data bus and the open banks alone decide.
LEMMA BusSame ==
    ASSUME NEW m, NEW n, NEW x, BusOK(m, x), \A f \in BusParts : n[f] = m[f]
    PROVE  BusOK(n, x)
<1>1. n.wdata = m.wdata /\ n.data = m.data /\ n.dataLeft = m.dataLeft /\ n.bank = m.bank
  BY DEF BusParts
<1> QED
  BY <1>1 DEF BusOK, Spaced, Awaited

\* updateBankState leaves the data bus.
LEMMA TickBus ==
    ASSUME NEW m, NEW n, BusOK(m, 1), Tabled(m), Same(m, n, {"bank"}),
           n.bank = [r \in Ranks |-> [b \in Banks |-> BankTick(m.bank[r][b])]]
    PROVE  BusOK(n, 1)
<1>1. n.wdata = m.wdata /\ n.data = m.data /\ n.dataLeft = m.dataLeft
  BY DEF Same, MemFields
<1>2. ASSUME NEW r \in Ranks, NEW b \in Banks
      PROVE  /\ n.bank[r][b].wr = m.bank[r][b].wr
             /\ n.bank[r][b].st = "RowActive" => m.bank[r][b].st = "RowActive"
  <2> DEFINE k == m.bank[r][b]
             d == Pending(m, r, b)
  <2>1. CtrlBank(k) /\ DevBank(d) /\ Behind(k, d)
    BY DEF Tabled
  <2> HIDE DEF k, d
  <2>2. BankTick(k).wr = k.wr /\ (BankTick(k).st = "RowActive" => k.st = "RowActive")
    BY <2>1, BankTickIs
  <2>3. n.bank[r][b] = BankTick(k)
    BY DEF k
  <2> QED
    BY <2>2, <2>3 DEF k
<1> QED
  BY <1>1, <1>2 DEF BusOK, Spaced, Awaited

\* The data bus in one cycle.
LEMMA DataBusOK ==
    ASSUME NEW m, NEW n, BusOK(m, 1), Tabled(m), m.panic = FALSE,
           Filled(m, n, Lowered(m.wdata), IF WriteEnds(m) THEN 0 ELSE m.data)
    PROVE  BusOK(n, 0) /\ n.panic = FALSE
<1> DEFINE w == m.wdata
           wd == Lowered(w)
           enters == wd # <<>> /\ Head(wd)[2] = 0
           data == IF WriteEnds(m) THEN 0 ELSE m.data
           N == Len(w)
           left(i) == w[i][2]
           L == m.dataLeft
           WL == T.WL
           half == T.half
<1>1. /\ w \in Timed /\ m.data \in Ids \cup {0} /\ L \in Int
      /\ m.data # 0 => L \in 1 .. half
      /\ \A i \in DOMAIN w : 1 <= left(i) /\ left(i) < WL + 1 /\ (m.data # 0 => L <= left(i))
      /\ \A i, j \in DOMAIN w : i < j => left(i) + half <= left(j)
  BY DEF BusOK, Spaced
<1>2. /\ DOMAIN w = 1 .. N /\ N \in Nat
      /\ \A i \in DOMAIN w : w[i] = <<w[i][1], left(i)>> /\ w[i][1] \in Ids /\ left(i) \in Int
  BY <1>1, TimedIs
<1>3. /\ wd \in Timed /\ Len(wd) = N /\ DOMAIN wd = DOMAIN w
      /\ \A i \in DOMAIN w : wd[i] = <<w[i][1], left(i) - 1>>
  BY <1>1, LoweredIs
<1>4. WL \in Nat /\ half \in Nat \ {0}
  BY Delays, MemAssumption
<1>5. 0 \notin Ids
  BY IdsAre
<1>6. n.bank = m.bank
  BY DEF Filled, Same, MemFields
<1>7. \A r \in Ranks, b \in Banks : m.bank[r][b].st = "RowActive" =>
        /\ m.bank[r][b].wr \in Int
        /\ \A i \in DOMAIN w : left(i) + half <= WL + m.bank[r][b].wr + 1
        /\ m.data # 0 => L <= WL + m.bank[r][b].wr + 1
  BY DEF BusOK, Awaited, Tabled, CtrlBank
<1>8. /\ n.wdata = (IF enters THEN Tail(wd) ELSE wd)
      /\ n.data = (IF enters THEN Head(wd)[1] ELSE data)
      /\ n.dataLeft = (IF enters THEN half ELSE IF m.data = 0 THEN L
                       ELSE IF WriteEnds(m) THEN 0 ELSE L - 1)
      /\ n.panic = (m.panic \/ (enters /\ data # 0))
  BY DEF Filled
<1>9. WriteEnds(m) <=> m.data # 0 /\ L = 1
  BY DEF WriteEnds
<1> HIDE DEF wd, w, N, L, WL, half, left
<1>10. CASE enters
  <2> DEFINE rest == Tail(wd)
  <2>1. /\ rest \in Timed /\ Head(wd) = wd[1] /\ 1 \in DOMAIN wd
        /\ DOMAIN rest = 1 .. N - 1 /\ \A i \in 1 .. N - 1 : rest[i] = wd[i + 1]
    BY <1>3, <1>10, TimedTail
  <2>2. left(1) = 1 /\ n.data = w[1][1] /\ n.data \in Ids /\ n.data # 0 /\ 1 \in DOMAIN w
    BY <1>2, <1>3, <1>5, <1>8, <1>10, <2>1
  <2>3. \A i \in 1 .. N - 1 : i + 1 \in DOMAIN w /\ rest[i][2] = left(i + 1) - 1
    BY <1>2, <1>3, <2>1
  <2>4. n.wdata = rest /\ n.dataLeft = half
    BY <1>8, <1>10
  <2> HIDE DEF rest
  <2>5. n.panic = FALSE
    <3>1. m.data # 0 => L <= 1 /\ L >= 1
      <4>1. m.data # 0 => L <= left(1) /\ L \in 1 .. half
        BY <1>1, <2>2
      <4> QED
        BY <1>4, <2>2, <4>1
    <3>2. m.data # 0 => WriteEnds(m)
      BY <1>1, <1>9, <3>1
    <3>3. data = 0
      BY <3>2
    <3> QED
      BY <1>8, <3>3
  <2>6. \A i \in 1 .. N - 1 : left(1) + half <= left(i + 1)
    BY <1>1, <1>2, <2>2, <2>3
  <2>7. Spaced(n, 0)
    <3>1. ASSUME NEW i \in 1 .. N - 1
          PROVE  1 <= rest[i][2] /\ rest[i][2] < WL + 0 /\ half <= rest[i][2]
      <4>1. /\ left(i + 1) \in Int /\ left(1) + half <= left(i + 1)
            /\ left(i + 1) < WL + 1 /\ rest[i][2] = left(i + 1) - 1
        BY <1>1, <1>2, <2>3, <2>6
      <4> QED
        BY <1>4, <2>2, <4>1
    <3>2. ASSUME NEW i \in 1 .. N - 1, NEW j \in 1 .. N - 1, i < j
          PROVE  rest[i][2] + half <= rest[j][2]
      <4>1. i + 1 \in DOMAIN w /\ j + 1 \in DOMAIN w /\ i + 1 < j + 1
        BY <2>3, <3>2
      <4>2. left(i + 1) + half <= left(j + 1)
        BY <1>1, <4>1
      <4>3. /\ left(i + 1) \in Int /\ left(j + 1) \in Int
            /\ rest[i][2] = left(i + 1) - 1 /\ rest[j][2] = left(j + 1) - 1
        BY <1>2, <2>3, <4>1
      <4> QED
        BY <1>4, <4>2, <4>3
    <3>3. n.dataLeft \in Int /\ n.dataLeft \in 1 .. half
      BY <1>4, <2>4
    <3> QED
      BY <2>1, <2>2, <2>4, <3>1, <3>2, <3>3 DEF Spaced, WL, half
  <2>8. ASSUME NEW r \in Ranks, NEW b \in Banks, n.bank[r][b].st = "RowActive"
        PROVE  Awaited(n, n.bank[r][b].wr, 0)
    <3> DEFINE wr == m.bank[r][b].wr
    <3>1. wr \in Int /\ \A i \in DOMAIN w : left(i) + half <= WL + wr + 1
      BY <1>6, <1>7, <2>8
    <3> HIDE DEF wr
    <3>2. \A i \in 1 .. N - 1 : rest[i][2] + half <= WL + wr + 0
      <4> TAKE i \in 1 .. N - 1
      <4>1. /\ left(i + 1) \in Int /\ left(i + 1) + half <= WL + wr + 1
            /\ rest[i][2] = left(i + 1) - 1
        BY <1>2, <2>3, <3>1
      <4> QED
        BY <1>4, <3>1, <4>1
    <3>3. half <= WL + wr + 0
      BY <1>4, <2>2, <3>1
    <3>4. n.bank[r][b].wr = wr
      BY <1>6 DEF wr
    <3> QED
      BY <2>1, <2>4, <3>2, <3>3, <3>4 DEF Awaited, WL, half
  <2> QED
    BY <2>5, <2>7, <2>8 DEF BusOK
<1>11. CASE ~enters
  <2>1. n.wdata = wd /\ n.data = data /\ n.panic = FALSE
        /\ n.dataLeft = (IF m.data = 0 THEN L ELSE IF WriteEnds(m) THEN 0 ELSE L - 1)
    BY <1>8, <1>11
  <2>2. \A i \in DOMAIN w : 2 <= left(i)
    <3> TAKE i \in DOMAIN w
    <3>1. 1 \in DOMAIN w /\ wd # <<>> /\ Head(wd) = wd[1]
      <4>1. N # 0 /\ 1 \in DOMAIN w
        BY <1>2
      <4>2. wd # <<>>
        BY <1>2, <1>3, <4>1
      <4> QED
        BY <1>3, <4>1, <4>2, TimedTail
    <3>2. left(1) # 1
      BY <1>2, <1>3, <1>11, <3>1
    <3>3. left(1) >= 2
      BY <1>1, <1>2, <3>1, <3>2
    <3>4. i = 1 \/ left(1) + half <= left(i)
      BY <1>1, <1>2, <3>1
    <3> QED
      BY <1>2, <1>4, <3>1, <3>3, <3>4
  <2>3. \A i \in DOMAIN w : wd[i][2] = left(i) - 1 /\ left(i) \in Int
    BY <1>2, <1>3
  <2>4. n.data # 0 => n.data = m.data /\ m.data # 0 /\ n.dataLeft = L - 1 /\ L - 1 \in 1 .. half
    <3>1. SUFFICES ASSUME n.data # 0 PROVE n.data = m.data /\ m.data # 0 /\ L # 1 /\ n.dataLeft = L - 1
      BY <1>1, <1>4
    <3> QED
      BY <1>9, <2>1, <3>1
  <2>5. n.data \in Ids \cup {0} /\ n.dataLeft \in Int
    BY <1>1, <2>1
  <2>6. Spaced(n, 0)
    <3>1. ASSUME NEW i \in DOMAIN wd
          PROVE  1 <= wd[i][2] /\ wd[i][2] < WL + 0 /\ (n.data # 0 => n.dataLeft <= wd[i][2])
      BY <1>1, <1>3, <1>4, <2>2, <2>3, <2>4
    <3>2. ASSUME NEW i \in DOMAIN wd, NEW j \in DOMAIN wd, i < j
          PROVE  wd[i][2] + half <= wd[j][2]
      <4>1. left(i) + half <= left(j)
        BY <1>1, <1>3, <3>2
      <4> QED
        BY <1>3, <1>4, <2>3, <4>1
    <3> QED
      BY <1>3, <2>1, <2>4, <2>5, <3>1, <3>2 DEF Spaced, WL, half
  <2>7. ASSUME NEW r \in Ranks, NEW b \in Banks, n.bank[r][b].st = "RowActive"
        PROVE  Awaited(n, n.bank[r][b].wr, 0)
    <3> DEFINE wr == m.bank[r][b].wr
    <3>1. wr \in Int /\ (\A i \in DOMAIN w : left(i) + half <= WL + wr + 1)
          /\ (m.data # 0 => L <= WL + wr + 1)
      BY <1>6, <1>7, <2>7
    <3> HIDE DEF wr
    <3>2. \A i \in DOMAIN wd : wd[i][2] + half <= WL + wr + 0
      BY <1>3, <1>4, <2>3, <3>1
    <3>3. n.data # 0 => n.dataLeft <= WL + wr + 0
      BY <1>1, <1>4, <2>4, <3>1
    <3>4. n.bank[r][b].wr = wr
      BY <1>6 DEF wr
    <3> QED
      BY <2>1, <3>2, <3>3, <3>4 DEF Awaited, WL, half
  <2> QED
    BY <2>1, <2>6, <2>7 DEF BusOK
<1> QED
  BY <1>10, <1>11

\* The latencies and the burst take time.
LEMMA PositiveTimes == T.WL \in Nat \ {0} /\ T.half \in Nat \ {0} /\ T.RL \in Nat \ {0}
<1>1. T.WL \in Nat /\ T.half \in Nat /\ T.RL \in Nat
  BY Delays
<1>2. T.WL > 0 /\ T.half > 0 /\ T.RL > 0
  BY MemAssumption
<1> QED
  BY <1>1, <1>2

\* What a bank waits for after a cycle, from before it.
LEMMA AwaitedAged ==
    ASSUME NEW m, NEW n, NEW k, CtrlBank(k), Spaced(m, 0), n.data = m.data,
           n.dataLeft = m.dataLeft, NEW w, w = n.wdata,
           \A i \in DOMAIN w : w[i][2] \in Int /\ w[i][2] + T.half <= T.WL + k.wr,
           m.data # 0 => m.dataLeft <= T.WL + k.wr
    PROVE  Awaited(n, Aged(k).wr, 1)
<1> DEFINE WL == T.WL
           half == T.half
           wr == k.wr
           a == Aged(k).wr
<1>1. wr \in Nat /\ a \in Nat /\ wr <= a + 1
  <2>1. k.wr \in Nat /\ IsBank(k)
    BY DEF CtrlBank
  <2>2. Aged(k).wr = Less(k.wr)
    BY <2>1, AgedIs
  <2> QED
    BY <2>1, <2>2, LessIs
<1>2. WL \in Nat /\ half \in Nat /\ m.dataLeft \in Int
  BY Delays DEF Spaced
<1>3. \A i \in DOMAIN w : w[i][2] \in Int /\ w[i][2] + half <= WL + wr
  OBVIOUS
<1>4. m.data # 0 => m.dataLeft <= WL + wr
  OBVIOUS
<1> HIDE DEF WL, half, wr, a
<1>5. \A i \in DOMAIN w : w[i][2] + half <= WL + a + 1
  <2> TAKE i \in DOMAIN w
  <2> DEFINE l == w[i][2]
  <2>1. l \in Int /\ l + half <= WL + wr
    BY <1>3
  <2> HIDE DEF l
  <2>2. l + half <= WL + a + 1
    BY <1>1, <1>2, <2>1
  <2> QED
    BY <2>2 DEF l
<1>6. m.data # 0 => m.dataLeft <= WL + a + 1
  BY <1>1, <1>2, <1>4
<1> QED
  BY <1>5, <1>6 DEF Awaited, WL, half, a

\* A cycle in which no command is sent.
LEMMA IdleBus ==
    ASSUME NEW m, NEW n, BusOK(m, 0), Table(m), Aging(m, n)
    PROVE  BusOK(n, 1)
<1>1. n.wdata = m.wdata /\ n.data = m.data /\ n.dataLeft = m.dataLeft
      /\ n.bank = [r \in Ranks |-> [b \in Banks |-> Aged(m.bank[r][b])]]
  BY DEF Aging, Same, MemFields
<1>2. Spaced(m, 0) /\ T.WL \in Nat
  BY Delays DEF BusOK
<1>3. \A i \in DOMAIN m.wdata : m.wdata[i][2] \in Int
  BY <1>2, TimedIs DEF Spaced
<1>4. Spaced(n, 1)
  <2>1. \A i \in DOMAIN n.wdata : n.wdata[i][2] < T.WL + 1
    BY <1>1, <1>2, <1>3 DEF Spaced
  <2> QED
    BY <1>1, <1>2, <2>1 DEF Spaced
<1>5. ASSUME NEW r \in Ranks, NEW b \in Banks, n.bank[r][b].st = "RowActive"
      PROVE  Awaited(n, n.bank[r][b].wr, 1)
  <2> DEFINE k == m.bank[r][b]
  <2>1. CtrlBank(k) /\ n.bank[r][b] = Aged(k)
    BY <1>1 DEF Table
  <2>2. k.st = "RowActive" => Awaited(m, k.wr, 0)
    BY DEF BusOK
  <2> HIDE DEF k
  <2>3. k.st = "RowActive" /\ k.wr \in Nat
    BY <1>5, <2>1, AgedIs DEF CtrlBank
  <2>4. /\ \A i \in DOMAIN n.wdata : n.wdata[i][2] \in Int /\ n.wdata[i][2] + T.half <= T.WL + k.wr
        /\ m.data # 0 => m.dataLeft <= T.WL + k.wr
    BY <1>1, <1>2, <1>3, <2>2, <2>3 DEF Awaited
  <2>5. Awaited(n, Aged(k).wr, 1)
    BY <1>1, <1>2, <2>1, <2>4, AwaitedAged
  <2> QED
    BY <2>1, <2>5
<1> QED
  BY <1>4, <1>5 DEF BusOK

\* ... and one in which p is.
LEMMA SentBus ==
    ASSUME DeviceTimes, NEW m, NEW x, NEW n, NEW p, Tabled(m), m.cmd = NoPacket, BusOK(m, 0),
           Sendable(m, p), Sent(m, x, p), Aging(x, n),
           p.type = "WRITE" => p.id \in Ids \ IdsOf(m.wdata)
    PROVE  BusOK(n, 1)
<1> DEFINE w == m.wdata
           v == n.wdata
           WL == T.WL
           half == T.half
<1>1. /\ n.wdata = x.wdata /\ n.data = m.data /\ n.dataLeft = m.dataLeft
      /\ n.bank = [r \in Ranks |-> [b \in Banks |-> Aged(x.bank[r][b])]]
      /\ x.wdata = (IF p.type = "WRITE" THEN Append(w, <<p.id, WL>>) ELSE w)
  BY DEF Aging, Same, MemFields, Sent, SentParts, Pointers
<1>2. /\ Spaced(m, 0) /\ WL \in Nat \ {0} /\ half \in Nat \ {0}
  <2>1. Spaced(m, 0)
    BY DEF BusOK
  <2>2. WL \in Nat \ {0} /\ half \in Nat \ {0}
    BY PositiveTimes
  <2> QED
    BY <2>1, <2>2
<1>3. /\ w \in Timed /\ m.data \in Ids \cup {0} /\ m.dataLeft \in Int
      /\ m.data # 0 => m.dataLeft \in 1 .. half
      /\ \A i \in DOMAIN w : 1 <= w[i][2] /\ w[i][2] < WL /\ (m.data # 0 => m.dataLeft <= w[i][2])
      /\ \A i, j \in DOMAIN w : i < j => w[i][2] + half <= w[j][2]
  <2>1. WL + 0 = WL
    BY <1>2
  <2> QED
    BY <1>2, <2>1 DEF Spaced
<1>4. DOMAIN w = 1 .. Len(w) /\ Len(w) \in Nat /\ \A i \in DOMAIN w : w[i][2] \in Int
  BY <1>3, TimedIs
<1>5. ASSUME p.type = "WRITE"
      PROVE  /\ \A i \in DOMAIN w : w[i][2] + half <= WL
             /\ m.data # 0 => m.dataLeft <= WL
  <2> DEFINE k == m.bank[p.rank][p.bank]
  <2>1. k.st = "RowActive" /\ k.wr = 0 /\ p.rank \in Ranks /\ p.bank \in Banks
    BY <1>5 DEF Sendable, Issuable, IsCommand
  <2>2. Awaited(m, 0, 0)
    BY <2>1 DEF BusOK
  <2>3. WL + 0 + 0 = WL
    BY <1>2
  <2> QED
    BY <2>2, <2>3 DEF Awaited
<1>6. ASSUME p.type = "WRITE"
      PROVE  /\ v \in Timed /\ DOMAIN v = 1 .. Len(w) + 1
             /\ \A i \in 1 .. Len(w) : v[i] = w[i]
             /\ v[Len(w) + 1] = <<p.id, WL>>
  BY <1>1, <1>2, <1>3, <1>6, TimedAppend
<1>7. p.type # "WRITE" => v = w
  BY <1>1
<1> HIDE DEF w, v, WL, half
<1>8. /\ v \in Timed
      /\ \A i \in DOMAIN v : /\ v[i][2] \in Int /\ 1 <= v[i][2] /\ v[i][2] < WL + 1
                             /\ (m.data # 0 => m.dataLeft <= v[i][2])
      /\ \A i, j \in DOMAIN v : i < j => v[i][2] + half <= v[j][2]
  <2>1. CASE p.type = "WRITE"
    <3>1. v[Len(w) + 1][2] = WL
      BY <1>6, <2>1
    <3>2. ASSUME NEW i \in DOMAIN v PROVE i = Len(w) + 1 \/ (i \in DOMAIN w /\ v[i] = w[i])
      BY <1>4, <1>6, <2>1
    <3>3. ASSUME NEW i \in DOMAIN v
          PROVE  /\ v[i][2] \in Int /\ 1 <= v[i][2] /\ v[i][2] < WL + 1
                 /\ (m.data # 0 => m.dataLeft <= v[i][2])
      BY <1>2, <1>3, <1>4, <1>5, <2>1, <3>1, <3>2
    <3>4. ASSUME NEW i \in DOMAIN v, NEW j \in DOMAIN v, i < j PROVE v[i][2] + half <= v[j][2]
      <4>1. i \in DOMAIN w /\ v[i] = w[i]
        BY <1>4, <1>6, <2>1, <3>4
      <4>2. CASE j = Len(w) + 1
        BY <1>5, <2>1, <3>1, <4>1, <4>2
      <4>3. CASE j # Len(w) + 1
        BY <1>3, <3>2, <3>4, <4>1, <4>3
      <4> QED
        BY <4>2, <4>3
    <3> QED
      BY <1>6, <2>1, <3>3, <3>4
  <2>2. CASE p.type # "WRITE"
    BY <1>2, <1>3, <1>4, <1>7, <2>2
  <2> QED
    BY <2>1, <2>2
<1>9. Spaced(n, 1)
  BY <1>1, <1>3, <1>8 DEF Spaced, v, WL, half
<1>10. ASSUME NEW r \in Ranks, NEW b \in Banks, n.bank[r][b].st = "RowActive"
       PROVE  Awaited(n, n.bank[r][b].wr, 1)
  <2> DEFINE k == m.bank[r][b]
             l == x.bank[r][b]
             wr == l.wr
  <2>1. Followed(k, l, After(m.dev[r][b], p, r, b), p) /\ CtrlBank(k)
    BY SentFollows DEF Tabled
  <2>2. n.bank[r][b] = Aged(l)
    BY <1>1
  <2>3. k.st = "RowActive" => Awaited(m, k.wr, 0)
    BY DEF BusOK
  <2> HIDE DEF k, l
  <2>4. /\ CtrlBank(l) /\ k.wr <= l.wr /\ k.wr \in Nat /\ l.wr \in Nat
        /\ l.st = "RowActive" => /\ k.st = "RowActive" \/ T.half - 1 <= l.wr
                                 /\ p.type = "WRITE" => T.half <= l.wr
    BY <2>1 DEF Followed, CtrlBank
  <2>5. l.st = "RowActive"
    BY <1>10, <2>2, <2>4, AgedIs DEF CtrlBank
  <2>6. wr \in Nat /\ (k.st = "RowActive" \/ half - 1 <= wr) /\ (p.type = "WRITE" => half <= wr)
    BY <2>4, <2>5 DEF half
  <2> HIDE DEF wr
  <2>7. /\ \A i \in DOMAIN w : w[i][2] + half <= WL + wr
        /\ m.data # 0 => m.dataLeft <= WL + wr
    <3>1. CASE k.st = "RowActive"
      <4>1. /\ \A i \in DOMAIN w : w[i][2] + half <= WL + k.wr + 0
            /\ m.data # 0 => m.dataLeft <= WL + k.wr + 0
        BY <2>3, <3>1 DEF Awaited, w, half, WL
      <4>2. k.wr \in Nat /\ k.wr <= wr
        BY <2>4 DEF wr
      <4> QED
        BY <1>2, <1>3, <1>4, <2>6, <4>1, <4>2
    <3>2. CASE half - 1 <= wr
      <4>1. ASSUME NEW i \in DOMAIN w PROVE w[i][2] + half <= WL + wr
        <5>1. w[i][2] \in Int /\ w[i][2] < WL
          BY <1>3, <1>4
        <5> QED
          BY <1>2, <2>6, <3>2, <5>1
      <4>2. m.data # 0 => m.dataLeft <= WL + wr
        <5>1. m.data # 0 => m.dataLeft <= half /\ m.dataLeft \in Int
          BY <1>2, <1>3
        <5> QED
          BY <1>2, <2>6, <3>2, <5>1
      <4> QED
        BY <4>1, <4>2
    <3> QED
      BY <2>6, <3>1, <3>2
  <2>8. \A i \in DOMAIN v : v[i][2] \in Int /\ v[i][2] + half <= WL + wr
    <3> TAKE i \in DOMAIN v
    <3>1. v[i][2] \in Int
      BY <1>8
    <3>2. CASE p.type = "WRITE"
      <4>1. i \in 1 .. Len(w) \/ i = Len(w) + 1
        BY <1>4, <1>6, <3>2
      <4>2. CASE i \in 1 .. Len(w)
        BY <1>4, <1>6, <2>7, <3>1, <3>2, <4>2
      <4>3. CASE i = Len(w) + 1
        <5>1. v[i][2] = WL
          BY <1>6, <3>2, <4>3
        <5> QED
          BY <1>2, <2>6, <3>1, <3>2, <5>1
      <4> QED
        BY <4>1, <4>2, <4>3
    <3>3. CASE p.type # "WRITE"
      BY <1>7, <2>7, <3>1, <3>3
    <3> QED
      BY <3>2, <3>3
  <2>9. Awaited(n, Aged(l).wr, 1)
    BY <1>1, <1>2, <2>4, <2>7, <2>8, AwaitedAged DEF v, half, WL, wr
  <2> QED
    BY <2>2, <2>9
<1> QED
  BY <1>9, <1>10 DEF BusOK

-----------------------------------------------------------------------------
(* The ranks.                                                              *)

\* The first entry of a line is a request.
LEMMA IdsOfNone == ASSUME NEW s \in Timed, s # <<>> PROVE Head(s)[1] # 0 /\ Head(s)[1] \in IdsOf(s)
<1>1. Head(s)[1] \in IdsOf(s) /\ Head(s)[1] \in Ids
  BY TimedTail
<1> QED
  BY <1>1, IdsAre

\* What rank r does to the data of its own reads.
Moved(m, n, r) ==
    /\ Same(m, n, RankParts) /\ WayType(n)
    /\ \A s \in Ranks \ {r} : Fetching(n, s) = Fetching(m, s) /\ Leaving(n, s) = Leaving(m, s)
    /\ Fetching(n, r) \cup Leaving(n, r) \subseteq Fetching(m, r) \cup Leaving(m, r)
    /\ Fetching(n, r) \cap Leaving(n, r) = {}
    /\ ToSet(n.ret) \subseteq ToSet(m.ret) \cup Leaving(m, r)
    /\ ToSet(n.ret) \cap (Fetching(n, r) \cup Leaving(n, r)) = {}

\* Rank::update moves the data of the rank as Moved says.
LEMMA RankMoves ==
    ASSUME NEW m, IsMem(m), Way(m), NEW r \in Ranks
    PROVE  Moved(m, RankUpdate(m, r), r)
<1> DEFINE n == RankUpdate(m, r)
           o == m.out[r]
           rd == Lowered(m.rdata[r])
           ends == o # 0 /\ m.outLeft[r] = 1
           go == rd # <<>> /\ Head(rd)[2] = 0
           F == Fetching(m, r)
           L == Leaving(m, r)
<1>1. /\ Same(m, n, RankParts)
      /\ n.ret = (IF ends THEN Append(m.ret, o) ELSE m.ret)
      /\ n.out = [m.out EXCEPT ![r] = IF go THEN Head(rd)[1] ELSE IF ends THEN 0 ELSE @]
      /\ n.rdata = [m.rdata EXCEPT ![r] = IF go THEN Tail(rd) ELSE rd]
      /\ n.outLeft = [s \in Ranks |-> n.outLeft[s]]
      /\ \A s \in Ranks : n.outLeft[s] \in Int
  BY RankFields DEF Way
<1>2. /\ m.rdata = [s \in Ranks |-> m.rdata[s]] /\ m.out = [s \in Ranks |-> m.out[s]]
      /\ \A s \in Ranks : m.rdata[s] \in Timed /\ m.out[s] \in Ids \cup {0}
      /\ m.ret \in Distinct(Ids) /\ o \in Ids \cup {0} /\ m.rdata[r] \in Timed
  BY DEF Way, WayType
<1>3. F \cap L = {} /\ ToSet(m.ret) \cap (F \cup L) = {} /\ L = {o} \ {0} /\ 0 \notin Ids
  BY IdsAre DEF Way, Leaving
<1>4. rd \in Timed /\ IdsOf(rd) = F
  BY <1>2, LoweredIs DEF Fetching
<1>5. ASSUME go
      PROVE  /\ Tail(rd) \in Timed /\ IdsOf(Tail(rd)) = F \ {Head(rd)[1]}
             /\ Head(rd)[1] \in F /\ Head(rd)[1] \in Ids /\ Head(rd)[1] # 0
  BY <1>3, <1>4, <1>5, TimedTail
<1> HIDE DEF n, rd, go
<1> DEFINE rd2 == IF go THEN Tail(rd) ELSE rd
           o2 == IF go THEN Head(rd)[1] ELSE IF ends THEN 0 ELSE o
<1>6. /\ rd2 \in Timed /\ o2 \in Ids \cup {0}
      /\ IdsOf(rd2) \cup ({o2} \ {0}) \subseteq F \cup L /\ IdsOf(rd2) \cap ({o2} \ {0}) = {}
      /\ ends => o \notin IdsOf(rd2) \cup ({o2} \ {0}) /\ o \in L
      /\ IdsOf(rd2) \subseteq F /\ {o2} \ {0} \subseteq F \cup L
  BY <1>2, <1>3, <1>4, <1>5
<1>7. /\ n.out = [m.out EXCEPT ![r] = o2] /\ n.rdata = [m.rdata EXCEPT ![r] = rd2]
  BY <1>1
<1> HIDE DEF rd2, o2
<1>8. /\ n.out[r] = o2 /\ n.rdata[r] = rd2
      /\ \A s \in Ranks \ {r} : n.out[s] = m.out[s] /\ n.rdata[s] = m.rdata[s]
      /\ n.out = [s \in Ranks |-> n.out[s]] /\ n.rdata = [s \in Ranks |-> n.rdata[s]]
  BY <1>2, <1>7
<1>9. /\ n.ret \in Distinct(Ids) /\ ToSet(n.ret) \subseteq ToSet(m.ret) \cup L
      /\ ToSet(n.ret) \cap (IdsOf(rd2) \cup ({o2} \ {0})) = {}
  <2>1. CASE ends
    <3>1. o \in Ids /\ o \notin ToSet(m.ret) /\ o \in L
      BY <1>2, <1>3, <1>6, <2>1
    <3> HIDE DEF o
    <3>2. Append(m.ret, o) \in Distinct(Ids) /\ ToSet(Append(m.ret, o)) = ToSet(m.ret) \cup {o}
      BY <1>2, <3>1, DistinctAppend
    <3>3. n.ret = Append(m.ret, o)
      BY <1>1, <2>1
    <3> QED
      BY <1>3, <1>6, <2>1, <3>1, <3>2, <3>3
  <2>2. CASE ~ends
    <3>1. n.ret = m.ret
      BY <1>1, <2>2
    <3> QED
      BY <1>2, <1>3, <1>6, <3>1
  <2> QED
    BY <2>1, <2>2
<1>10. Fetching(n, r) = IdsOf(rd2) /\ Leaving(n, r) = {o2} \ {0}
       /\ \A s \in Ranks \ {r} : Fetching(n, s) = Fetching(m, s) /\ Leaving(n, s) = Leaving(m, s)
  BY <1>8 DEF Fetching, Leaving
<1>11. WayType(n)
  <2>1. \A s \in Ranks : n.rdata[s] \in Timed /\ n.out[s] \in Ids \cup {0}
    BY <1>2, <1>6, <1>8
  <2> QED
    BY <1>1, <1>8, <1>9, <2>1 DEF WayType
<1>12. Moved(m, n, r)
  BY <1>1, <1>6, <1>9, <1>10, <1>11 DEF Moved
<1> QED
  BY <1>12 DEF n

\* That keeps every datum in one place.
LEMMA MovedWay ==
    ASSUME NEW m, NEW n, Queues(m), Way(m), NEW r \in Ranks, Moved(m, n, r)
    PROVE  Way(n) /\ Under(n) \subseteq Under(m)
<1> DEFINE F(s) == Fetching(m, s)
           L(s) == Leaving(m, s)
           Q(s) == ToSet(m.q[s])
           F2(s) == Fetching(n, s)
           L2(s) == Leaving(n, s)
           R == ToSet(m.ret)
           R2 == ToSet(n.ret)
           C == Reading(m)
<1>1. n.q = m.q /\ n.cmd = m.cmd
  BY DEF Moved, Same, MemFields, RankParts
<1>2. Reading(n) = C /\ \A s \in Ranks : ToSet(n.q[s]) = Q(s) /\ QueuedReads(n, s) = QueuedReads(m, s)
  BY <1>1 DEF Reading, QueuedReads
<1>3. /\ \A s \in Ranks \ {r} : F2(s) = F(s) /\ L2(s) = L(s)
      /\ F2(r) \cup L2(r) \subseteq F(r) \cup L(r) /\ F2(r) \cap L2(r) = {}
      /\ R2 \subseteq R \cup L(r) /\ R2 \cap (F2(r) \cup L2(r)) = {}
  BY DEF Moved
<1>4. /\ R \subseteq AllReads /\ R \cap C = {}
      /\ \A s \in Ranks : /\ F(s) \cup L(s) \subseteq ReadsOf(s) /\ F(s) \cap L(s) = {}
                          /\ (F(s) \cup L(s)) \cap (R \cup C \cup Q(s)) = {}
                          /\ Q(s) \cap (R \cup C) = {}
  BY DEF Way
<1>5. \A s \in Ranks \ {r} : ReadsOf(s) \cap ReadsOf(r) = {} /\ Q(s) \cap ReadsOf(r) = {}
  <2> TAKE s \in Ranks \ {r}
  <2>1. ReadsOf(s) \cap ReadsOf(r) = {}
    BY DEF ReadsOf
  <2>2. ASSUME NEW x \in Q(s) PROVE x \notin ReadsOf(r)
    <3>1. m.q[s] \in Seq(Ids)
      BY DEF Queues
    <3>2. PICK i \in DOMAIN m.q[s] : m.q[s][i] = x
      BY <2>2 DEF ToSet
    <3>3. Requests[x].rank = s
      BY <3>2 DEF Queues
    <3> QED
      BY <3>3 DEF ReadsOf
  <2> QED
    BY <2>1, <2>2
<1>6. ReadsOf(r) \subseteq AllReads
  BY DEF ReadsOf
<1>7. Under(n) \subseteq Under(m)
  <2>1. ASSUME NEW s \in Ranks
        PROVE  F2(s) \cup L2(s) \subseteq F(s) \cup L(s)
    BY <1>3
  <2>2. R2 \cup Reading(n) \subseteq Under(m)
    BY <1>2, <1>3 DEF Under
  <2>3. ASSUME NEW s \in Ranks
        PROVE  F2(s) \cup L2(s) \cup QueuedReads(n, s) \subseteq Under(m)
    BY <1>2, <2>1 DEF Under
  <2> QED
    BY <2>2, <2>3 DEF Under
<1>8. WayType(n) /\ (n.cmd.type = "READ" => n.cmd.id \in ReadsOf(n.cmd.rank))
  BY <1>1 DEF Way, Moved
<1> HIDE DEF F, L, Q, F2, L2, R, R2, C
<1>9. R2 \subseteq AllReads /\ R2 \cap C = {}
  BY <1>3, <1>4, <1>6
<1>10. ASSUME NEW s \in Ranks
       PROVE  /\ F2(s) \cup L2(s) \subseteq ReadsOf(s) /\ F2(s) \cap L2(s) = {}
              /\ (F2(s) \cup L2(s)) \cap (R2 \cup C \cup Q(s)) = {}
              /\ Q(s) \cap (R2 \cup C) = {}
  <2>1. CASE s = r
    BY <1>3, <1>4, <2>1
  <2>2. CASE s # r
    <3>1. F2(s) = F(s) /\ L2(s) = L(s) /\ Q(s) \cap L(r) = {} /\ (F(s) \cup L(s)) \cap L(r) = {}
      BY <1>3, <1>4, <1>5, <2>2
    <3> QED
      BY <1>3, <1>4, <3>1
  <2> QED
    BY <2>1, <2>2
<1>11. Way(n)
  BY <1>2, <1>8, <1>9, <1>10 DEF Way, F2, L2, Q, R2, C
<1> QED
  BY <1>7, <1>11

\* RanksUpdate, over all ranks.
Ranked(m, n) == IsMem(n) /\ Same(m, n, RankParts) /\ Way(n) /\ Under(n) \subseteq Under(m)

\* So do all ranks, one after the other.
LEMMA RanksMove ==
    ASSUME NEW m, IsMem(m), Queues(m), Way(m)
    PROVE  Ranked(m, RanksUpdate(m))
<1> DEFINE N == NumRanks
           F(x, n) == RankUpdate(x, n - 1)
           Upto(v, k) == v = [n \in 0 .. k |-> IF n = 0 THEN m ELSE F(v[n - 1], n)]
           G == CHOOSE g : Upto(g, N)
           P == {k \in Nat : \E v : Upto(v, k)}
           Q == {k \in Nat : k <= N => Ranked(m, G[k])}
<1>1. N \in Nat
  BY MemAssumption
<1>2. RanksUpdate(m) = G[N]
  BY DEF RanksUpdate
<1> HIDE DEF N, F
<1>3. \E g : Upto(g, N)
  <2>1. 0 \in P
    <3> DEFINE v == [n \in 0 .. 0 |-> m]
    <3>1. Upto(v, 0) OBVIOUS
    <3> QED BY <3>1
  <2>2. ASSUME NEW k \in P PROVE k + 1 \in P
    <3>1. PICK v : Upto(v, k) OBVIOUS
    <3> DEFINE w == [n \in 0 .. k + 1 |-> IF n <= k THEN v[n] ELSE F(v[k], k + 1)]
    <3>2. \A n \in 0 .. k + 1 : w[n] = IF n = 0 THEN m ELSE F(w[n - 1], n)
      <4> TAKE n \in 0 .. k + 1
      <4>1. CASE n = 0 BY <4>1, <3>1
      <4>2. CASE n \in 1 .. k BY <4>2, <3>1
      <4>3. CASE n = k + 1 BY <4>3
      <4> QED BY <4>1, <4>2, <4>3
    <3>3. Upto(w, k + 1) BY <3>2
    <3> HIDE DEF w
    <3>4. \E u : Upto(u, k + 1) BY <3>3
    <3>5. k + 1 \in Nat OBVIOUS
    <3> HIDE DEF Upto
    <3> QED BY <3>4, <3>5
  <2> HIDE DEF P
  <2>3. N \in P BY <1>1, <2>1, <2>2, NatSetInduction
  <2> QED BY <2>3 DEF P
<1>4. Upto(G, N) BY <1>3
<1> HIDE DEF G
<1>5. G[0] = m /\ \A n \in 1 .. N : G[n] = F(G[n - 1], n)
  <2>1. \A n \in 0 .. N : G[n] = IF n = 0 THEN m ELSE F(G[n - 1], n) BY <1>4
  <2>2. 0 \in 0 .. N /\ \A n \in 1 .. N : n \in 0 .. N /\ n # 0 BY <1>1
  <2> QED BY <2>1, <2>2
<1>6. 0 \in Q
  <2>1. Ranked(m, m)
    BY DEF Ranked, Same
  <2> QED
    BY <1>5, <2>1
<1>7. ASSUME NEW k \in Q PROVE k + 1 \in Q
  <2> SUFFICES ASSUME k + 1 <= N PROVE Ranked(m, G[k + 1]) BY <1>1
  <2> DEFINE x == G[k]
             y == G[k + 1]
  <2>1. Ranked(m, x) /\ k \in Ranks
    BY <1>1 DEF Ranks, N
  <2>2. y = RankUpdate(x, k) BY <1>1, <1>5 DEF F
  <2> HIDE DEF x, y, Q
  <2>3. Queues(x) /\ IsMem(x) /\ Way(x)
    <3>1. x.q = m.q
      BY <2>1 DEF Ranked, Same, MemFields, RankParts
    <3> QED
      BY <2>1, <3>1 DEF Queues, Ranked
  <2>4. Moved(x, y, k)
    BY <2>1, <2>2, <2>3, RankMoves
  <2>5. Way(y) /\ Under(y) \subseteq Under(x)
    BY <2>1, <2>3, <2>4, MovedWay
  <2>6. Same(m, y, RankParts)
    BY <2>1, <2>4 DEF Moved, Ranked, Same
  <2>7. Ranked(m, y)
    BY <2>1, <2>5, <2>6 DEF Ranked, Same
  <2> QED
    BY <2>7 DEF y
<1> HIDE DEF Q
<1>8. N \in Q BY <1>1, <1>6, <1>7, NatSetInduction
<1> QED BY <1>1, <1>2, <1>8 DEF Q

\* The parts of a Way, after a step that keeps the data of the ranks but for
\* those of r.
WayParts == {"ret", "out", "outLeft", "rdata", "cmd", "q"}

\* Where the data are depends on these fields alone.
LEMMA WaySame ==
    ASSUME NEW m, NEW n, Way(m), \A f \in WayParts : n[f] = m[f]
    PROVE  Way(n) /\ Under(n) = Under(m)
<1>1. /\ n.ret = m.ret /\ n.out = m.out /\ n.outLeft = m.outLeft /\ n.rdata = m.rdata
      /\ n.cmd = m.cmd /\ n.q = m.q
  BY DEF WayParts
<1>2. /\ Reading(n) = Reading(m)
      /\ \A r \in Ranks : /\ Fetching(n, r) = Fetching(m, r) /\ Leaving(n, r) = Leaving(m, r)
                          /\ QueuedReads(n, r) = QueuedReads(m, r)
  BY <1>1 DEF Reading, Fetching, Leaving, QueuedReads
<1>3. WayType(n)
  BY <1>1 DEF Way, WayType
<1> QED
  BY <1>1, <1>2, <1>3 DEF Way, Under

\* A read belongs to one rank.
LEMMA ReadsApart ==
    ASSUME NEW r \in Ranks, NEW s \in Ranks, r # s
    PROVE  ReadsOf(s) \cap ReadsOf(r) = {}
BY DEF ReadsOf

\* A request stands in the queue of its own rank.
LEMMA QueueApart ==
    ASSUME NEW m, Queues(m), NEW r \in Ranks, NEW s \in Ranks, r # s, NEW x, Requests[x].rank = r
    PROVE  x \notin ToSet(m.q[s])
<1>1. SUFFICES ASSUME x \in ToSet(m.q[s]) PROVE FALSE
  OBVIOUS
<1>2. PICK i \in DOMAIN m.q[s] : m.q[s][i] = x
  BY <1>1 DEF ToSet
<1>3. Requests[x].rank = s
  BY <1>2 DEF Queues
<1> QED
  BY <1>3

\* The command bus: a read in the rank waits for its data.
LEMMA CommandWay ==
    ASSUME NEW m, NEW n, Way(m), Tabled(m), Same(m, n, {"cmd", "cmdLeft", "dev", "rdata", "panic"}),
           IsMem(m), n.cmd = NoPacket,
           n.rdata = (IF m.cmd = NoPacket THEN m.rdata ELSE Fetched(m, m.cmd))
    PROVE  Way(n) /\ Under(n) \subseteq Under(m)
<1> DEFINE p == m.cmd
           r == p.rank
           C == Reading(m)
           R == ToSet(m.ret)
           F(s) == Fetching(m, s)
           L(s) == Leaving(m, s)
           Q(s) == ToSet(m.q[s])
           F2(s) == Fetching(n, s)
<1>1. n.ret = m.ret /\ n.out = m.out /\ n.outLeft = m.outLeft /\ n.q = m.q
  BY DEF Same, MemFields
<1>2. n.cmd.type = "NONE" /\ Reading(n) = {}
  BY DEF NoPacket, Reading
<1>3. CASE p.type # "READ"
  <2>1. n.rdata = m.rdata /\ Reading(m) = {}
    BY <1>3 DEF Fetched, Reading
  <2>2. \A s \in Ranks : /\ Fetching(n, s) = Fetching(m, s) /\ Leaving(n, s) = Leaving(m, s)
                         /\ QueuedReads(n, s) = QueuedReads(m, s)
    BY <1>1, <2>1 DEF Fetching, Leaving, QueuedReads
  <2>3. WayType(n)
    BY <1>1, <2>1 DEF Way, WayType
  <2> QED
    BY <1>1, <1>2, <2>1, <2>2, <2>3 DEF Way, Under
<1>4. CASE p.type = "READ"
  <2>1. /\ p # NoPacket /\ IsCommand(p) /\ r \in Ranks /\ p.id \in ReadsOf(r) /\ C = {p.id}
    <3>1. p # NoPacket
      BY <1>4 DEF NoPacket
    <3>2. IsCommand(p)
      BY <3>1 DEF Tabled
    <3> QED
      BY <1>4, <3>1, <3>2 DEF IsCommand, Way, Reading
  <2>2. /\ m.rdata = [s \in Ranks |-> m.rdata[s]] /\ \A s \in Ranks : m.rdata[s] \in Timed
    BY DEF Way, WayType
  <2>3. n.rdata = [m.rdata EXCEPT ![r] = Append(@, <<p.id, T.RL>>)]
    BY <1>4, <2>1 DEF Fetched
  <2>4. /\ R \subseteq AllReads /\ R \cap C = {}
        /\ \A s \in Ranks : /\ F(s) \cup L(s) \subseteq ReadsOf(s) /\ F(s) \cap L(s) = {}
                            /\ (F(s) \cup L(s)) \cap (R \cup C \cup Q(s)) = {}
                            /\ Q(s) \cap (R \cup C) = {}
    BY DEF Way
  <2>5. /\ p.id \in Ids /\ p.id \notin IdsOf(m.rdata[r]) /\ T.RL \in Int
    BY <2>1, <2>4, Delays DEF ReadsOf, AllReads, Fetching
  <2>6. /\ n.rdata[r] \in Timed /\ IdsOf(n.rdata[r]) = IdsOf(m.rdata[r]) \cup {p.id}
    <3> DEFINE old == m.rdata[r]
               i == p.id
               rl == T.RL
               t == Append(old, <<i, rl>>)
    <3>1. old \in Timed /\ i \in Ids /\ i \notin IdsOf(old) /\ rl \in Int
      BY <2>1, <2>2, <2>5
    <3>2. n.rdata[r] = t
      BY <2>1, <2>2, <2>3
    <3> HIDE DEF old, i, rl
    <3>3. t \in Timed /\ IdsOf(t) = IdsOf(old) \cup {i}
      BY <3>1, TimedAppend
    <3> QED
      BY Zenon, <3>2, <3>3 DEF old, i
  <2>7. /\ \A s \in Ranks \ {r} : n.rdata[s] = m.rdata[s]
        /\ n.rdata = [s \in Ranks |-> n.rdata[s]]
    BY <2>2, <2>3
  <2>8. WayType(n)
    <3>1. \A s \in Ranks : n.rdata[s] \in Timed
      BY <2>2, <2>6, <2>7
    <3> QED
      BY <1>1, <2>7, <3>1 DEF Way, WayType
  <2>9. /\ F2(r) = F(r) \cup C /\ \A s \in Ranks \ {r} : F2(s) = F(s)
        /\ \A s \in Ranks : Leaving(n, s) = L(s) /\ QueuedReads(n, s) = QueuedReads(m, s)
                            /\ ToSet(n.q[s]) = Q(s)
        /\ ToSet(n.ret) = R
    BY <1>1, <2>1, <2>6, <2>7 DEF Fetching, Leaving, QueuedReads
  <2>10. Under(n) \subseteq Under(m)
    <3>1. ASSUME NEW s \in Ranks
          PROVE  F2(s) \cup Leaving(n, s) \cup QueuedReads(n, s) \subseteq Under(m)
      <4>1. F2(s) \subseteq F(s) \cup C
        BY <2>9
      <4> QED
        BY <2>9, <4>1 DEF Under
    <3>2. ToSet(n.ret) \cup Reading(n) \subseteq Under(m)
      BY <1>2, <2>9 DEF Under
    <3> QED
      BY <3>1, <3>2 DEF Under
  <2> HIDE DEF C, R, F, L, Q, F2, r, p
  <2>11. ASSUME NEW s \in Ranks
         PROVE  /\ F2(s) \cup L(s) \subseteq ReadsOf(s) /\ F2(s) \cap L(s) = {}
                /\ (F2(s) \cup L(s)) \cap (R \cup Q(s)) = {}
                /\ Q(s) \cap R = {}
    <3>1. CASE s = r
      BY <2>1, <2>4, <2>9, <3>1
    <3>2. CASE s # r
      BY <2>4, <2>9, <3>2
    <3> QED
      BY <3>1, <3>2
  <2> QED
    BY <1>2, <2>4, <2>8, <2>9, <2>10, <2>11 DEF Way, F2, L, R, Q
<1> QED
  BY <1>3, <1>4

\* Pop: a read leaves its queue for the command bus.
LEMMA SentWay ==
    ASSUME NEW m, NEW n, NEW p, Way(m), Lined(m), IsMem(m), m.cmd = NoPacket, Sendable(m, p),
           Sent(m, n, p)
    PROVE  Way(n) /\ Under(n) \subseteq Under(m)
<1> DEFINE r == p.rank
           R == ToSet(m.ret)
           D(s) == Fetching(m, s) \cup Leaving(m, s)
           Q(s) == ToSet(m.q[s])
           Q2(s) == ToSet(n.q[s])
           C2 == Reading(n)
<1>1. n.ret = m.ret /\ n.out = m.out /\ n.outLeft = m.outLeft /\ n.rdata = m.rdata /\ n.cmd = p
  BY DEF Sent, Same, MemFields, SentParts, Pointers
<1>2. /\ Reading(m) = {} /\ C2 = (IF p.type = "READ" THEN {p.id} ELSE {})
  BY <1>1 DEF NoPacket, Reading
<1>3. r \in Ranks /\ Queues(m) /\ m.q = [s \in Ranks |-> m.q[s]] /\ m.q[r] \in Distinct(Ids)
  BY LinedQueues DEF Sendable, IsCommand, Lined
<1>4. /\ R \subseteq AllReads
      /\ \A s \in Ranks : /\ D(s) \subseteq ReadsOf(s) /\ Fetching(m, s) \cap Leaving(m, s) = {}
                          /\ D(s) \cap (R \cup Q(s)) = {} /\ Q(s) \cap R = {}
  BY DEF Way
<1>5. \A s \in Ranks : D(s) = Fetching(n, s) \cup Leaving(n, s) /\ Fetching(n, s) = Fetching(m, s)
                       /\ Leaving(n, s) = Leaving(m, s)
  BY <1>1 DEF Fetching, Leaving
<1>6. /\ C2 \subseteq Q(r) \cap ReadsOf(r)
      /\ \A s \in Ranks : Q2(s) \subseteq Q(s) /\ Q2(s) \cap C2 = {}
  <2>1. CASE p.type \in {"READ", "WRITE"}
    <3> DEFINE q == m.q[r]
    <3>1. PICK k : Took(m, n, p, k)
      BY <2>1 DEF Sent
    <3> DEFINE x == q[k]
    <3>2. k \in 1 .. Len(q) /\ p = Access(x) /\ n.q = [m.q EXCEPT ![r] = RemoveAt(q, k)]
      BY <3>1 DEF Took
    <3>3. n.q[r] = RemoveAt(q, k) /\ \A s \in Ranks \ {r} : n.q[s] = m.q[s]
      BY <1>3, <3>2
    <3>4. q \in Distinct(Ids)
      BY <1>3
    <3> HIDE DEF q
    <3>5. ToSet(RemoveAt(q, k)) = ToSet(q) \ {x} /\ x \in ToSet(q) /\ x \in Ids
      <4>1. ToSet(RemoveAt(q, k)) = ToSet(q) \ {q[k]}
        BY <3>2, <3>4, DistinctRemoveAt
      <4>2. q[k] \in ToSet(q) /\ ToSet(q) \subseteq Ids
        BY <3>2, <3>4, MembersOf DEF Distinct
      <4> QED
        BY <4>1, <4>2
    <3> HIDE DEF x
    <3>6. /\ p.id = x /\ (p.type = "READ" => x \in AllReads) /\ Requests[x].rank = r
      BY <2>1, <3>2, <3>5, AccessIs DEF AllReads
    <3>7. \A s \in Ranks \ {r} : x \notin Q(s)
      BY <1>3, <3>6, QueueApart
    <3>8. ToSet(q) = Q(r)
      BY DEF q
    <3>9. C2 \subseteq {x} /\ (C2 # {} => x \in ReadsOf(r))
      BY <1>2, <3>6 DEF ReadsOf
    <3>10. Q2(r) = Q(r) \ {x} /\ \A s \in Ranks \ {r} : Q2(s) = Q(s)
      BY <3>3, <3>5, <3>8
    <3> QED
      BY <1>3, <3>5, <3>7, <3>8, <3>9, <3>10
  <2>2. CASE p.type \notin {"READ", "WRITE"}
    BY <1>2, <2>2 DEF Sent
  <2> QED
    BY <2>1, <2>2
<1>7. Under(n) \subseteq Under(m)
  <2>1. C2 \subseteq QueuedReads(m, r)
    BY <1>6 DEF QueuedReads
  <2>2. \A s \in Ranks : QueuedReads(n, s) \subseteq QueuedReads(m, s)
    BY <1>6 DEF QueuedReads
  <2> QED
    BY <1>1, <1>3, <1>5, <2>1, <2>2 DEF Under
<1>8. p.type = "READ" => p.id \in ReadsOf(p.rank)
  BY <1>2, <1>6
<1>9. WayType(n)
  BY <1>1 DEF Way, WayType
<1> HIDE DEF R, D, Q, Q2, C2, r
<1>10. R \cap C2 = {}
  BY <1>3, <1>4, <1>6
<1>11. ASSUME NEW s \in Ranks
       PROVE  D(s) \cap (R \cup C2 \cup Q2(s)) = {} /\ Q2(s) \cap (R \cup C2) = {}
  <2>1. D(s) \cap C2 = {}
    <3>1. CASE s = r
      BY <1>4, <1>6, <3>1
    <3>2. CASE s # r
      BY <1>3, <1>4, <1>6, <3>2, ReadsApart
    <3> QED
      BY <3>1, <3>2
  <2> QED
    BY <1>4, <1>6, <2>1
<1>12. Way(n)
  <2>1. ASSUME NEW s \in Ranks
        PROVE  /\ Fetching(n, s) \cup Leaving(n, s) \subseteq ReadsOf(s)
               /\ Fetching(n, s) \cap Leaving(n, s) = {}
               /\ (Fetching(n, s) \cup Leaving(n, s)) \cap (R \cup C2 \cup Q2(s)) = {}
               /\ Q2(s) \cap (R \cup C2) = {}
    BY <1>4, <1>5, <1>11
  <2> QED
    BY <1>1, <1>4, <1>8, <1>9, <1>10, <2>1 DEF Way, R, C2, Q2
<1> QED
  BY <1>7, <1>12

\* A transaction enters the queue of its rank.
LEMMA QueuedWay ==
    ASSUME NEW m, NEW n, Way(m), NEW x \in Ids, NEW r, r = Requests[x].rank, x \notin Under(m),
           \A f \in WayParts \ {"q"} : n[f] = m[f], ToSet(n.q[r]) = ToSet(m.q[r]) \cup {x},
           \A t \in Ranks \ {r} : n.q[t] = m.q[t]
    PROVE  Way(n) /\ Under(n) \subseteq Under(m) \cup (IF Requests[x].write THEN {} ELSE {x})
<1> DEFINE R == ToSet(m.ret)
           C == Reading(m)
           Q(s) == ToSet(m.q[s])
           Q2(s) == ToSet(n.q[s])
           D(s) == Fetching(m, s) \cup Leaving(m, s)
           E == Under(m) \cup (IF Requests[x].write THEN {} ELSE {x})
<1>1. /\ n.ret = m.ret /\ n.out = m.out /\ n.outLeft = m.outLeft /\ n.rdata = m.rdata
      /\ n.cmd = m.cmd
  BY DEF WayParts
<1>2. /\ Reading(n) = C /\ ToSet(n.ret) = R
      /\ \A s \in Ranks : Fetching(n, s) = Fetching(m, s) /\ Leaving(n, s) = Leaving(m, s)
  BY <1>1 DEF Reading, Fetching, Leaving
<1>3. \A s \in Ranks : Q2(s) \subseteq Q(s) \cup {x}
  BY Zenon
<1>4. x \notin R \cup C /\ \A s \in Ranks : x \notin D(s)
  BY DEF Under
<1>5. WayType(n)
  BY <1>1 DEF Way, WayType
<1>6. \A s \in Ranks : QueuedReads(n, s) \subseteq E
  <2> TAKE s \in Ranks
  <2>1. ASSUME NEW y \in QueuedReads(n, s) PROVE y \in E
    <3>1. y \in ReadsOf(s) /\ y \in Q(s) \cup {x} /\ ~Requests[y].write
      BY <1>3 DEF QueuedReads, ReadsOf, AllReads
    <3>2. CASE y = x
      BY <3>1, <3>2
    <3>3. CASE y \in Q(s)
      <4>1. y \in QueuedReads(m, s)
        BY <3>1, <3>3 DEF QueuedReads
      <4> QED
        BY <4>1 DEF Under
    <3> QED
      BY <3>1, <3>2, <3>3
  <2> QED
    BY <2>1
<1>7. Under(n) \subseteq E
  <2>1. Under(m) \subseteq E
    OBVIOUS
  <2> HIDE DEF E
  <2>2. R \cup C \subseteq E /\ \A s \in Ranks : D(s) \subseteq E
    BY <2>1 DEF Under
  <2> QED
    BY <1>2, <1>6, <2>2 DEF Under
<1>8. /\ R \subseteq AllReads /\ R \cap C = {}
      /\ n.cmd.type = "READ" => n.cmd.id \in ReadsOf(n.cmd.rank)
      /\ \A s \in Ranks : /\ D(s) \subseteq ReadsOf(s) /\ Fetching(m, s) \cap Leaving(m, s) = {}
                          /\ D(s) \cap (R \cup C \cup Q(s)) = {} /\ Q(s) \cap (R \cup C) = {}
  BY <1>1 DEF Way
<1> HIDE DEF R, C, Q, Q2, D, E
<1>9. ASSUME NEW s \in Ranks
      PROVE  D(s) \cap (R \cup C \cup Q2(s)) = {} /\ Q2(s) \cap (R \cup C) = {}
  BY <1>3, <1>4, <1>8
<1>10. Way(n)
  <2>1. \A s \in Ranks : Fetching(n, s) \cup Leaving(n, s) = D(s)
    BY <1>2 DEF D
  <2>2. ASSUME NEW s \in Ranks
        PROVE  /\ Fetching(n, s) \cup Leaving(n, s) \subseteq ReadsOf(s)
               /\ Fetching(n, s) \cap Leaving(n, s) = {}
               /\ (Fetching(n, s) \cup Leaving(n, s)) \cap (R \cup C \cup Q2(s)) = {}
               /\ Q2(s) \cap (R \cup C) = {}
    BY <1>2, <1>8, <1>9, <2>1
  <2> QED
    BY <1>2, <1>5, <1>8, <2>2 DEF Way, Q2
<1> QED
  BY <1>7, <1>10 DEF E

\* The controller receives the first datum.
LEMMA ReturnedWay ==
    ASSUME NEW m, NEW n, Way(m), m.ret # <<>>, n.ret = Tail(m.ret),
           \A f \in WayParts \ {"ret"} : n[f] = m[f]
    PROVE  /\ Way(n) /\ Under(n) \subseteq Under(m) \ {Head(m.ret)}
           /\ Head(m.ret) \in Under(m)
<1> DEFINE ret == m.ret
           h == Head(ret)
           R == ToSet(ret)
           C == Reading(m)
           D(s) == Fetching(m, s) \cup Leaving(m, s)
           Q(s) == ToSet(m.q[s])
<1>1. /\ n.out = m.out /\ n.outLeft = m.outLeft /\ n.rdata = m.rdata
      /\ n.cmd = m.cmd /\ n.q = m.q
  BY DEF WayParts
<1>2. /\ ret \in Distinct(Ids) /\ ret # <<>> /\ n.ret = Tail(ret)
  BY DEF Way, WayType
<1>3. /\ R \subseteq AllReads /\ R \cap C = {}
      /\ n.cmd.type = "READ" => n.cmd.id \in ReadsOf(n.cmd.rank)
      /\ \A s \in Ranks : /\ D(s) \subseteq ReadsOf(s) /\ Fetching(m, s) \cap Leaving(m, s) = {}
                          /\ D(s) \cap (R \cup C \cup Q(s)) = {} /\ Q(s) \cap (R \cup C) = {}
  BY <1>1 DEF Way
<1>4. /\ Reading(n) = C
      /\ \A s \in Ranks : /\ Fetching(n, s) = Fetching(m, s) /\ Leaving(n, s) = Leaving(m, s)
                          /\ QueuedReads(n, s) = QueuedReads(m, s) /\ ToSet(n.q[s]) = Q(s)
  BY <1>1 DEF Reading, Fetching, Leaving, QueuedReads
<1> HIDE DEF ret
<1>5. Tail(ret) \in Distinct(Ids) /\ ToSet(n.ret) = R \ {h} /\ h \in R
  <2>1. Tail(ret) \in Distinct(Ids) /\ ToSet(Tail(ret)) = R \ {h}
    BY <1>2, DistinctTail
  <2>2. h \in R
    BY <1>2, MembersOf DEF Distinct
  <2> QED
    BY <1>2, <2>1, <2>2
<1>6. WayType(n)
  BY <1>1, <1>2, <1>5 DEF Way, WayType
<1>7. h \in Under(m)
  BY <1>5 DEF Under, R, ret
<1>8. Under(n) \subseteq Under(m) \ {h}
  <2>1. /\ ToSet(n.ret) \cup C \subseteq Under(m)
        /\ \A s \in Ranks : D(s) \cup QueuedReads(m, s) \subseteq Under(m)
    BY <1>5 DEF Under, R, ret
  <2>2. \A s \in Ranks : h \notin D(s) \cup QueuedReads(m, s)
    BY <1>3, <1>5 DEF QueuedReads
  <2>3. h \notin C
    BY <1>3, <1>5
  <2>4. \A s \in Ranks : Fetching(n, s) \cup Leaving(n, s) \cup QueuedReads(n, s)
                           = D(s) \cup QueuedReads(m, s)
    BY <1>4
  <2> HIDE DEF D, h
  <2> QED
    BY <1>4, <1>5, <2>1, <2>2, <2>3, <2>4 DEF Under
<1>9. Way(n)
  <2>1. \A s \in Ranks : Fetching(n, s) \cup Leaving(n, s) = D(s)
    BY <1>4
  <2> HIDE DEF D, R, C, Q, h
  <2>2. ASSUME NEW s \in Ranks
        PROVE  /\ Fetching(n, s) \cup Leaving(n, s) \subseteq ReadsOf(s)
               /\ Fetching(n, s) \cap Leaving(n, s) = {}
               /\ (Fetching(n, s) \cup Leaving(n, s)) \cap (ToSet(n.ret) \cup C \cup Q(s)) = {}
               /\ Q(s) \cap (ToSet(n.ret) \cup C) = {}
    BY <1>3, <1>4, <1>5, <2>1
  <2> QED
    BY <1>3, <1>4, <1>5, <1>6, <2>2 DEF Way
<1> QED
  BY <1>7, <1>8, <1>9 DEF h, ret

\* Only reads are under way.
LEMMA UnderIs ==
    ASSUME NEW m, Way(m) PROVE Under(m) \subseteq AllReads
<1>1. ToSet(m.ret) \subseteq AllReads
  BY DEF Way
<1>2. \A r \in Ranks : Fetching(m, r) \cup Leaving(m, r) \subseteq ReadsOf(r)
  BY DEF Way
<1>3. \A r \in Ranks : QueuedReads(m, r) \subseteq AllReads
  BY DEF QueuedReads, ReadsOf
<1>4. \A r : ReadsOf(r) \subseteq AllReads
  BY DEF ReadsOf
<1>5. Reading(m) \subseteq AllReads
  BY <1>4 DEF Reading, Way
<1>6. \A r \in Ranks : Fetching(m, r) \cup Leaving(m, r) \cup QueuedReads(m, r) \subseteq AllReads
  BY <1>2, <1>3, <1>4
<1> QED
  BY <1>1, <1>5, <1>6 DEF Under

-----------------------------------------------------------------------------
(* Every datum finds a pending read of its cell.                           *)

AtCell(S, c) == {x \in S : Cell(x) = c}
Enough(U, S) == \A c : Cardinality(AtCell(U, c)) <= Cardinality(AtCell(S, c))

\* The requests to a cell are finitely many.
LEMMA AtCellSize == ASSUME NEW S \in SUBSET Ids, NEW c
    PROVE  /\ AtCell(S, c) \subseteq S /\ IsFiniteSet(AtCell(S, c))
           /\ Cardinality(AtCell(S, c)) \in Nat
<1>1. AtCell(S, c) \subseteq Ids /\ AtCell(S, c) \subseteq S
  BY DEF AtCell
<1>2. IsFiniteSet(AtCell(S, c))
  BY <1>1, IdsAre, FS_Subset
<1> QED
  BY <1>1, <1>2, FS_CardinalityType

\* Of fewer requests, fewer are to a cell.
LEMMA AtCellLess == ASSUME NEW S \in SUBSET Ids, NEW U \in SUBSET S, NEW c
    PROVE  Cardinality(AtCell(U, c)) <= Cardinality(AtCell(S, c))
<1>1. AtCell(U, c) \subseteq AtCell(S, c)
  BY DEF AtCell
<1>2. IsFiniteSet(AtCell(S, c))
  BY AtCellSize
<1> HIDE DEF AtCell
<1> QED
  BY <1>1, <1>2, FS_Subset

\* One more request is one more for its cell.
LEMMA AtCellAdd == ASSUME NEW S \in SUBSET Ids, NEW x \in Ids, x \notin S, NEW c
    PROVE  Cardinality(AtCell(S \cup {x}, c))
             = Cardinality(AtCell(S, c)) + (IF Cell(x) = c THEN 1 ELSE 0)
<1> DEFINE A == AtCell(S, c)
<1>1. IsFiniteSet(A) /\ x \notin A /\ Cardinality(A) \in Nat
  BY AtCellSize
<1>2. AtCell(S \cup {x}, c) = IF Cell(x) = c THEN A \cup {x} ELSE A
  BY DEF AtCell
<1> HIDE DEF A
<1>3. Cardinality(A \cup {x}) = Cardinality(A) + 1
  BY <1>1, FS_AddElement
<1> QED
  BY <1>1, <1>2, <1>3 DEF A

\* Fewer data need no more pending reads.
LEMMA EnoughLess ==
    ASSUME NEW S \in SUBSET Ids, NEW U \in SUBSET Ids, NEW V \in SUBSET U, Enough(U, S)
    PROVE  Enough(V, S)
<1> SUFFICES ASSUME NEW c PROVE Cardinality(AtCell(V, c)) <= Cardinality(AtCell(S, c))
  BY DEF Enough
<1>1. Cardinality(AtCell(V, c)) <= Cardinality(AtCell(U, c))
  BY AtCellLess
<1>2. Cardinality(AtCell(U, c)) <= Cardinality(AtCell(S, c))
  BY DEF Enough
<1>3. /\ Cardinality(AtCell(V, c)) \in Nat /\ Cardinality(AtCell(U, c)) \in Nat
      /\ Cardinality(AtCell(S, c)) \in Nat
  BY AtCellSize
<1> QED
  BY <1>1, <1>2, <1>3

\* A read that becomes pending may have its datum under way.
LEMMA EnoughMore ==
    ASSUME NEW S \in SUBSET Ids, NEW U \in SUBSET Ids, NEW x \in Ids, x \notin S, x \notin U,
           Enough(U, S)
    PROVE  Enough(U \cup {x}, S \cup {x})
<1> SUFFICES ASSUME NEW c
    PROVE Cardinality(AtCell(U \cup {x}, c)) <= Cardinality(AtCell(S \cup {x}, c))
  BY DEF Enough
<1> DEFINE u == Cardinality(AtCell(U, c))
           s == Cardinality(AtCell(S, c))
           k == IF Cell(x) = c THEN 1 ELSE 0
<1>1. Cardinality(AtCell(U \cup {x}, c)) = u + k
  BY AtCellAdd
<1>2. Cardinality(AtCell(S \cup {x}, c)) = s + k
  BY AtCellAdd
<1>3. u <= s
  BY DEF Enough
<1>4. u \in Nat /\ s \in Nat
  BY AtCellSize
<1>5. k \in Nat
  OBVIOUS
<1> HIDE DEF u, s, k
<1> QED
  BY <1>1, <1>2, <1>3, <1>4, <1>5

\* A datum goes together with a pending read of its cell.
LEMMA EnoughBoth ==
    ASSUME NEW S \in SUBSET Ids, NEW U \in SUBSET Ids, NEW h \in U, NEW y \in S,
           Cell(y) = Cell(h), Enough(U, S)
    PROVE  Enough(U \ {h}, S \ {y})
<1> SUFFICES ASSUME NEW c
    PROVE Cardinality(AtCell(U \ {h}, c)) <= Cardinality(AtCell(S \ {y}, c))
  BY DEF Enough
<1> DEFINE V == U \ {h}
           W == S \ {y}
           u == Cardinality(AtCell(V, c))
           s == Cardinality(AtCell(W, c))
           k == IF Cell(h) = c THEN 1 ELSE 0
<1>1. V \in SUBSET Ids /\ h \in Ids /\ h \notin V /\ U = V \cup {h}
  OBVIOUS
<1>2. W \in SUBSET Ids /\ y \in Ids /\ y \notin W /\ S = W \cup {y}
  OBVIOUS
<1> HIDE DEF V, W
<1>3. Cardinality(AtCell(U, c)) = u + k
  BY <1>1, AtCellAdd
<1>4. Cardinality(AtCell(S, c)) = s + k
  BY <1>2, AtCellAdd
<1>5. Cardinality(AtCell(U, c)) <= Cardinality(AtCell(S, c))
  BY DEF Enough
<1>6. u \in Nat /\ s \in Nat
  BY <1>1, <1>2, AtCellSize
<1>7. k \in Nat
  OBVIOUS
<1> HIDE DEF u, s, k
<1>8. u <= s
  BY <1>3, <1>4, <1>5, <1>6, <1>7
<1> QED
  BY <1>8 DEF u, s, V, W

\* A datum under way has a pending read of its cell.
LEMMA EnoughHas ==
    ASSUME NEW S \in SUBSET Ids, NEW U \in SUBSET Ids, NEW h \in U, Enough(U, S)
    PROVE  \E y \in S : Cell(y) = Cell(h)
<1> DEFINE c == Cell(h)
           A == AtCell(U, c)
           B == AtCell(S, c)
<1>1. SUFFICES ASSUME B = {} PROVE FALSE
  BY DEF AtCell
<1>2. h \in A /\ IsFiniteSet(A) /\ Cardinality(A) \in Nat
  BY AtCellSize DEF AtCell
<1>3. Cardinality(A) <= Cardinality(B)
  BY DEF Enough
<1> HIDE DEF A, B
<1>4. Cardinality(B) = 0 /\ Cardinality(A) # 0
  BY <1>1, <1>2, FS_EmptySet
<1> QED
  BY <1>2, <1>3, <1>4

-----------------------------------------------------------------------------
(* What was taken and not answered.                                        *)

Written(m) == IdsOf(m.wdata) \cup ({m.data} \ {0})

\* d are the requests that were answered: an issued write is answered when its
\* data has left the bus, and a read stands among the pending ones till then.
Books(m, d) ==
    /\ d \in Distinct(Ids) /\ ToSet(d) \subseteq ToSet(m.taken) \ ToSet(m.tq)
    /\ m.fly = Len(m.taken) - Len(d)
    /\ \A i \in ToSet(d) \cap QSet(m) : ~Requests[i].write
    /\ m.data \notin IdsOf(m.wdata)
    /\ Written(m) \subseteq {i \in ToSet(m.taken) : Requests[i].write}
    /\ Written(m) \cap (ToSet(m.tq) \cup QSet(m) \cup ToSet(d)) = {}
    /\ m.reads \in Distinct(Ids)
    /\ ToSet(m.reads) \subseteq {i \in ToSet(m.taken) : ~Requests[i].write}
    /\ ToSet(m.reads) \cap (ToSet(m.tq) \cup ToSet(d)) = {}

Waited(m) == /\ Under(m) \subseteq ToSet(m.taken) \ ToSet(m.tq)
             /\ Enough(Under(m), ToSet(m.reads))
Owed(m, d) == Books(m, d) /\ Waited(m)

OwedParts == {"taken", "tq", "q", "fly", "data", "reads"}

\* The sets of requests in the queues.
LEMMA SetsOf ==
    ASSUME NEW m, Lined(m)
    PROVE  /\ m.taken \in Distinct(Ids) /\ m.tq \in Distinct(Ids)
           /\ ToSet(m.taken) \subseteq Ids /\ ToSet(m.tq) \subseteq ToSet(m.taken)
           /\ QSet(m) \subseteq ToSet(m.taken) /\ Len(m.taken) \in Nat
           /\ ToSet(m.tq) \cap QSet(m) = {}
<1>1. m.taken \in Distinct(Ids) /\ m.tq \in Distinct(Ids)
  BY DEF Lined
<1>2. m.taken \in Seq(Ids)
  BY <1>1 DEF Distinct
<1>3. ToSet(m.taken) \subseteq Ids /\ Len(m.taken) \in Nat
  BY <1>2, MembersOf, LenProperties
<1> QED
  BY <1>1, <1>3 DEF Lined

\* A part of the update that only moves data on their way.
LEMMA OwedSame ==
    ASSUME NEW m, NEW n, NEW d, Owed(m, d), Lined(m), \A f \in OwedParts : n[f] = m[f],
           IdsOf(n.wdata) = IdsOf(m.wdata), Under(n) \subseteq Under(m)
    PROVE  Owed(n, d)
<1>1. /\ n.taken = m.taken /\ n.tq = m.tq /\ n.q = m.q /\ n.fly = m.fly /\ n.data = m.data
      /\ n.reads = m.reads
  BY DEF OwedParts
<1>2. QSet(n) = QSet(m) /\ Written(n) = Written(m)
  BY <1>1 DEF QSet, Written
<1>3. Books(n, d)
  BY <1>1, <1>2 DEF Owed, Books
<1>4. ToSet(m.reads) \in SUBSET Ids /\ Under(m) \in SUBSET Ids
  BY SetsOf DEF Owed, Books, Waited
<1>5. Enough(Under(n), ToSet(m.reads))
  BY <1>4, EnoughLess DEF Owed, Waited
<1>6. Waited(n)
  BY <1>1, <1>5 DEF Owed, Waited
<1> QED
  BY <1>3, <1>6 DEF Owed

\* The controller takes x.
LEMMA AcceptOwed ==
    ASSUME NEW m, NEW n, NEW d, NEW x \in Ids, Owed(m, d), Lined(m), x \notin ToSet(m.taken),
           n.taken = Append(m.taken, x), n.tq = Append(m.tq, x), n.q = m.q, n.fly = m.fly + 1,
           n.data = m.data, n.wdata = m.wdata, n.reads = m.reads, Under(n) = Under(m)
    PROVE  Owed(n, d)
<1> DEFINE taken == m.taken
           tq == m.tq
<1>1. /\ taken \in Distinct(Ids) /\ tq \in Distinct(Ids) /\ ToSet(tq) \subseteq ToSet(taken)
      /\ Len(taken) \in Nat /\ QSet(m) \subseteq ToSet(taken) /\ x \notin ToSet(taken)
      /\ n.taken = Append(taken, x) /\ n.tq = Append(tq, x)
  BY SetsOf
<1> HIDE DEF taken, tq
<1>2. /\ ToSet(n.taken) = ToSet(taken) \cup {x} /\ ToSet(n.tq) = ToSet(tq) \cup {x}
      /\ Len(n.taken) = Len(taken) + 1
  <2>1. ToSet(Append(taken, x)) = ToSet(taken) \cup {x} /\ ToSet(Append(tq, x)) = ToSet(tq) \cup {x}
    BY <1>1, DistinctAppend
  <2>2. Len(Append(taken, x)) = Len(taken) + 1
    BY <1>1, AppendProperties DEF Distinct
  <2> QED
    BY <1>1, <2>1, <2>2
<1>3. QSet(n) = QSet(m) /\ Written(n) = Written(m)
  BY DEF QSet, Written
<1>4. /\ d \in Distinct(Ids) /\ ToSet(d) \subseteq ToSet(taken) \ ToSet(tq)
      /\ m.fly = Len(taken) - Len(d)
      /\ \A i \in ToSet(d) \cap QSet(m) : ~Requests[i].write
      /\ m.data \notin IdsOf(m.wdata)
      /\ Written(m) \subseteq {i \in ToSet(taken) : Requests[i].write}
      /\ Written(m) \cap (ToSet(tq) \cup QSet(m) \cup ToSet(d)) = {}
      /\ m.reads \in Distinct(Ids)
      /\ ToSet(m.reads) \subseteq {i \in ToSet(taken) : ~Requests[i].write}
      /\ ToSet(m.reads) \cap (ToSet(tq) \cup ToSet(d)) = {}
  BY DEF Owed, Books, taken, tq
<1>5. Len(d) \in Nat
  BY <1>4, LenProperties DEF Distinct
<1>6. n.fly = Len(n.taken) - Len(d)
  BY <1>1, <1>2, <1>4, <1>5
<1>7. Books(n, d)
  BY <1>1, <1>2, <1>3, <1>4, <1>6 DEF Books
<1>8. Waited(n)
  <2>1. Under(m) \subseteq ToSet(taken) \ ToSet(tq) /\ Enough(Under(m), ToSet(m.reads))
    BY DEF Owed, Waited, taken, tq
  <2> QED
    BY <1>1, <1>2, <2>1 DEF Waited
<1> QED
  BY <1>7, <1>8 DEF Owed

\* What a write that has left the data bus adds to the answered requests.
Wrote(m, d) == IF WriteEnds(m) THEN Append(d, m.data) ELSE d

\* The data bus answers the write it ends, and no other.
LEMMA DataOwed ==
    ASSUME NEW m, NEW n, NEW d, Owed(m, d), Lined(m), m.wdata \in Timed, m.data \in Ids \cup {0},
           Filled(m, n, Lowered(m.wdata), IF WriteEnds(m) THEN 0 ELSE m.data),
           m.panic = FALSE, n.panic = FALSE, Under(n) = Under(m)
    PROVE  Owed(n, Wrote(m, d))
<1> DEFINE w == m.wdata
           wd == Lowered(w)
           data == IF WriteEnds(m) THEN 0 ELSE m.data
           enters == wd # <<>> /\ Head(wd)[2] = 0
           e == Wrote(m, d)
           TK == ToSet(m.taken)
           TQ == ToSet(m.tq)
           RD == ToSet(m.reads)
           Q == QSet(m)
<1>1. /\ n.taken = m.taken /\ n.tq = m.tq /\ n.q = m.q /\ n.reads = m.reads
      /\ n.fly = (IF WriteEnds(m) THEN m.fly - 1 ELSE m.fly)
      /\ n.wdata = (IF enters THEN Tail(wd) ELSE wd)
      /\ n.data = (IF enters THEN Head(wd)[1] ELSE data)
      /\ ~(enters /\ data # 0)
  BY DEF Filled, Same, MemFields
<1>2. QSet(n) = Q
  BY <1>1 DEF QSet
<1>3. /\ d \in Distinct(Ids) /\ ToSet(d) \subseteq TK \ TQ
      /\ m.fly = Len(m.taken) - Len(d)
      /\ \A i \in ToSet(d) \cap Q : ~Requests[i].write
      /\ m.data \notin IdsOf(w)
      /\ Written(m) \subseteq {i \in TK : Requests[i].write}
      /\ Written(m) \cap (TQ \cup Q \cup ToSet(d)) = {}
      /\ m.reads \in Distinct(Ids)
      /\ RD \subseteq {i \in TK : ~Requests[i].write}
      /\ RD \cap (TQ \cup ToSet(d)) = {}
  BY DEF Owed, Books
<1>4. wd \in Timed /\ IdsOf(wd) = IdsOf(w)
  BY LoweredIs
<1>5. 0 \notin Ids /\ IdsOf(w) \subseteq Ids /\ Len(m.taken) \in Nat /\ TK \subseteq Ids
  BY IdsAre, TimedIs, SetsOf
<1>6. WriteEnds(m) => m.data # 0 /\ m.data \in Ids
  BY DEF WriteEnds
<1>7. Written(m) = IdsOf(w) \cup ({m.data} \ {0})
  BY DEF Written
<1> HIDE DEF wd, data, TK, TQ, RD, Q, w
<1>8. /\ n.data \notin IdsOf(n.wdata)
      /\ Written(n) \subseteq Written(m) \ (IF WriteEnds(m) THEN {m.data} ELSE {})
  <2>1. CASE enters
    <3>1. /\ Tail(wd) \in Timed /\ IdsOf(Tail(wd)) = IdsOf(wd) \ {Head(wd)[1]}
          /\ Head(wd)[1] \in IdsOf(wd)
      BY <1>4, <2>1, TimedTail
    <3>2. n.wdata = Tail(wd) /\ n.data = Head(wd)[1]
      BY <1>1, <2>1
    <3> QED
      BY <1>3, <1>4, <1>7, <3>1, <3>2 DEF Written
  <2>2. CASE ~enters
    <3>1. n.wdata = wd /\ n.data = data
      BY <1>1, <2>2
    <3>2. data \notin IdsOf(wd)
      BY <1>3, <1>4, <1>5 DEF data
    <3>3. {data} \ {0} \subseteq ({m.data} \ {0}) \ (IF WriteEnds(m) THEN {m.data} ELSE {})
      BY DEF data
    <3>4. IdsOf(wd) \subseteq Written(m) \ (IF WriteEnds(m) THEN {m.data} ELSE {})
      BY <1>3, <1>4, <1>7
    <3> QED
      BY <1>7, <3>1, <3>2, <3>3, <3>4 DEF Written
  <2> QED
    BY <2>1, <2>2
<1>9. /\ e \in Distinct(Ids) /\ ToSet(e) = ToSet(d) \cup (IF WriteEnds(m) THEN {m.data} ELSE {})
      /\ n.fly = Len(m.taken) - Len(e)
  <2>1. Len(d) \in Nat /\ d \in Seq(Ids)
    BY <1>3, LenProperties DEF Distinct
  <2>2. CASE WriteEnds(m)
    <3>1. m.data \in Ids /\ m.data \notin ToSet(d)
      BY <1>3, <1>6, <1>7, <2>2
    <3>2. e = Append(d, m.data)
      BY <2>2 DEF Wrote
    <3>3. Append(d, m.data) \in Distinct(Ids) /\ ToSet(Append(d, m.data)) = ToSet(d) \cup {m.data}
      BY <1>3, <3>1, DistinctAppend
    <3>4. Len(Append(d, m.data)) = Len(d) + 1
      BY <2>1, <3>1, AppendProperties
    <3> HIDE DEF e
    <3>5. n.fly = Len(m.taken) - Len(e)
      <4>1. n.fly = m.fly - 1 /\ m.fly = Len(m.taken) - Len(d) /\ Len(e) = Len(d) + 1
        BY <1>1, <1>3, <2>2, <3>2, <3>4
      <4> QED
        BY <1>5, <2>1, <4>1
    <3> QED
      BY <2>2, <3>2, <3>3, <3>5
  <2>3. CASE ~WriteEnds(m)
    <3>1. e = d
      BY <2>3 DEF Wrote
    <3> QED
      BY <1>1, <1>3, <2>3, <3>1
  <2> QED
    BY <2>2, <2>3
<1> HIDE DEF e
<1>10. ASSUME WriteEnds(m)
       PROVE  /\ m.data \in TK /\ m.data \notin TQ /\ m.data \notin Q /\ Requests[m.data].write
              /\ m.data \notin RD
  <2>1. m.data \in Written(m)
    BY <1>6, <1>7, <1>10
  <2>2. m.data \in TK /\ m.data \notin TQ /\ m.data \notin Q /\ Requests[m.data].write
    BY <1>3, <2>1
  <2> QED
    BY <1>3, <2>2
<1>11. /\ ToSet(e) \subseteq TK \ TQ /\ \A i \in ToSet(e) \cap Q : ~Requests[i].write
       /\ Written(n) \subseteq {i \in TK : Requests[i].write}
       /\ Written(n) \cap (TQ \cup Q \cup ToSet(e)) = {}
       /\ RD \cap (TQ \cup ToSet(e)) = {}
  <2>1. CASE WriteEnds(m)
    BY <1>3, <1>8, <1>9, <1>10, <2>1
  <2>2. CASE ~WriteEnds(m)
    BY <1>3, <1>8, <1>9, <2>2
  <2> QED
    BY <2>1, <2>2
<1>12. Books(n, e)
  <2>1. ToSet(n.taken) = TK /\ ToSet(n.tq) = TQ /\ ToSet(n.reads) = RD
    BY <1>1 DEF TK, TQ, RD
  <2> QED
    BY <1>1, <1>2, <1>3, <1>8, <1>9, <1>11, <2>1 DEF Books
<1>13. Waited(n)
  BY <1>1 DEF Owed, Waited
<1> QED
  BY <1>12, <1>13 DEF Owed, e

\* An access that is sent leaves the queue of its rank.
LEMMA SentQueue ==
    ASSUME NEW m, NEW n, NEW p, Lined(m), IsMem(m), Sendable(m, p), Sent(m, n, p)
    PROVE  /\ QSet(n) \subseteq QSet(m)
           /\ p.type \in {"READ", "WRITE"} =>
                /\ p.id \in QSet(m) \ QSet(n) /\ p.id \in Ids
                /\ p.type = "WRITE" <=> Requests[p.id].write
<1> DEFINE r == p.rank
<1>1. r \in Ranks /\ Queues(m) /\ m.q = [s \in Ranks |-> m.q[s]] /\ m.q[r] \in Distinct(Ids)
  BY LinedQueues DEF Sendable, IsCommand, Lined
<1>2. CASE p.type \in {"READ", "WRITE"}
  <2> DEFINE q == m.q[r]
  <2>1. PICK k : Took(m, n, p, k)
    BY <1>2 DEF Sent
  <2> DEFINE x == q[k]
  <2>2. k \in 1 .. Len(q) /\ p = Access(x) /\ n.q = [m.q EXCEPT ![r] = RemoveAt(q, k)]
    BY <2>1 DEF Took
  <2>3. n.q[r] = RemoveAt(q, k) /\ \A s \in Ranks \ {r} : n.q[s] = m.q[s]
    BY <1>1, <2>2
  <2>4. q \in Distinct(Ids)
    BY <1>1
  <2>5. ToSet(m.q[r]) = ToSet(q)
    OBVIOUS
  <2> HIDE DEF q
  <2>6. ToSet(RemoveAt(q, k)) = ToSet(q) \ {x} /\ x \in ToSet(q) /\ x \in Ids
    <3>1. ToSet(RemoveAt(q, k)) = ToSet(q) \ {q[k]}
      BY <2>2, <2>4, DistinctRemoveAt
    <3>2. q[k] \in ToSet(q) /\ ToSet(q) \subseteq Ids
      BY <2>2, <2>4, MembersOf DEF Distinct
    <3> QED
      BY <3>1, <3>2
  <2> HIDE DEF x
  <2>7. p.id = x /\ (p.type = "WRITE" <=> Requests[x].write) /\ Requests[x].rank = r
    BY <2>2, <2>6, AccessIs
  <2>8. \A s \in Ranks \ {r} : x \notin ToSet(m.q[s])
    BY <1>1, <2>7, QueueApart
  <2>9. \A s \in Ranks : ToSet(n.q[s]) \subseteq ToSet(m.q[s]) /\ x \notin ToSet(n.q[s])
    <3> TAKE s \in Ranks
    <3>1. CASE s = r
      BY <2>3, <2>5, <2>6, <3>1
    <3>2. CASE s # r
      BY <2>3, <2>8, <3>2
    <3> QED
      BY <3>1, <3>2
  <2>10. x \in QSet(m)
    BY <1>1, <2>5, <2>6 DEF QSet
  <2>11. x \notin QSet(n) /\ QSet(n) \subseteq QSet(m)
    BY <2>9 DEF QSet
  <2> QED
    BY <2>6, <2>7, <2>10, <2>11
<1>3. CASE p.type \notin {"READ", "WRITE"}
  <2>1. n.q = m.q
    BY <1>3 DEF Sent
  <2> QED
    BY <1>3, <2>1 DEF QSet
<1> QED
  BY <1>2, <1>3

\* What is owed after a command was sent.
LEMMA SentOwed ==
    ASSUME NEW m, NEW n, NEW p, NEW d, Owed(m, d), Lined(m), IsMem(m), Sendable(m, p),
           Sent(m, n, p), m.wdata \in Timed, m.data \in Ids \cup {0}, Under(n) \subseteq Under(m)
    PROVE  Owed(n, d) /\ (p.type = "WRITE" => p.id \in Ids \ IdsOf(m.wdata))
<1> DEFINE w == m.wdata
           x == p.id
           TK == ToSet(m.taken)
           TQ == ToSet(m.tq)
           Q == QSet(m)
           Q2 == QSet(n)
           D == ToSet(d)
           W == Written(m)
           wr == p.type = "WRITE"
<1>1. /\ n.taken = m.taken /\ n.tq = m.tq /\ n.reads = m.reads /\ n.fly = m.fly
      /\ n.data = m.data
      /\ n.wdata = (IF wr THEN Append(w, <<x, T.WL>>) ELSE w)
  BY DEF Sent, Same, MemFields, SentParts, Pointers
<1>2. /\ Q2 \subseteq Q
      /\ wr => x \in Q \ Q2 /\ x \in Ids /\ Requests[x].write
  BY SentQueue
<1>3. /\ d \in Distinct(Ids) /\ D \subseteq TK \ TQ
      /\ m.fly = Len(m.taken) - Len(d)
      /\ \A i \in D \cap Q : ~Requests[i].write
      /\ m.data \notin IdsOf(w)
      /\ W \subseteq {i \in TK : Requests[i].write}
      /\ W \cap (TQ \cup Q \cup D) = {}
      /\ m.reads \in Distinct(Ids)
      /\ ToSet(m.reads) \subseteq {i \in TK : ~Requests[i].write}
      /\ ToSet(m.reads) \cap (TQ \cup D) = {}
  BY DEF Owed, Books
<1>4. Q \subseteq TK /\ TQ \cap Q = {} /\ TK \subseteq Ids /\ 0 \notin Ids
  BY SetsOf, IdsAre
<1>5. W = IdsOf(w) \cup ({m.data} \ {0})
  BY DEF Written
<1>6. wr => x \notin W /\ x \notin D /\ x \notin TQ /\ x \in TK
  BY <1>2, <1>3, <1>4
<1>7. w \in Timed /\ T.WL \in Int
  BY Delays
<1> HIDE DEF w, x, TK, TQ, Q, Q2, D, W, wr
<1>8. IdsOf(n.wdata) = IdsOf(w) \cup (IF wr THEN {x} ELSE {})
  <2>1. CASE wr
    <3> DEFINE wl == T.WL
    <3>1. x \in Ids /\ wl \in Int /\ x \notin IdsOf(w)
      BY <1>2, <1>5, <1>6, <1>7, <2>1
    <3> HIDE DEF wl
    <3>2. IdsOf(Append(w, <<x, wl>>)) = IdsOf(w) \cup {x}
      BY <1>7, <3>1, TimedAppend
    <3> QED
      BY <1>1, <2>1, <3>2 DEF wl
  <2>2. CASE ~wr
    BY <1>1, <2>2
  <2> QED
    BY <2>1, <2>2
<1>9. /\ n.data \notin IdsOf(n.wdata)
      /\ Written(n) = W \cup (IF wr THEN {x} ELSE {})
  <2>1. Written(n) = IdsOf(n.wdata) \cup ({m.data} \ {0})
    BY <1>1 DEF Written
  <2>2. wr => x # m.data
    BY <1>2, <1>4, <1>5, <1>6
  <2> QED
    BY <1>1, <1>3, <1>5, <1>8, <2>1, <2>2
<1>10. /\ \A i \in D \cap Q2 : ~Requests[i].write
       /\ Written(n) \subseteq {i \in TK : Requests[i].write}
       /\ Written(n) \cap (TQ \cup Q2 \cup D) = {}
  <2>1. CASE wr
    BY <1>2, <1>3, <1>6, <1>9, <2>1
  <2>2. CASE ~wr
    BY <1>2, <1>3, <1>9, <2>2
  <2> QED
    BY <2>1, <2>2
<1>11. Books(n, d)
  BY <1>1, <1>3, <1>9, <1>10 DEF Books, TK, TQ, D, Q2
<1>12. Under(m) \in SUBSET Ids /\ ToSet(m.reads) \in SUBSET Ids
       /\ Under(m) \subseteq TK \ TQ /\ Enough(Under(m), ToSet(m.reads))
  BY <1>3, <1>4 DEF Owed, Waited, TK, TQ
<1>13. Waited(n)
  <2>1. Enough(Under(n), ToSet(m.reads))
    BY <1>12, EnoughLess
  <2> QED
    BY <1>1, <1>12, <2>1 DEF Waited, TK, TQ
<1>14. wr => x \in Ids \ IdsOf(w)
  BY <1>2, <1>5, <1>6
<1> QED
  BY <1>11, <1>13, <1>14 DEF Owed, wr, x, w

\* A transaction enters the queue of its rank, a read also the pending ones.
LEMMA QueuedOwed ==
    ASSUME NEW m, NEW n, NEW d, NEW x \in Ids, Owed(m, d), Lined(m), x \in ToSet(m.tq),
           n.taken = m.taken, ToSet(n.tq) = ToSet(m.tq) \ {x}, QSet(n) \subseteq QSet(m) \cup {x},
           n.fly = m.fly, n.data = m.data, n.wdata = m.wdata,
           n.reads = (IF Requests[x].write THEN m.reads ELSE Append(m.reads, x)),
           Under(n) \subseteq Under(m) \cup (IF Requests[x].write THEN {} ELSE {x})
    PROVE  Owed(n, d)
<1> DEFINE TK == ToSet(m.taken)
           TQ == ToSet(m.tq)
           RD == ToSet(m.reads)
           Q == QSet(m)
           D == ToSet(d)
           U == Under(m)
           wr == Requests[x].write
<1>1. /\ d \in Distinct(Ids) /\ D \subseteq TK \ TQ
      /\ m.fly = Len(m.taken) - Len(d)
      /\ \A i \in D \cap Q : ~Requests[i].write
      /\ m.data \notin IdsOf(m.wdata)
      /\ Written(m) \subseteq {i \in TK : Requests[i].write}
      /\ Written(m) \cap (TQ \cup Q \cup D) = {}
      /\ m.reads \in Distinct(Ids)
      /\ RD \subseteq {i \in TK : ~Requests[i].write}
      /\ RD \cap (TQ \cup D) = {}
      /\ U \subseteq TK \ TQ /\ Enough(U, RD)
  BY DEF Owed, Books, Waited
<1>2. TK \subseteq Ids /\ TQ \subseteq TK
  BY SetsOf
<1>3. Written(n) = Written(m)
  BY DEF Written
<1>4. x \in TQ /\ wr \in BOOLEAN
  BY RequestType
<1> HIDE DEF TK, TQ, RD, Q, D, U, wr
<1>5. x \notin RD /\ x \notin U /\ x \in TK
  BY <1>1, <1>2, <1>4
<1>6. /\ n.reads \in Distinct(Ids) /\ ToSet(n.reads) = RD \cup (IF wr THEN {} ELSE {x})
  <2>1. CASE wr
    BY <1>1, <2>1 DEF wr, RD
  <2>2. CASE ~wr
    <3> DEFINE rd == m.reads
    <3>1. rd \in Distinct(Ids) /\ x \notin ToSet(rd)
      BY <1>1, <1>5 DEF RD
    <3>2. n.reads = Append(rd, x)
      BY <2>2 DEF wr
    <3> HIDE DEF rd
    <3>3. Append(rd, x) \in Distinct(Ids) /\ ToSet(Append(rd, x)) = ToSet(rd) \cup {x}
      BY <3>1, DistinctAppend
    <3> QED
      BY <2>2, <3>2, <3>3 DEF rd, RD
  <2> QED
    BY <2>1, <2>2
<1>7. /\ D \subseteq TK \ (TQ \ {x})
      /\ \A i \in D \cap (Q \cup {x}) : ~Requests[i].write
      /\ Written(m) \cap ((TQ \ {x}) \cup (Q \cup {x}) \cup D) = {}
      /\ ToSet(n.reads) \subseteq {i \in TK : ~Requests[i].write}
      /\ ToSet(n.reads) \cap ((TQ \ {x}) \cup D) = {}
  BY <1>1, <1>4, <1>5, <1>6 DEF wr
<1>8. Books(n, d)
  <2>1. ToSet(n.taken) = TK /\ ToSet(n.tq) = TQ \ {x} /\ QSet(n) \subseteq Q \cup {x}
    BY DEF TK, TQ, Q
  <2>2. /\ \A i \in D \cap QSet(n) : ~Requests[i].write
        /\ Written(m) \cap (ToSet(n.tq) \cup QSet(n) \cup D) = {}
    BY <1>7, <2>1
  <2> QED
    BY <1>1, <1>3, <1>6, <1>7, <2>1, <2>2 DEF Books, D
<1>9. Under(n) \subseteq TK \ (TQ \ {x}) /\ Under(n) \subseteq U \cup (IF wr THEN {} ELSE {x})
  BY <1>1, <1>5 DEF U, wr
<1>10. Enough(Under(n), ToSet(n.reads))
  <2>1. U \in SUBSET Ids /\ RD \in SUBSET Ids
    BY <1>1, <1>2
  <2>2. CASE wr
    <3>1. Under(n) \in SUBSET U /\ ToSet(n.reads) = RD
      BY <1>6, <1>9, <2>2
    <3> QED
      BY <1>1, <2>1, <3>1, EnoughLess
  <2>3. CASE ~wr
    <3>1. Enough(U \cup {x}, RD \cup {x})
      BY <1>1, <1>5, <2>1, EnoughMore
    <3>2. Under(n) \in SUBSET (U \cup {x}) /\ ToSet(n.reads) = RD \cup {x}
      BY <1>6, <1>9, <2>3
    <3>3. U \cup {x} \in SUBSET Ids /\ RD \cup {x} \in SUBSET Ids
      BY <2>1
    <3> QED
      BY <3>1, <3>2, <3>3, EnoughLess
  <2> QED
    BY <2>2, <2>3
<1>11. Waited(n)
  BY <1>9, <1>10 DEF Waited, TK, TQ
<1> QED
  BY <1>8, <1>11 DEF Owed

\* What the first returned datum adds to the answered requests.
Replied(m) == m.ret # <<>> /\ Answered(m) # {}
Told(m, d) == IF Replied(m) THEN Append(d, m.reads[Min(Answered(m))]) ELSE d

\* A returned datum always finds its read, which is then answered.
LEMMA ReturnOwed ==
    ASSUME NEW m, NEW d, IsMem(m), Owed(m, d), Lined(m), Way(m), m.panic = FALSE
    PROVE  LET n == ReturnData(m)
           IN  /\ Owed(n, Told(m, d)) /\ Way(n) /\ n.panic = FALSE
               /\ Same(m, n, {"ret", "reads", "fly", "panic"})
<1> DEFINE n == ReturnData(m)
           reads == m.reads
           A == Answered(m)
           k == Min(A)
           h == Head(m.ret)
           RD == ToSet(reads)
           U == Under(m)
           TK == ToSet(m.taken)
           TQ == ToSet(m.tq)
           Q == QSet(m)
           D == ToSet(d)
<1>1. /\ Same(m, n, {"ret", "reads", "fly", "panic"})
      /\ m.ret = <<>> => n = m
      /\ m.ret # <<>> /\ A # {}
           => /\ n.ret = Tail(m.ret) /\ n.reads = RemoveAt(reads, k)
              /\ n.fly = m.fly - 1 /\ n.panic = m.panic
  BY ReturnFields
<1>2. /\ d \in Distinct(Ids) /\ D \subseteq TK \ TQ
      /\ m.fly = Len(m.taken) - Len(d)
      /\ \A i \in D \cap Q : ~Requests[i].write
      /\ m.data \notin IdsOf(m.wdata)
      /\ Written(m) \subseteq {i \in TK : Requests[i].write}
      /\ Written(m) \cap (TQ \cup Q \cup D) = {}
      /\ reads \in Distinct(Ids)
      /\ RD \subseteq {i \in TK : ~Requests[i].write}
      /\ RD \cap (TQ \cup D) = {}
      /\ U \subseteq TK \ TQ /\ Enough(U, RD)
  BY DEF Owed, Books, Waited
<1>3. TK \subseteq Ids /\ Len(m.taken) \in Nat
  BY SetsOf
<1> HIDE DEF n
<1>4. CASE m.ret = <<>>
  <2>1. n = m /\ Told(m, d) = d
    BY <1>1, <1>4 DEF Told, Replied
  <2>2. Same(m, n, {"ret", "reads", "fly", "panic"})
    BY <1>1
  <2> QED
    BY <2>1, <2>2 DEF n
<1>5. CASE m.ret # <<>>
  <2>1. /\ \A f \in WayParts \ {"ret"} : n[f] = m[f]
        /\ n.taken = m.taken /\ n.tq = m.tq /\ n.q = m.q /\ n.data = m.data /\ n.wdata = m.wdata
    BY <1>1 DEF Same, MemFields, WayParts
  <2>2. h \in U
    <3>1. m.ret \in Distinct(Ids)
      BY DEF Way, WayType
    <3>2. h \in ToSet(m.ret)
      BY <1>5, <3>1, MembersOf DEF Distinct
    <3> QED
      BY <3>2 DEF Under
  <2>3. /\ Len(reads) \in Nat /\ DOMAIN reads = 1 .. Len(reads) /\ reads \in Seq(Ids)
    BY <1>2, LenProperties DEF Distinct
  <2>4. A # {}
    <3>1. PICK y \in RD : Cell(y) = Cell(h)
      BY <1>2, <1>3, <2>2, EnoughHas
    <3>2. PICK i \in DOMAIN reads : reads[i] = y
      BY DEF ToSet
    <3> QED
      BY <3>1, <3>2 DEF Answered
  <2>5. k \in A
    <3>1. A \in SUBSET Nat
      BY <2>3 DEF Answered
    <3> HIDE DEF A
    <3> QED
      BY <2>4, <3>1, MinIs
  <2>6. k \in 1 .. Len(reads) /\ Cell(reads[k]) = Cell(h)
    BY <2>3, <2>5 DEF Answered
  <2>7. /\ n.ret = Tail(m.ret) /\ n.reads = RemoveAt(reads, k) /\ n.fly = m.fly - 1
        /\ n.panic = FALSE
    BY <1>1, <1>5, <2>4
  <2>8. Told(m, d) = Append(d, reads[k])
    BY <1>5, <2>4 DEF Told, Replied
  <2> HIDE DEF k, A
  <2> DEFINE y == reads[k]
             e == Append(d, y)
  <2>9. /\ RemoveAt(reads, k) \in Distinct(Ids) /\ ToSet(RemoveAt(reads, k)) = RD \ {y}
        /\ y \in RD
    <3> HIDE DEF reads
    <3>1. RemoveAt(reads, k) \in Distinct(Ids) /\ ToSet(RemoveAt(reads, k)) = ToSet(reads) \ {reads[k]}
      BY <1>2, <2>6, DistinctRemoveAt
    <3>2. reads[k] \in ToSet(reads)
      BY <2>3, <2>6, MembersOf
    <3> QED
      BY <3>1, <3>2
  <2>10. Way(n) /\ Under(n) \subseteq U \ {h}
    BY <1>5, <2>1, <2>7, ReturnedWay
  <2>11. QSet(n) = Q /\ Written(n) = Written(m)
    BY <2>1 DEF QSet, Written
  <2>12. y \in Ids /\ y \notin D /\ y \in TK \ TQ /\ ~Requests[y].write /\ Cell(y) = Cell(h)
    BY <1>2, <1>3, <2>6, <2>9
  <2> HIDE DEF RD, U, TK, TQ, Q, D, y, h, reads
  <2>13. e \in Distinct(Ids) /\ ToSet(e) = D \cup {y} /\ Len(e) = Len(d) + 1 /\ Len(d) \in Nat
    <3>1. e \in Distinct(Ids) /\ ToSet(e) = D \cup {y}
      BY <1>2, <2>12, DistinctAppend DEF D
    <3>2. d \in Seq(Ids) /\ Len(d) \in Nat
      BY <1>2, LenProperties DEF Distinct
    <3>3. Len(e) = Len(d) + 1
      BY <2>12, <3>2, AppendProperties
    <3> QED
      BY <3>1, <3>2, <3>3
  <2> HIDE DEF e
  <2>14. /\ n.fly = Len(n.taken) - Len(e)
    BY <1>2, <1>3, <2>1, <2>7, <2>13
  <2>15. /\ \A i \in ToSet(e) \cap Q : ~Requests[i].write
         /\ ToSet(e) \subseteq TK \ TQ
         /\ Written(m) \cap (TQ \cup Q \cup ToSet(e)) = {}
         /\ RD \ {y} \subseteq {i \in TK : ~Requests[i].write}
         /\ (RD \ {y}) \cap (TQ \cup ToSet(e)) = {}
    BY <1>2, <2>12, <2>13
  <2>16. Books(n, e)
    BY <1>2, <2>1, <2>7, <2>9, <2>11, <2>13, <2>14, <2>15 DEF Books, TK, TQ
  <2>17. Enough(Under(n), RD \ {y})
    <3>1. U \in SUBSET Ids /\ RD \in SUBSET Ids
      BY <1>2, <1>3
    <3>2. h \in U /\ y \in RD
      BY <2>2, <2>9 DEF U, h, RD, y, reads
    <3>3. Enough(U \ {h}, RD \ {y})
      BY <1>2, <2>12, <3>1, <3>2, EnoughBoth
    <3>4. U \ {h} \in SUBSET Ids /\ RD \ {y} \in SUBSET Ids /\ Under(n) \in SUBSET (U \ {h})
      BY <2>10, <3>1 DEF U, h
    <3> QED
      BY <3>3, <3>4, EnoughLess
  <2>18. Waited(n)
    <3>1. Under(n) \subseteq TK \ TQ
      BY <1>2, <2>10 DEF U
    <3> QED
      BY <2>1, <2>7, <2>9, <2>17, <3>1 DEF Waited, TK, TQ
  <2> QED
    BY <1>1, <2>7, <2>8, <2>10, <2>16, <2>18 DEF Owed, n, y, e
<1> QED
  BY <1>4, <1>5

-----------------------------------------------------------------------------
(* The end.                                                                *)

\* A part as large as the whole is the whole.
LEMMA SameSize ==
    ASSUME NEW S, NEW s \in Distinct(S), NEW t \in Distinct(S), ToSet(s) \subseteq ToSet(t),
           Len(t) - Len(s) = 0
    PROVE  ToSet(s) = ToSet(t)
<1>1. IsFiniteSet(ToSet(s)) /\ Cardinality(ToSet(s)) = Len(s)
  BY DistinctCount
<1>2. IsFiniteSet(ToSet(t)) /\ Cardinality(ToSet(t)) = Len(t)
  BY DistinctCount
<1>3. Len(s) \in Nat /\ Len(t) \in Nat
  BY LenProperties DEF Distinct
<1>4. Cardinality(ToSet(s)) = Cardinality(ToSet(t))
  BY <1>1, <1>2, <1>3
<1> QED
  BY <1>1, <1>2, <1>4, FS_Subset

\* When nothing is on the fly, nothing waits for the bus.
LEMMA NothingOwed ==
    ASSUME NEW m, NEW d, Owed(m, d), Lined(m), Way(m), m.fly = 0
    PROVE  m.tq = <<>> /\ \A r \in Ranks : m.q[r] = <<>>
<1> DEFINE TK == ToSet(m.taken)
           D == ToSet(d)
           RD == ToSet(m.reads)
           U == Under(m)
<1>1. d \in Distinct(Ids) /\ m.taken \in Distinct(Ids) /\ D \subseteq TK
      /\ Len(m.taken) - Len(d) = 0
  BY SetsOf DEF Owed, Books
<1>2. D = TK
  BY <1>1, SameSize
<1>3. /\ D \cap ToSet(m.tq) = {} /\ ToSet(m.tq) \subseteq TK /\ QSet(m) \subseteq TK
      /\ RD \subseteq TK /\ RD \cap D = {}
      /\ \A i \in D \cap QSet(m) : ~Requests[i].write
      /\ U \subseteq TK /\ TK \subseteq Ids /\ Enough(U, RD)
  BY SetsOf DEF Owed, Books, Waited
<1>4. ToSet(m.tq) = {} /\ RD = {}
  BY <1>2, <1>3
<1>5. U = {}
  <2>1. SUFFICES ASSUME NEW h \in U PROVE FALSE
    OBVIOUS
  <2>2. U \in SUBSET Ids /\ RD \in SUBSET Ids
    BY <1>3
  <2>3. \E y \in RD : Cell(y) = Cell(h)
    BY <1>3, <2>2, EnoughHas
  <2> QED
    BY <1>4, <2>3
<1>6. ASSUME NEW r \in Ranks PROVE m.q[r] = <<>>
  <2>1. m.q[r] \in Seq(Ids)
    BY DEF Lined, Distinct
  <2>2. ASSUME NEW x \in ToSet(m.q[r]) PROVE FALSE
    <3>1. x \in QSet(m) /\ x \in Ids /\ Requests[x].rank = r
      BY <1>3 DEF QSet, Lined
    <3>2. ~Requests[x].write
      BY <1>2, <1>3, <3>1
    <3>3. x \in QueuedReads(m, r)
      BY <3>1, <3>2 DEF QueuedReads, ReadsOf, AllReads
    <3> QED
      BY <1>5, <3>3 DEF Under
  <2> QED
    BY <2>1, <2>2, MembersOf
<1>7. m.tq = <<>>
  <2>1. m.tq \in Seq(Ids)
    BY DEF Lined, Distinct
  <2> QED
    BY <1>4, <2>1, MembersOf
<1> QED
  BY <1>6, <1>7

-----------------------------------------------------------------------------
(* One update, part by part.                                               *)

Sane(m) == IsMem(m) /\ m.panic = FALSE /\ Turns(m) /\ m.dueRank \in Ranks
Flow(m, s, d) == Lines(m, s) /\ Way(m) /\ Owed(m, d)
\* The requests the channel has are those before nx.
Tallied(m, nx) == /\ nx \in Nat /\ Len(m.taken) + Len(m.pend) = nx - 1
                  /\ \A i \in ToSet(m.taken) \cup ToSet(m.pend) : i < nx
\* A transaction overflows only when others wait.
Held(m) == m.pend # <<>> => m.tq # <<>>

PointerParts == {"panic", "refRank", "nextRank", "nextPre", "dueRank"}
FlowParts == LineParts \cup OwedParts \cup {"wdata"}

\* Sane depends on these fields alone.
LEMMA SaneSame ==
    ASSUME NEW m, NEW n, Sane(m), IsMem(n), \A f \in PointerParts : n[f] = m[f]
    PROVE  Sane(n)
<1>1. /\ n.panic = m.panic /\ n.refRank = m.refRank /\ n.nextRank = m.nextRank
      /\ n.nextPre = m.nextPre /\ n.dueRank = m.dueRank
  BY DEF PointerParts
<1> QED
  BY <1>1 DEF Sane, Turns

\* Flow depends on these fields alone.
LEMMA FlowSame ==
    ASSUME NEW m, NEW n, NEW s, NEW d, Flow(m, s, d), \A f \in FlowParts : n[f] = m[f],
           Way(n), Under(n) \subseteq Under(m)
    PROVE  Flow(n, s, d)
<1>1. /\ \A f \in LineParts : n[f] = m[f]
      /\ \A f \in OwedParts : n[f] = m[f]
      /\ n.wdata = m.wdata
  BY DEF FlowParts
<1>2. Lines(n, s)
  BY <1>1, LinesSame DEF Flow
<1>3. Lined(m) /\ Owed(m, d)
  BY DEF Flow, Lines
<1>4. Owed(n, d)
  BY <1>1, <1>3, OwedSame
<1> QED
  BY <1>2, <1>4 DEF Flow

\* The count depends on what was taken and what overflowed.
LEMMA TalliedSame ==
    ASSUME NEW m, NEW n, NEW nx, Tallied(m, nx), n.taken = m.taken, n.pend = m.pend
    PROVE  Tallied(n, nx)
BY DEF Tallied

\* The ranks.
LEMMA RanksPart ==
    ASSUME NEW m, NEW s, NEW d, NEW nx, Sane(m), Flow(m, s, d), Tabled(m), BusOK(m, 1),
           Tallied(m, nx)
    PROVE  LET n == RanksUpdate(m)
           IN  Sane(n) /\ Flow(n, s, d) /\ Tabled(n) /\ BusOK(n, 1) /\ Tallied(n, nx)
<1> DEFINE n == RanksUpdate(m)
<1>1. IsMem(m) /\ Queues(m) /\ Way(m)
  BY LinedQueues DEF Sane, Flow, Lines
<1>2. Ranked(m, n)
  BY <1>1, RanksMove
<1> HIDE DEF n
<1>3. IsMem(n) /\ Same(m, n, RankParts) /\ Way(n) /\ Under(n) \subseteq Under(m)
  BY <1>2 DEF Ranked
<1>4. \A f \in MemFields \ RankParts : n[f] = m[f]
  BY <1>3 DEF Same
<1>5. Sane(n)
  <2>1. \A f \in PointerParts : n[f] = m[f]
    BY <1>4 DEF PointerParts, MemFields, RankParts
  <2> QED
    BY <1>3, <2>1, SaneSame
<1>6. Flow(n, s, d)
  <2>1. \A f \in FlowParts : n[f] = m[f]
    BY <1>4 DEF FlowParts, LineParts, OwedParts, MemFields, RankParts
  <2> QED
    BY <1>3, <2>1, FlowSame
<1>7. Tabled(n)
  <2>1. \A f \in TableParts : n[f] = m[f]
    BY <1>4 DEF TableParts, MemFields, RankParts
  <2> QED
    BY <2>1, TabledSame
<1>8. BusOK(n, 1)
  <2>1. \A f \in BusParts : n[f] = m[f]
    BY <1>4 DEF BusParts, MemFields, RankParts
  <2> QED
    BY <2>1, BusSame
<1>9. Tallied(n, nx)
  <2>1. n.taken = m.taken /\ n.pend = m.pend
    BY <1>4 DEF MemFields, RankParts
  <2> QED
    BY <2>1, TalliedSame
<1> QED
  BY <1>5, <1>6, <1>7, <1>8, <1>9 DEF n

\* The controller takes x: what accepting it keeps.
LEMMA AcceptPart ==
    ASSUME NEW m, NEW n, NEW s, NEW d, NEW x \in Ids, Sane(m), Flow(m, s, d), Tabled(m),
           BusOK(m, 1), Same(m, n, {"pend", "tq", "taken", "fly"}), x \notin ToSet(m.taken),
           n.taken = Append(m.taken, x), n.tq = Append(m.tq, x), n.fly = m.fly + 1,
           n.pend \in Distinct(Ids), ToSet(n.pend) \cap (ToSet(m.taken) \cup {x}) = {}
    PROVE  Sane(n) /\ Flow(n, s, d) /\ Tabled(n) /\ BusOK(n, 1)
<1>1. IsMem(n) /\ \A f \in MemFields \ {"pend", "tq", "taken", "fly"} : n[f] = m[f]
  BY DEF Same
<1>2. Sane(n)
  <2>1. \A f \in PointerParts : n[f] = m[f]
    BY <1>1 DEF PointerParts, MemFields
  <2> QED
    BY <1>1, <2>1, SaneSame
<1>3. Tabled(n)
  <2>1. \A f \in TableParts : n[f] = m[f]
    BY <1>1 DEF TableParts, MemFields
  <2> QED
    BY <2>1, TabledSame
<1>4. BusOK(n, 1)
  <2>1. \A f \in BusParts : n[f] = m[f]
    BY <1>1 DEF BusParts, MemFields
  <2> QED
    BY <2>1, BusSame
<1>5. Lines(m, s) /\ Lined(m) /\ Way(m) /\ Owed(m, d)
  BY DEF Flow, Lines
<1>6. /\ n.q = m.q /\ n.bars = m.bars /\ n.data = m.data /\ n.wdata = m.wdata
      /\ n.reads = m.reads
  BY <1>1 DEF MemFields
<1>7. Way(n) /\ Under(n) = Under(m)
  <2>1. \A f \in WayParts : n[f] = m[f]
    BY <1>1 DEF WayParts, MemFields
  <2> QED
    BY <1>5, <2>1, WaySame
<1>8. Lines(n, s)
  BY <1>5, <1>6, AcceptLines
<1>9. Owed(n, d)
  BY <1>5, <1>6, <1>7, AcceptOwed
<1> QED
  BY <1>2, <1>3, <1>4, <1>7, <1>8, <1>9 DEF Flow

\* MemorySystem::update.
LEMMA DrainPart ==
    ASSUME NEW m, NEW s, NEW d, NEW nx, Sane(m), Flow(m, s, d), Tabled(m), BusOK(m, 1),
           Tallied(m, nx)
    PROVE  LET n == DrainPending(m)
           IN  /\ Sane(n) /\ Flow(n, s, d) /\ Tabled(n) /\ BusOK(n, 1) /\ Tallied(n, nx)
               /\ Held(n)
<1> DEFINE n == DrainPending(m)
           pend == m.pend
           taken == m.taken
           x == Head(pend)
<1>1. /\ Same(m, n, {"pend", "tq", "taken", "fly"})
      /\ IF pend # <<>> /\ WillAccept(m)
         THEN /\ n.pend = Tail(pend) /\ n.tq = Append(m.tq, x)
              /\ n.taken = Append(taken, x) /\ n.fly = m.fly + 1
         ELSE n = m
  BY DrainFields DEF Sane
<1>2. /\ pend \in Distinct(Ids) /\ taken \in Distinct(Ids) /\ m.tq \in Distinct(Ids)
      /\ ToSet(taken) \cap ToSet(pend) = {}
  BY DEF Flow, Lines, Lined
<1>3. pend \in Seq(Ids) /\ taken \in Seq(Ids) /\ m.tq \in Seq(Ids)
  BY <1>2 DEF Distinct
<1> HIDE DEF n, pend, taken
<1>4. CASE pend # <<>> /\ WillAccept(m)
  <2>1. /\ n.pend = Tail(pend) /\ n.tq = Append(m.tq, x)
        /\ n.taken = Append(taken, x) /\ n.fly = m.fly + 1
    BY <1>1, <1>4
  <2>2. /\ Tail(pend) \in Distinct(Ids) /\ ToSet(Tail(pend)) = ToSet(pend) \ {x}
        /\ x \in ToSet(pend) /\ x \in Ids /\ Len(Tail(pend)) = Len(pend) - 1 /\ Len(pend) \in Nat
    <3>1. Tail(pend) \in Distinct(Ids) /\ ToSet(Tail(pend)) = ToSet(pend) \ {x}
      BY <1>2, <1>4, DistinctTail
    <3>2. x \in ToSet(pend) /\ ToSet(pend) \subseteq Ids
      BY <1>3, <1>4, MembersOf
    <3>3. Len(Tail(pend)) = Len(pend) - 1 /\ Len(pend) \in Nat
      BY <1>3, <1>4, HeadTailProperties, LenProperties
    <3> QED
      BY <3>1, <3>2, <3>3
  <2> HIDE DEF x
  <2>3. /\ x \notin ToSet(taken) /\ ToSet(n.pend) \cap (ToSet(taken) \cup {x}) = {}
        /\ n.pend \in Distinct(Ids)
    BY <1>2, <2>1, <2>2
  <2>4. Sane(n) /\ Flow(n, s, d) /\ Tabled(n) /\ BusOK(n, 1)
    BY <1>1, <2>1, <2>2, <2>3, AcceptPart DEF taken
  <2>5. Tallied(n, nx)
    <3>1. ToSet(n.taken) = ToSet(taken) \cup {x}
      BY <1>2, <2>1, <2>2, <2>3, DistinctAppend
    <3>2. Len(n.taken) = Len(taken) + 1 /\ Len(taken) \in Nat
      BY <1>3, <2>1, <2>2, AppendProperties, LenProperties
    <3>3. nx \in Nat /\ Len(taken) + Len(pend) = nx - 1
          /\ \A i \in ToSet(taken) \cup ToSet(pend) : i < nx
      BY DEF Tallied, taken, pend
    <3>6. Len(n.pend) = Len(pend) - 1 /\ Len(pend) \in Nat
      BY <2>1, <2>2
    <3>4. Len(n.taken) + Len(n.pend) = nx - 1
      BY <3>2, <3>3, <3>6
    <3>5. ToSet(n.taken) \cup ToSet(n.pend) \subseteq ToSet(taken) \cup ToSet(pend)
      BY <2>1, <2>2, <3>1
    <3> QED
      BY <3>3, <3>4, <3>5 DEF Tallied
  <2>6. n.tq # <<>>
    <3> DEFINE tq == m.tq
    <3>1. tq \in Seq(Ids) /\ n.tq = Append(tq, x)
      BY <1>3, <2>1
    <3> HIDE DEF tq
    <3>2. Append(tq, x) # <<>>
      BY <2>2, <3>1, AppendProperties
    <3> QED
      BY <3>1, <3>2
  <2> QED
    BY <2>4, <2>5, <2>6 DEF Held, n
<1>5. CASE ~(pend # <<>> /\ WillAccept(m))
  <2>1. n = m
    BY <1>1, <1>5
  <2>2. Held(m)
    <3>1. SUFFICES ASSUME ~WillAccept(m) PROVE m.tq # <<>>
      BY <1>5 DEF Held, pend
    <3>2. TransDepth \in Nat \ {0} /\ Len(<<>>) = 0
      BY MemAssumption
    <3> QED
      BY <3>1, <3>2 DEF WillAccept
  <2> QED
    BY <2>1, <2>2 DEF n
<1> QED
  BY <1>4, <1>5

\* updateBankState and the command bus.
LEMMA BusPart ==
    ASSUME NEW m, NEW s, NEW d, NEW nx, Sane(m), Flow(m, s, d), Tabled(m), BusOK(m, 1),
           Tallied(m, nx), Held(m)
    PROVE  LET n == CommandBus(UpdateBankState(m))
           IN  /\ Sane(n) /\ Flow(n, s, d) /\ Tabled(n) /\ BusOK(n, 1) /\ Tallied(n, nx)
               /\ Held(n) /\ n.cmd = NoPacket
<1> DEFINE x == UpdateBankState(m)
           n == CommandBus(x)
           CP == {"cmd", "cmdLeft", "dev", "rdata", "panic"}
<1>1. /\ Same(m, x, {"bank"})
      /\ x.bank = [r \in Ranks |-> [b \in Banks |-> BankTick(m.bank[r][b])]]
  BY TickFields DEF Sane
<1> HIDE DEF x
<1>2. IsMem(x) /\ \A f \in MemFields \ {"bank"} : x[f] = m[f]
  BY <1>1 DEF Same
<1>3. Tabled(x) /\ BusOK(x, 1)
  BY <1>1, TickTabled, TickBus
<1>4. Way(x) /\ Under(x) = Under(m)
  <2>1. \A f \in WayParts : x[f] = m[f]
    BY <1>2 DEF WayParts, MemFields
  <2> QED
    BY <2>1, WaySame DEF Flow
<1>5. x.panic = FALSE /\ x.rdata = [r \in Ranks |-> x.rdata[r]]
  BY <1>2, <1>4 DEF Sane, MemFields, Way, WayType
<1>6. /\ Tabled(n) /\ n.cmd = NoPacket /\ n.panic = FALSE /\ Same(x, n, CP)
      /\ n.rdata = (IF x.cmd = NoPacket THEN x.rdata ELSE Fetched(x, x.cmd))
  BY <1>2, <1>3, <1>5, CommandTabled
<1> HIDE DEF n
<1>7. Way(n) /\ Under(n) \subseteq Under(x)
  BY <1>2, <1>3, <1>4, <1>6, CommandWay
<1>8. IsMem(n) /\ \A f \in MemFields \ CP : n[f] = x[f]
  BY <1>6 DEF Same
<1>9. \A f \in MemFields \ (CP \cup {"bank"}) : n[f] = m[f]
  BY <1>2, <1>8
<1>10. BusOK(n, 1)
  <2>1. \A f \in BusParts : n[f] = x[f]
    BY <1>8 DEF BusParts, MemFields
  <2> QED
    BY <1>3, <2>1, BusSame
<1>11. Sane(n)
  <2>1. \A f \in PointerParts : n[f] = m[f]
    BY <1>6, <1>9 DEF PointerParts, MemFields, Sane
  <2> QED
    BY <1>8, <2>1, SaneSame
<1>12. Flow(n, s, d)
  <2>1. \A f \in FlowParts : n[f] = m[f]
    BY <1>9 DEF FlowParts, LineParts, OwedParts, MemFields
  <2> QED
    BY <1>4, <1>7, <2>1, FlowSame
<1>13. Tallied(n, nx) /\ Held(n)
  <2>1. n.taken = m.taken /\ n.pend = m.pend /\ n.tq = m.tq
    BY <1>9 DEF MemFields
  <2> QED
    BY <2>1, TalliedSame DEF Held
<1> QED
  BY <1>6, <1>10, <1>11, <1>12, <1>13 DEF n, x

\* The data bus and updateRefresh.
LEMMA DataPart ==
    ASSUME NEW m, NEW s, NEW d, NEW nx, Sane(m), Flow(m, s, d), Tabled(m), BusOK(m, 1),
           Tallied(m, nx), Held(m), m.cmd = NoPacket
    PROVE  LET n == UpdateRefresh(DataBus(m))
           IN  /\ Sane(n) /\ Flow(n, s, Wrote(m, d)) /\ Tabled(n) /\ BusOK(n, 0)
               /\ Tallied(n, nx) /\ Held(n) /\ n.cmd = NoPacket
<1> DEFINE x == DataBus(m)
           n == UpdateRefresh(x)
           e == Wrote(m, d)
           XP == {"data", "dataLeft", "wdata", "fly", "panic"}
           RP == {"refWait", "refRank", "due", "dueRank"}
<1>1. IsMem(m) /\ m.panic = FALSE /\ m.panic \in BOOLEAN
  BY DEF Sane
<1>2. Filled(m, x, Lowered(m.wdata), IF WriteEnds(m) THEN 0 ELSE m.data)
  BY <1>1, DataFields
<1> HIDE DEF x, e
<1>3. BusOK(x, 0) /\ x.panic = FALSE
  BY <1>1, <1>2, DataBusOK
<1>4. IsMem(x) /\ \A f \in MemFields \ XP : x[f] = m[f]
  BY <1>2 DEF Filled, Same
<1>5. Sane(x)
  <2>1. \A f \in PointerParts : x[f] = m[f]
    BY <1>1, <1>3, <1>4 DEF PointerParts, MemFields
  <2> QED
    BY <1>4, <2>1, SaneSame
<1>6. Lines(m, s) /\ Lined(m) /\ Way(m) /\ Owed(m, d)
  BY DEF Flow, Lines
<1>7. Way(x) /\ Under(x) = Under(m)
  <2>1. \A f \in WayParts : x[f] = m[f]
    BY <1>4 DEF WayParts, MemFields
  <2> QED
    BY <1>6, <2>1, WaySame
<1>8. Lines(x, s)
  <2>1. \A f \in LineParts : x[f] = m[f]
    BY <1>4 DEF LineParts, MemFields
  <2> QED
    BY <1>6, <2>1, LinesSame
<1>9. Owed(x, e)
  <2>1. m.wdata \in Timed /\ m.data \in Ids \cup {0}
    BY DEF BusOK, Spaced
  <2> QED
    BY <1>1, <1>2, <1>3, <1>6, <1>7, <2>1, DataOwed DEF e
<1>10. Flow(x, s, e)
  BY <1>7, <1>8, <1>9 DEF Flow
<1>11. Tabled(x)
  <2>1. \A f \in TableParts : x[f] = m[f]
    BY <1>4 DEF TableParts, MemFields
  <2> QED
    BY <2>1, TabledSame
<1>12. Turns(x) /\ x.dueRank \in Ranks
  BY <1>5 DEF Sane
<1>13. Same(x, n, RP) /\ Turns(n) /\ n.dueRank \in Ranks
  BY <1>4, <1>12, RefreshFields
<1> HIDE DEF n
<1>14. IsMem(n) /\ \A f \in MemFields \ RP : n[f] = x[f]
  BY <1>13 DEF Same
<1>15. Sane(n)
  <2>1. n.panic = x.panic
    BY <1>14 DEF MemFields
  <2> QED
    BY <1>3, <1>13, <1>14, <2>1 DEF Sane
<1>16. Way(n) /\ Under(n) = Under(x)
  <2>1. \A f \in WayParts : n[f] = x[f]
    BY <1>14 DEF WayParts, MemFields
  <2> QED
    BY <1>7, <2>1, WaySame
<1>17. Flow(n, s, e)
  <2>1. \A f \in FlowParts : n[f] = x[f]
    BY <1>14 DEF FlowParts, LineParts, OwedParts, MemFields
  <2> QED
    BY <1>10, <1>16, <2>1, FlowSame
<1>18. Tabled(n)
  <2>1. \A f \in TableParts : n[f] = x[f]
    BY <1>14 DEF TableParts, MemFields
  <2> QED
    BY <1>11, <2>1, TabledSame
<1>19. BusOK(n, 0)
  <2>1. \A f \in BusParts : n[f] = x[f]
    BY <1>14 DEF BusParts, MemFields
  <2> QED
    BY <1>3, <2>1, BusSame
<1>20. Tallied(n, nx) /\ Held(n) /\ n.cmd = NoPacket
  <2>1. n.taken = m.taken /\ n.pend = m.pend /\ n.tq = m.tq /\ n.cmd = m.cmd
    BY <1>4, <1>14 DEF MemFields
  <2> QED
    BY <2>1, TalliedSame DEF Held
<1> QED
  BY <1>15, <1>17, <1>18, <1>19, <1>20 DEF n, x, e

\* What an access that Pop sends adds to the issued ones.
Going(m, n) == n.cmd # m.cmd /\ n.cmd.type \in {"READ", "WRITE"}
Gone(m, n, s) == IF Going(m, n) THEN Append(s, n.cmd.id) ELSE s

\* Pop; Ready says that the tables and the bus are right when the cycle ends.
Ready(n) == \A z : Aging(n, z) => Tabled(z) /\ BusOK(z, 1)

\* CommandQueue::pop.
LEMMA PopPart ==
    ASSUME DeviceTimes, NEW m, NEW s, NEW d, NEW nx, Sane(m), Flow(m, s, d), Tabled(m),
           BusOK(m, 0), Tallied(m, nx), Held(m), m.cmd = NoPacket
    PROVE  LET n == Pop(m)
           IN  Sane(n) /\ Flow(n, Gone(m, n, s), d) /\ Ready(n) /\ Tallied(n, nx) /\ Held(n)
<1> DEFINE n == Pop(m)
<1>1. /\ IsMem(m) /\ m.panic = FALSE /\ m.panic \in BOOLEAN /\ Turns(m) /\ Lined(m)
      /\ Way(m) /\ Owed(m, d) /\ Lines(m, s)
  BY DEF Sane, Flow, Lines
<1>2. Table(m)
  BY DEF Tabled, Table
<1>3. n = m \/ \E p : Sendable(m, p) /\ Sent(m, n, p)
  BY <1>1, <1>2, PopSent
<1> HIDE DEF n
<1>4. CASE n = m
  <2>1. Gone(m, n, s) = s
    BY <1>4 DEF Gone, Going
  <2>2. Ready(m)
    BY <1>2, IdleTabled, IdleBus DEF Ready
  <2> QED
    BY <1>4, <2>1, <2>2 DEF n
<1>5. ASSUME NEW p, Sendable(m, p), Sent(m, n, p)
      PROVE  Sane(n) /\ Flow(n, Gone(m, n, s), d) /\ Ready(n) /\ Tallied(n, nx) /\ Held(n)
  <2>1. /\ Same(m, n, SentParts) /\ Turns(n) /\ n.cmd = p
    BY <1>5 DEF Sent
  <2>2. IsMem(n) /\ \A f \in MemFields \ SentParts : n[f] = m[f]
    BY <2>1 DEF Same
  <2>3. Way(n) /\ Under(n) \subseteq Under(m)
    BY <1>1, <1>5, SentWay
  <2>4. m.wdata \in Timed /\ m.data \in Ids \cup {0}
    BY DEF BusOK, Spaced
  <2>5. Owed(n, d) /\ (p.type = "WRITE" => p.id \in Ids \ IdsOf(m.wdata))
    BY <1>1, <1>5, <2>3, <2>4, SentOwed
  <2>6. Ready(n)
    <3> SUFFICES ASSUME NEW z, Aging(n, z) PROVE Tabled(z) /\ BusOK(z, 1)
      BY DEF Ready
    <3>1. Tabled(z)
      BY <1>5, SentTabled
    <3>2. BusOK(z, 1)
      BY <1>5, <2>5, SentBus
    <3> QED
      BY <3>1, <3>2
  <2>7. Sane(n)
    <3>1. n.panic = m.panic /\ n.dueRank = m.dueRank
      BY <2>2 DEF MemFields, SentParts, Pointers
    <3> QED
      BY <2>1, <2>2, <3>1 DEF Sane
  <2>8. Tallied(n, nx) /\ Held(n)
    <3>1. n.taken = m.taken /\ n.pend = m.pend /\ n.tq = m.tq
      BY <2>2 DEF MemFields, SentParts, Pointers
    <3> QED
      BY <3>1, TalliedSame DEF Held
  <2>9. \A f \in LineParts \ {"q"} : n[f] = m[f]
    BY <2>2 DEF LineParts, MemFields, SentParts, Pointers
  <2>10. Lines(n, Gone(m, n, s))
    <3>1. CASE p.type \in {"READ", "WRITE"}
      <4>1. PICK k : Took(m, n, p, k)
        BY <1>5, <3>1 DEF Sent
      <4> DEFINE r == p.rank
                 x == m.q[r][k]
      <4>2. /\ r \in Ranks /\ k \in 1 .. Len(m.q[r]) /\ p = Access(x) /\ Free(m, m.q[r], k)
            /\ n.q = [m.q EXCEPT ![r] = RemoveAt(@, k)]
        BY <1>5, <4>1 DEF Took, Sendable, IsCommand
      <4>3. Lines(n, Append(s, x))
        BY <1>1, <2>9, <4>2, IssueLines
      <4>4. p.id = x
        <5>1. p.id = x
          BY <4>2 DEF Access, Packet
        <5> QED
          BY <5>1
      <4>5. n.cmd # m.cmd
        BY <2>1, <3>1 DEF NoPacket
      <4>6. Gone(m, n, s) = Append(s, x)
        BY <2>1, <3>1, <4>4, <4>5 DEF Gone, Going
      <4> QED
        BY <4>3, <4>6
    <3>2. CASE p.type \notin {"READ", "WRITE"}
      <4>1. Gone(m, n, s) = s
        BY <2>1, <3>2 DEF Gone, Going
      <4>2. n.q = m.q
        BY <1>5, <3>2 DEF Sent
      <4>3. \A f \in LineParts : n[f] = m[f]
        BY <2>9, <4>2 DEF LineParts
      <4> QED
        BY <1>1, <4>1, <4>3, LinesSame
    <3> QED
      BY <3>1, <3>2
  <2> QED
    BY <2>3, <2>5, <2>6, <2>7, <2>8, <2>10 DEF Flow
<1> QED
  BY <1>3, <1>4, <1>5 DEF n

-----------------------------------------------------------------------------
\* The first transaction whose rank has room is the first of its rank.
LEMMA FirstFit ==
    ASSUME NEW m, Lined(m), Fits(m) # {}
    PROVE  LET k == Min(Fits(m))
               r == Requests[m.tq[k]].rank
           IN  /\ k \in 1 .. Len(m.tq) /\ \A i \in 1 .. k - 1 : Requests[m.tq[i]].rank # r
<1> DEFINE k == Min(Fits(m))
<1>1. m.tq \in Seq(Ids) /\ Len(m.tq) \in Nat /\ DOMAIN m.tq = 1 .. Len(m.tq)
  BY LenProperties DEF Lined, Distinct
<1>2. Fits(m) \in SUBSET Nat
  BY <1>1 DEF Fits
<1>3. k \in Fits(m) /\ \A j \in Fits(m) : k <= j
  BY <1>2, MinIs
<1> HIDE DEF k
<1>4. k \in 1 .. Len(m.tq) /\ CmdDepth - Len(m.q[Requests[m.tq[k]].rank]) >= 1
  BY <1>1, <1>3 DEF Fits
<1>5. ASSUME NEW i \in 1 .. k - 1, Requests[m.tq[i]].rank = Requests[m.tq[k]].rank
      PROVE  FALSE
  <2>1. i \in 1 .. Len(m.tq) /\ i < k
    BY <1>1, <1>4
  <2>2. i \in Fits(m)
    BY <1>1, <1>4, <1>5, <2>1 DEF Fits
  <2> QED
    BY <1>3, <1>4, <2>1, <2>2
<1> QED
  BY <1>4, <1>5 DEF k

\* What overflowed waits behind others, in one queue or the other.
Behindhand(m) == m.pend # <<>> => m.tq # <<>> \/ QSet(m) # {}

\* updateTransactionQueue.
LEMMA QueuePart ==
    ASSUME NEW m, NEW s, NEW d, NEW nx, Sane(m), Flow(m, s, d), Tallied(m, nx), Held(m)
    PROVE  LET n == UpdateTransactionQueue(m)
           IN  /\ Sane(n) /\ Flow(n, s, d) /\ Tallied(n, nx) /\ Behindhand(n)
               /\ Same(m, n, {"tq", "q", "reads"})
<1> DEFINE n == UpdateTransactionQueue(m)
           k == Min(Fits(m))
           x == m.tq[k]
           r == Requests[x].rank
<1>1. /\ IsMem(m) /\ Lines(m, s) /\ Lined(m) /\ Way(m) /\ Owed(m, d)
      /\ m.q = [t \in Ranks |-> m.q[t]]
  BY DEF Sane, Flow, Lines, Lined
<1>2. /\ Same(m, n, {"tq", "q", "reads"})
      /\ IF Fits(m) = {} THEN n = m
         ELSE /\ n.tq = RemoveAt(m.tq, k)
              /\ n.q = [m.q EXCEPT ![r] = Append(@, x)]
              /\ n.reads = IF Requests[x].write THEN m.reads ELSE Append(m.reads, x)
  BY Zenon, <1>1, QueueFields
<1> HIDE DEF n
<1>3. CASE Fits(m) = {}
  <2>1. n = m
    BY <1>2, <1>3
  <2>2. Behindhand(m)
    BY DEF Held, Behindhand
  <2> QED
    BY <1>2, <2>1, <2>2 DEF n
<1>4. CASE Fits(m) # {}
  <2>1. k \in 1 .. Len(m.tq) /\ \A i \in 1 .. k - 1 : Requests[m.tq[i]].rank # r
    BY <1>1, <1>4, FirstFit
  <2> HIDE DEF k
  <2>2. IsMem(n) /\ \A f \in MemFields \ {"tq", "q", "reads"} : n[f] = m[f]
    BY <1>2 DEF Same
  <2>3. /\ n.pend = m.pend /\ n.taken = m.taken /\ n.bars = m.bars /\ n.fly = m.fly
        /\ n.data = m.data /\ n.wdata = m.wdata
    BY <2>2 DEF MemFields
  <2>4. /\ n.tq = RemoveAt(m.tq, k) /\ n.q = [m.q EXCEPT ![r] = Append(@, x)]
        /\ n.reads = (IF Requests[x].write THEN m.reads ELSE Append(m.reads, x))
    BY <1>2, <1>4
  <2>12. x = m.tq[k] /\ r = Requests[x].rank
    OBVIOUS
  <2> HIDE DEF x, r
  <2>5. /\ Lines(n, s) /\ x \in Ids /\ r \in Ranks /\ x \in ToSet(m.tq)
        /\ ToSet(n.tq) = ToSet(m.tq) \ {x} /\ ToSet(n.q[r]) = ToSet(m.q[r]) \cup {x}
        /\ \A t \in Ranks \ {r} : n.q[t] = m.q[t]
    <3>1. Enters(m, n, k, x, r)
      BY <2>1, <2>3, <2>4, <2>12 DEF Enters
    <3>2. Lines(m, s)
      BY <1>1
    <3> QED
      BY <3>1, <3>2, QueueLines
  <2>6. x \notin Under(m)
    BY <1>1, <2>5 DEF Owed, Waited
  <2>7. /\ Way(n) /\ Under(n) \subseteq Under(m) \cup (IF Requests[x].write THEN {} ELSE {x})
    <3>1. \A f \in WayParts \ {"q"} : n[f] = m[f]
      BY <2>2 DEF WayParts, MemFields
    <3> QED
      BY <1>1, <2>5, <2>6, <2>12, <3>1, QueuedWay
  <2>8. QSet(n) \subseteq QSet(m) \cup {x} /\ x \in QSet(n)
    <3>1. \A t \in Ranks : ToSet(n.q[t]) \subseteq ToSet(m.q[t]) \cup {x}
      BY <2>5, Zenon
    <3>2. x \in ToSet(n.q[r])
      BY <2>5
    <3> QED
      BY <2>5, <3>1, <3>2 DEF QSet
  <2>9. Owed(n, d)
    BY <1>1, <2>3, <2>4, <2>5, <2>7, <2>8, QueuedOwed
  <2>10. Sane(n)
    <3>1. \A f \in PointerParts : n[f] = m[f]
      BY <2>2 DEF PointerParts, MemFields
    <3> QED
      BY <2>2, <3>1, SaneSame
  <2>11. Tallied(n, nx) /\ Behindhand(n)
    BY <2>3, <2>8, TalliedSame DEF Behindhand
  <2> QED
    BY <1>2, <2>5, <2>7, <2>9, <2>10, <2>11 DEF Flow, n
<1> QED
  BY <1>3, <1>4

-----------------------------------------------------------------------------
(* The client.                                                             *)

\* The channel between two steps.
Channel(m, s, d, nx) ==
    /\ Sane(m) /\ Flow(m, s, d) /\ Tabled(m) /\ BusOK(m, 1) /\ Tallied(m, nx) /\ Behindhand(m)

\* x overflows.
LEMMA PendLines ==
    ASSUME NEW m, NEW n, NEW s, Lines(m, s), \A f \in LineParts \ {"pend"} : n[f] = m[f],
           n.pend \in Distinct(Ids), ToSet(m.taken) \cap ToSet(n.pend) = {}
    PROVE  Lines(n, s)
<1>1. n.taken = m.taken /\ n.tq = m.tq /\ n.q = m.q /\ n.bars = m.bars
  BY DEF LineParts
<1>2. QSet(n) = QSet(m)
  BY <1>1 DEF QSet
<1>3. Lined(n)
  BY <1>1, <1>2 DEF Lines, Lined
<1>4. Ordered(n)
  BY <1>1 DEF Lines, Ordered
<1>5. \A i, j : Depends(n, i, j) <=> Depends(m, i, j)
  BY <1>1 DEF Depends, Fence
<1>6. IssuedOK(n, s)
  BY <1>1, <1>2, <1>5 DEF Lines, IssuedOK
<1> QED
  BY <1>3, <1>4, <1>6 DEF Lines

\* addTransaction.
LEMMA AddPart ==
    ASSUME NEW m, NEW s, NEW d, NEW x \in Ids, Channel(m, s, d, x)
    PROVE  LET n == AddTransaction(m, x)
           IN  Channel(n, s, d, x + 1) /\ n.tq # <<>>
<1> DEFINE n == AddTransaction(m, x)
           pend == m.pend
           taken == m.taken
           tq == m.tq
           AP == {"pend", "tq", "taken", "fly"}
<1>1. Sane(m) /\ Flow(m, s, d) /\ Tabled(m) /\ BusOK(m, 1) /\ Tallied(m, x)
  BY DEF Channel
<1>2. /\ Same(m, n, AP)
      /\ IF WillAccept(m)
         THEN n.pend = pend /\ n.tq = Append(tq, x) /\ n.taken = Append(taken, x) /\ n.fly = m.fly + 1
         ELSE n.pend = Append(pend, x) /\ n.tq = tq /\ n.taken = taken /\ n.fly = m.fly
  BY <1>1, AddFields DEF Sane
<1> HIDE DEF n
<1>3. IsMem(n) /\ \A f \in MemFields \ AP : n[f] = m[f]
  BY <1>2 DEF Same
<1>4. /\ pend \in Distinct(Ids) /\ taken \in Distinct(Ids) /\ tq \in Distinct(Ids)
      /\ ToSet(taken) \cap ToSet(pend) = {} /\ Lines(m, s) /\ Lined(m) /\ Way(m) /\ Owed(m, d)
  BY <1>1 DEF Flow, Lines, Lined
<1>5. /\ x \in Nat /\ Len(taken) + Len(pend) = x - 1
      /\ \A i \in ToSet(taken) \cup ToSet(pend) : i < x
  BY <1>1 DEF Tallied
<1> HIDE DEF taken, pend, tq
<1>6. x \notin ToSet(taken) /\ x \notin ToSet(pend)
  BY <1>5
<1>7. Len(taken) \in Nat /\ Len(pend) \in Nat /\ Len(tq) \in Nat /\ pend \in Seq(Ids)
      /\ taken \in Seq(Ids) /\ tq \in Seq(Ids) /\ ToSet(taken) \subseteq Ids /\ ToSet(pend) \subseteq Ids
  BY <1>4, LenProperties, MembersOf DEF Distinct
<1>8. ToSet(taken) \subseteq Nat /\ ToSet(pend) \subseteq Nat
  BY <1>7, IdsAre
<1>9. CASE WillAccept(m)
  <2>1. n.pend = pend /\ n.tq = Append(tq, x) /\ n.taken = Append(taken, x) /\ n.fly = m.fly + 1
    BY <1>2, <1>9
  <2>2. ToSet(n.pend) \cap (ToSet(taken) \cup {x}) = {} /\ n.pend \in Distinct(Ids)
    BY <1>4, <1>6, <2>1
  <2>3. Sane(n) /\ Flow(n, s, d) /\ Tabled(n) /\ BusOK(n, 1)
    BY <1>1, <1>2, <1>6, <2>1, <2>2, AcceptPart DEF taken, tq
  <2>4. ToSet(n.taken) = ToSet(taken) \cup {x} /\ Len(n.taken) = Len(taken) + 1 /\ n.tq # <<>>
    <3>1. ToSet(Append(taken, x)) = ToSet(taken) \cup {x}
      BY <1>4, <1>6, DistinctAppend
    <3>2. Len(Append(taken, x)) = Len(taken) + 1 /\ Append(tq, x) # <<>>
      BY <1>7, AppendProperties
    <3> QED
      BY <2>1, <3>1, <3>2
  <2>5. Tallied(n, x + 1)
    <3>0. x + 1 \in Nat
      BY <1>5
    <3>1. Len(n.taken) + Len(n.pend) = (x + 1) - 1
      BY <1>5, <1>7, <2>1, <2>4
    <3>2. \A i \in ToSet(n.taken) \cup ToSet(n.pend) : i < x + 1
      BY <1>5, <1>8, <2>1, <2>4
    <3> QED
      BY <3>0, <3>1, <3>2 DEF Tallied
  <2> QED
    BY <2>3, <2>4, <2>5 DEF Channel, Behindhand, n
<1>10. CASE ~WillAccept(m)
  <2>1. n.pend = Append(pend, x) /\ n.tq = tq /\ n.taken = taken /\ n.fly = m.fly
    BY <1>2, <1>10
  <2>2. /\ n.pend \in Distinct(Ids) /\ ToSet(n.pend) = ToSet(pend) \cup {x}
        /\ Len(n.pend) = Len(pend) + 1
    <3>1. Append(pend, x) \in Distinct(Ids) /\ ToSet(Append(pend, x)) = ToSet(pend) \cup {x}
      BY <1>4, <1>6, DistinctAppend
    <3>2. Len(Append(pend, x)) = Len(pend) + 1
      BY <1>7, AppendProperties
    <3> QED
      BY <2>1, <3>1, <3>2
  <2>3. \A f \in MemFields \ {"pend"} : n[f] = m[f]
    BY <1>3, <2>1 DEF MemFields, taken, tq
  <2>4. Lines(n, s)
    <3>1. \A f \in LineParts \ {"pend"} : n[f] = m[f]
      BY <2>3 DEF LineParts, MemFields
    <3>2. ToSet(m.taken) \cap ToSet(n.pend) = {}
      BY <1>4, <1>6, <2>2 DEF taken
    <3> QED
      BY <1>4, <2>2, <3>1, <3>2, PendLines
  <2>5. Way(n) /\ Under(n) = Under(m)
    <3>1. \A f \in WayParts : n[f] = m[f]
      BY <2>3 DEF WayParts, MemFields
    <3> QED
      BY <1>4, <3>1, WaySame
  <2>6. Owed(n, d)
    <3>1. /\ \A f \in OwedParts : n[f] = m[f]
          /\ n.wdata = m.wdata
      BY <2>3 DEF OwedParts, MemFields
    <3> QED
      BY <1>4, <2>5, <3>1, OwedSame
  <2>7. Sane(n)
    <3>1. \A f \in PointerParts : n[f] = m[f]
      BY <2>3 DEF PointerParts, MemFields
    <3> QED
      BY <1>1, <1>3, <3>1, SaneSame
  <2>8. Tabled(n)
    <3>1. \A f \in TableParts : n[f] = m[f]
      BY <2>3 DEF TableParts, MemFields
    <3> QED
      BY <1>1, <3>1, TabledSame
  <2>9. BusOK(n, 1)
    <3>1. \A f \in BusParts : n[f] = m[f]
      BY <2>3 DEF BusParts, MemFields
    <3> QED
      BY <1>1, <3>1, BusSame
  <2>10. Tallied(n, x + 1)
    <3>0. x + 1 \in Nat
      BY <1>5
    <3>1. Len(n.taken) + Len(n.pend) = (x + 1) - 1
      BY <1>5, <1>7, <2>1, <2>2
    <3>2. \A i \in ToSet(n.taken) \cup ToSet(n.pend) : i < x + 1
      BY <1>5, <1>8, <2>1, <2>2
    <3> QED
      BY <3>0, <3>1, <3>2 DEF Tallied
  <2>11. n.tq # <<>>
    <3>1. TransDepth \in Nat \ {0} /\ Len(<<>>) = 0
      BY MemAssumption
    <3> QED
      BY <1>10, <2>1, <3>1 DEF WillAccept, tq
  <2> QED
    BY <2>4, <2>5, <2>6, <2>7, <2>8, <2>9, <2>10, <2>11 DEF Channel, Behindhand, Flow, n
<1> QED
  BY <1>9, <1>10

\* addBarrier.
LEMMA BarPart ==
    ASSUME NEW m, NEW s, NEW d, NEW nx, Channel(m, s, d, nx)
    PROVE  Channel(AddBarrier(m), s, d, nx)
<1> DEFINE n == AddBarrier(m)
           to == IF WillAccept(m) THEN m.tq ELSE m.pend
<1>1. /\ Sane(m) /\ Flow(m, s, d) /\ Tabled(m) /\ BusOK(m, 1) /\ Tallied(m, nx)
      /\ Behindhand(m)
  BY DEF Channel
<1>2. /\ Same(m, n, {"bars"})
      /\ n.bars = IF to = <<>> THEN m.bars ELSE m.bars \cup {Last(to)}
  BY <1>1, BarrierFields DEF Sane
<1> HIDE DEF n
<1>3. IsMem(n) /\ \A f \in MemFields \ {"bars"} : n[f] = m[f]
  BY <1>2 DEF Same
<1>4. Lines(m, s) /\ Lined(m) /\ Way(m) /\ Owed(m, d)
  BY <1>1 DEF Flow, Lines
<1>5. \A f \in LineParts \ {"bars"} : n[f] = m[f]
  BY <1>3 DEF LineParts, MemFields
<1>6. Lines(n, s)
  <2>1. CASE to = <<>>
    <3>1. n.bars = m.bars
      BY <1>2, <2>1
    <3>2. \A f \in LineParts : n[f] = m[f]
      BY <1>5, <3>1
    <3> QED
      BY <1>4, <3>2, LinesSame
  <2>2. CASE to # <<>>
    <3> DEFINE x == Last(to)
    <3>1. m.tq \in Seq(Ids) /\ m.pend \in Seq(Ids) /\ to \in Seq(Ids)
      BY <1>4 DEF Lined, Distinct
    <3>2. x \in ToSet(to)
      <4>1. Len(to) \in Nat /\ DOMAIN to = 1 .. Len(to)
        BY <3>1, LenProperties
      <4>2. Len(to) \in 1 .. Len(to)
        <5>1. Len(to) # 0
          BY <2>2, <3>1, EmptySeq
        <5> QED
          BY <4>1, <5>1
      <4>3. to[Len(to)] \in ToSet(to)
        BY <3>1, <4>2, MembersOf
      <4> QED
        BY <4>3 DEF Last
    <3>3. x \notin ToSet(m.taken) \/ x \in ToSet(m.tq)
      BY <1>4, <3>2 DEF Lined
    <3>4. n.bars = m.bars \cup {x}
      BY <1>2, <2>2
    <3> HIDE DEF x, to
    <3> QED
      BY <1>4, <1>5, <3>3, <3>4, BarLines
  <2> QED
    BY <2>1, <2>2
<1>7. Way(n) /\ Under(n) = Under(m)
  <2>1. \A f \in WayParts : n[f] = m[f]
    BY <1>3 DEF WayParts, MemFields
  <2> QED
    BY <1>4, <2>1, WaySame
<1>8. Owed(n, d)
  <2>1. /\ \A f \in OwedParts : n[f] = m[f]
        /\ n.wdata = m.wdata
    BY <1>3 DEF OwedParts, MemFields
  <2> QED
    BY <1>4, <1>7, <2>1, OwedSame
<1>9. Sane(n)
  <2>1. \A f \in PointerParts : n[f] = m[f]
    BY <1>3 DEF PointerParts, MemFields
  <2> QED
    BY <1>1, <1>3, <2>1, SaneSame
<1>10. Tabled(n)
  <2>1. \A f \in TableParts : n[f] = m[f]
    BY <1>3 DEF TableParts, MemFields
  <2> QED
    BY <1>1, <2>1, TabledSame
<1>11. BusOK(n, 1)
  <2>1. \A f \in BusParts : n[f] = m[f]
    BY <1>3 DEF BusParts, MemFields
  <2> QED
    BY <1>1, <2>1, BusSame
<1>12. n.taken = m.taken /\ n.pend = m.pend /\ n.tq = m.tq /\ n.q = m.q
  BY <1>3 DEF MemFields
<1>13. Tallied(n, nx) /\ Behindhand(n)
  <2>1. QSet(n) = QSet(m)
    BY <1>12 DEF QSet
  <2> QED
    BY <1>1, <1>12, <2>1, TalliedSame DEF Behindhand
<1> QED
  BY <1>6, <1>7, <1>8, <1>9, <1>10, <1>11, <1>13 DEF Channel, Flow, n

-----------------------------------------------------------------------------
(* The initial channel.                                                    *)
\* The fields of the initial channel.
LEMMA FreshFields ==
    LET m == FreshMem
    IN  /\ IsMem(m) /\ m.pend = <<>> /\ m.taken = <<>> /\ m.tq = <<>> /\ m.bars = {}
        /\ m.q = [r \in Ranks |-> <<>>] /\ m.cmd = NoPacket /\ m.data = 0 /\ m.dataLeft = 0
        /\ m.bank = [r \in Ranks |-> [b \in Banks |-> FreshBank]]
        /\ m.dev = [r \in Ranks |-> [b \in Banks |-> FreshBank]]
        /\ m.wdata = <<>> /\ m.rdata = [r \in Ranks |-> <<>>] /\ m.out = [r \in Ranks |-> 0]
        /\ m.outLeft = [r \in Ranks |-> 0] /\ m.reads = <<>> /\ m.ret = <<>>
        /\ m.refRank = 0 /\ m.dueRank = 0 /\ m.nextRank = 0 /\ m.nextPre = <<0, 0>>
        /\ m.fly = 0 /\ m.panic = FALSE
BY DEF FreshMem, IsMem, MemFields

\* A precharged bank.
LEMMA FreshBankIs == CtrlBank(FreshBank) /\ DevBank(FreshBank) /\ Behind(FreshBank, FreshBank)
                     /\ FreshBank.st = "Idle"
BY DEF FreshBank, CtrlBank, DevBank, Behind, IsBank, BankFields, CtrlStates

\* Nothing waits in an empty queue.
LEMMA NoneIs ==
    /\ <<>> \in Distinct(Ids) /\ ToSet(<<>>) = {} /\ <<>> \in Timed /\ IdsOf(<<>>) = {}
    /\ Len(<<>>) = 0 /\ DOMAIN <<>> = {}
<1>1. <<>> \in Seq(Ids) /\ <<>> \in Seq(Ids \X Int) /\ DOMAIN <<>> = {} /\ Len(<<>>) = 0
  OBVIOUS
<1>2. <<>> \in Distinct(Ids)
  BY <1>1 DEF Distinct, IsInjective
<1>3. ToSet(<<>>) = {}
  BY <1>1 DEF ToSet
<1>4. IdsOf(<<>>) = {} /\ <<>> \in Timed
  BY <1>1 DEF IdsOf, Timed
<1> QED
  BY <1>1, <1>2, <1>3, <1>4

\* The invariant holds at the start.
LEMMA FreshChannel == Channel(FreshMem, <<>>, <<>>, 1)
<1> DEFINE m == FreshMem
           none == <<>>
<1>1. /\ IsMem(m) /\ m.pend = none /\ m.taken = none /\ m.tq = none /\ m.bars = {}
      /\ m.q = [r \in Ranks |-> none] /\ m.cmd = NoPacket /\ m.data = 0 /\ m.dataLeft = 0
      /\ m.bank = [r \in Ranks |-> [b \in Banks |-> FreshBank]]
      /\ m.dev = [r \in Ranks |-> [b \in Banks |-> FreshBank]]
      /\ m.wdata = none /\ m.rdata = [r \in Ranks |-> none] /\ m.out = [r \in Ranks |-> 0]
      /\ m.outLeft = [r \in Ranks |-> 0] /\ m.reads = none /\ m.ret = none
      /\ m.refRank = 0 /\ m.dueRank = 0 /\ m.nextRank = 0 /\ m.nextPre = <<0, 0>>
      /\ m.fly = 0 /\ m.panic = FALSE
  BY FreshFields
<1>2. /\ none \in Distinct(Ids) /\ ToSet(none) = {} /\ none \in Timed /\ IdsOf(none) = {}
      /\ Len(none) = 0 /\ DOMAIN none = {}
  BY NoneIs
<1>3. \A x, y : ~InOrder(none, x, y)
  BY OrderOfNone
<1> HIDE DEF m, none
<1>4. 0 \in Ranks /\ 0 \in Banks
  <2>1. {NumRanks, NumBanks, BanksPerGroup, TransDepth, CmdDepth} \subseteq Nat \ {0}
    BY MemAssumption
  <2>2. NumRanks \in Nat \ {0} /\ NumBanks \in Nat \ {0}
    BY <2>1
  <2> QED
    BY <2>2 DEF Ranks, Banks
<1>5. Sane(m)
  BY <1>1, <1>4 DEF Sane, Turns
<1>6. QSet(m) = {} /\ \A r \in Ranks : m.q[r] = none /\ ToSet(m.q[r]) = {}
  <2>1. \A r \in Ranks : m.q[r] = none
    BY <1>1
  <2> QED
    BY <1>2, <2>1 DEF QSet
<1>7. Lines(m, none)
  <2>1. m.q = [r \in Ranks |-> m.q[r]]
    BY <1>1
  <2>2. Lined(m)
    BY <1>1, <1>2, <1>6, <2>1 DEF Lined
  <2>3. Ordered(m)
    BY <1>1, <1>2, <1>3, <1>6 DEF Ordered
  <2>4. IssuedOK(m, none)
    BY <1>1, <1>2, <1>6 DEF IssuedOK
  <2> QED
    BY <2>2, <2>3, <2>4 DEF Lines
<1>8. Reading(m) = {} /\ m.cmd.type = "NONE"
  BY <1>1 DEF Reading, NoPacket
<1>9. \A r \in Ranks : Fetching(m, r) = {} /\ Leaving(m, r) = {} /\ QueuedReads(m, r) = {}
  BY <1>1, <1>2, <1>6 DEF Fetching, Leaving, QueuedReads
<1>10. WayType(m)
  BY <1>1, <1>2 DEF WayType
<1>11. Way(m) /\ Under(m) = {}
  <2>1. Way(m)
    BY <1>1, <1>2, <1>6, <1>8, <1>9, <1>10 DEF Way
  <2>2. Under(m) = {}
    BY <1>1, <1>2, <1>8, <1>9 DEF Under
  <2> QED
    BY <2>1, <2>2
<1>12. Owed(m, none)
  <2>1. Written(m) = {}
    BY <1>1, <1>2 DEF Written
  <2>2. Books(m, none)
    BY <1>1, <1>2, <1>6, <2>1 DEF Books
  <2>3. Enough({}, {})
    BY AtCellLess, AtCellSize DEF Enough
  <2>4. Waited(m)
    BY <1>1, <1>2, <1>11, <2>3 DEF Waited
  <2> QED
    BY <2>2, <2>4 DEF Owed
<1>13. \A r \in Ranks, b \in Banks : m.bank[r][b] = FreshBank /\ m.dev[r][b] = FreshBank
  BY <1>1
<1>14. Tabled(m)
  <2>1. \A r \in Ranks, b \in Banks : Pending(m, r, b) = FreshBank
    BY <1>1, <1>13 DEF Pending
  <2>2. m.dev = [r \in Ranks |-> m.dev[r]]
    BY <1>1
  <2> QED
    BY <1>1, <1>13, <2>1, <2>2, FreshBankIs DEF Tabled
<1>15. BusOK(m, 1)
  <2>1. Spaced(m, 1)
    BY <1>1, <1>2 DEF Spaced
  <2> QED
    BY <1>13, <2>1, FreshBankIs DEF BusOK
<1>16. Tallied(m, 1) /\ Behindhand(m)
  BY <1>1, <1>2 DEF Tallied, Behindhand
<1> QED
  BY <1>5, <1>7, <1>11, <1>12, <1>14, <1>15, <1>16 DEF Channel, Flow, m, none

-----------------------------------------------------------------------------
(* The two actions.                                                        *)

\* The cycle ends; m4 is the channel after Pop.
LEMMA EndPart ==
    ASSUME NEW m4, NEW s, NEW d, NEW nx, Sane(m4), Flow(m4, s, d), Tallied(m4, nx), Held(m4),
           Ready(m4)
    PROVE  LET m5 == UpdateTransactionQueue(m4)
           IN  Channel(Step(ReturnData(m5)), s, Told(m5, d), nx)
<1> DEFINE m5 == UpdateTransactionQueue(m4)
           m6 == ReturnData(m5)
           n == Step(m6)
           e == Told(m5, d)
           z == Step(m4)
<1>1. /\ Sane(m5) /\ Flow(m5, s, d) /\ Tallied(m5, nx) /\ Behindhand(m5)
      /\ Same(m4, m5, {"tq", "q", "reads"})
  BY QueuePart
<1> HIDE DEF m5
<1>2. IsMem(m5) /\ Owed(m5, d) /\ Lined(m5) /\ Way(m5) /\ m5.panic = FALSE /\ Lines(m5, s)
  BY <1>1 DEF Sane, Flow, Lines
<1>3. /\ Owed(m6, e) /\ Way(m6) /\ m6.panic = FALSE
      /\ Same(m5, m6, {"ret", "reads", "fly", "panic"})
  BY <1>2, ReturnOwed
<1> HIDE DEF m6, e
<1>4. IsMem(m6) /\ \A f \in MemFields \ {"ret", "reads", "fly", "panic"} : m6[f] = m5[f]
  BY <1>3 DEF Same
<1>5. /\ Same(m6, n, {"due", "bank", "dev"})
      /\ n.bank = [r \in Ranks |-> [b \in Banks |-> Aged(m6.bank[r][b])]]
      /\ n.dev = [r \in Ranks |-> [b \in Banks |-> Aged(m6.dev[r][b])]]
  BY <1>4, StepFields
<1>6. IsMem(m4)
  BY DEF Sane
<1>7. /\ Same(m4, z, {"due", "bank", "dev"})
      /\ z.bank = [r \in Ranks |-> [b \in Banks |-> Aged(m4.bank[r][b])]]
      /\ z.dev = [r \in Ranks |-> [b \in Banks |-> Aged(m4.dev[r][b])]]
  BY <1>6, StepFields
<1> HIDE DEF n, z
<1>8. Tabled(z) /\ BusOK(z, 1)
  BY <1>7 DEF Ready, Aging
<1>9. IsMem(n) /\ \A f \in MemFields \ {"due", "bank", "dev"} : n[f] = m6[f]
  BY <1>5 DEF Same
<1>10. \A f \in MemFields \ {"due", "bank", "dev"} : z[f] = m4[f]
  BY <1>7 DEF Same
<1>11. \A f \in MemFields \ {"tq", "q", "reads"} : m5[f] = m4[f]
  BY <1>1 DEF Same
<1>12. n.bank = z.bank /\ n.dev = z.dev
  <2>1. m6.bank = m4.bank /\ m6.dev = m4.dev
    BY <1>4, <1>11 DEF MemFields
  <2> QED
    BY <1>5, <1>7, <2>1
<1>13. \A f \in TableParts \cup BusParts : n[f] = z[f]
  BY <1>4, <1>9, <1>10, <1>11, <1>12 DEF MemFields, TableParts, BusParts
<1>14. Tabled(n) /\ BusOK(n, 1)
  <2>1. Tabled(n)
    BY <1>8, <1>13, TabledSame
  <2>2. BusOK(n, 1)
    BY <1>8, <1>13, BusSame
  <2> QED
    BY <2>1, <2>2
<1>15. \A f \in LineParts \cup {"refRank", "nextRank", "nextPre", "dueRank"} : m6[f] = m5[f]
  BY <1>4 DEF MemFields, LineParts
<1>16. Lines(m6, s)
  BY <1>2, <1>15, LinesSame
<1>17. Flow(m6, s, e)
  BY <1>3, <1>16 DEF Flow
<1>18. Way(n) /\ Under(n) = Under(m6)
  <2>1. \A f \in WayParts : n[f] = m6[f]
    BY <1>9 DEF WayParts, MemFields
  <2> QED
    BY <1>3, <2>1, WaySame
<1>19. Flow(n, s, e)
  <2>1. \A f \in FlowParts : n[f] = m6[f]
    BY <1>9 DEF FlowParts, LineParts, OwedParts, MemFields
  <2> QED
    BY <1>17, <1>18, <2>1, FlowSame
<1>20. Sane(n)
  <2>1. Sane(m6)
    <3>1. \A f \in PointerParts : m6[f] = m5[f]
      BY <1>2, <1>3, <1>15 DEF PointerParts
    <3> QED
      BY <1>1, <1>4, <3>1, SaneSame
  <2>2. \A f \in PointerParts : n[f] = m6[f]
    BY <1>9 DEF PointerParts, MemFields
  <2> QED
    BY <1>9, <2>1, <2>2, SaneSame
<1>21. n.taken = m5.taken /\ n.pend = m5.pend /\ n.tq = m5.tq /\ n.q = m5.q
  BY <1>4, <1>9 DEF MemFields
<1>22. Tallied(n, nx) /\ Behindhand(n)
  <2>1. QSet(n) = QSet(m5)
    BY <1>21 DEF QSet
  <2> QED
    BY <1>1, <1>21, <2>1, TalliedSame DEF Behindhand
<1> QED
  BY <1>14, <1>19, <1>20, <1>22 DEF Channel, n, m6, m5, e

\* MemorySystem::update keeps the invariant.
LEMMA UpdatePart ==
    ASSUME DeviceTimes, Channel(mem, issued, done, next), Update
    PROVE  Channel(mem', issued', done', next')
<1> DEFINE m0 == RanksUpdate(mem)
           m1 == DrainPending(m0)
           m2 == CommandBus(UpdateBankState(m1))
           m3 == UpdateRefresh(DataBus(m2))
           m4 == Pop(m3)
           m5 == UpdateTransactionQueue(m4)
           i == IF m4.cmd # m3.cmd /\ m4.cmd.type \in {"READ", "WRITE"}
                THEN Append(issued, m4.cmd.id) ELSE issued
           w == IF WriteEnds(m2) THEN <<m2.data>> ELSE <<>>
           r == IF m5.ret # <<>> /\ Answered(m5) # {}
                THEN <<m5.reads[Min(Answered(m5))]>> ELSE <<>>
<1>1. /\ mem' = Step(ReturnData(m5)) /\ issued' = i /\ done' = done \o w \o r /\ next' = next
  BY DEF Update
<1>2. Sane(m0) /\ Flow(m0, issued, done) /\ Tabled(m0) /\ BusOK(m0, 1) /\ Tallied(m0, next)
  BY RanksPart DEF Channel
<1> HIDE DEF m0
<1>3. /\ Sane(m1) /\ Flow(m1, issued, done) /\ Tabled(m1) /\ BusOK(m1, 1) /\ Tallied(m1, next)
      /\ Held(m1)
  BY <1>2, DrainPart
<1> HIDE DEF m1
<1>4. /\ Sane(m2) /\ Flow(m2, issued, done) /\ Tabled(m2) /\ BusOK(m2, 1) /\ Tallied(m2, next)
      /\ Held(m2) /\ m2.cmd = NoPacket
  BY <1>3, BusPart
<1> HIDE DEF m2
<1> DEFINE d == Wrote(m2, done)
<1>5. /\ Sane(m3) /\ Flow(m3, issued, d) /\ Tabled(m3) /\ BusOK(m3, 0) /\ Tallied(m3, next)
      /\ Held(m3) /\ m3.cmd = NoPacket
  BY <1>4, DataPart
<1> HIDE DEF m3
<1>6. i = Gone(m3, m4, issued)
  BY DEF Gone, Going
<1> HIDE DEF i, d
<1>7. Sane(m4) /\ Flow(m4, i, d) /\ Ready(m4) /\ Tallied(m4, next) /\ Held(m4)
  <2>1. LET n == Pop(m3)
        IN  Sane(n) /\ Flow(n, Gone(m3, n, issued), d) /\ Ready(n) /\ Tallied(n, next) /\ Held(n)
    BY <1>5, PopPart
  <2> QED
    BY <1>6, <2>1
<1> HIDE DEF m4
<1>8. Channel(Step(ReturnData(m5)), i, Told(m5, d), next)
  BY <1>7, EndPart
<1>9. done \o w = d
  <2>1. done \in Seq(Ids)
    BY DEF Channel, Flow, Owed, Books, Distinct
  <2>2. m2.data = 0 \/ m2.data \in Ids
    BY <1>4 DEF BusOK, Spaced
  <2>3. WriteEnds(m2) => m2.data # 0
    BY DEF WriteEnds
  <2>4. WriteEnds(m2) => done \o <<m2.data>> = Append(done, m2.data)
    BY <2>1, <2>2, <2>3
  <2>5. done \o <<>> = done
    BY <2>1
  <2> QED
    BY <2>4, <2>5 DEF Wrote, d
<1>10. d \o r = Told(m5, d)
  <2>1. Flow(m5, i, d)
    BY <1>7, QueuePart
  <2>2. d \in Seq(Ids) /\ m5.reads \in Seq(Ids)
    BY <2>1 DEF Flow, Owed, Books, Distinct
  <2> DEFINE y == m5.reads[Min(Answered(m5))]
  <2> HIDE DEF m5
  <2>3. Answered(m5) # {} => y \in Ids
    <3>1. SUFFICES ASSUME Answered(m5) # {} PROVE y \in Ids
      OBVIOUS
    <3>2. Answered(m5) \subseteq DOMAIN m5.reads /\ DOMAIN m5.reads \subseteq Nat
      BY <2>2 DEF Answered
    <3>3. Min(Answered(m5)) \in DOMAIN m5.reads
      BY <3>1, <3>2, MinIs
    <3> QED
      BY <2>2, <3>3
  <2> HIDE DEF y
  <2>4. Answered(m5) # {} => d \o <<y>> = Append(d, y)
    BY <2>2, <2>3
  <2>5. d \o <<>> = d
    BY <2>2
  <2> QED
    BY <2>4, <2>5 DEF Told, Replied, y
<1> HIDE DEF m5, w, r
<1>11. done' = Told(m5, d)
  BY <1>1, <1>9, <1>10
<1> QED
  BY <1>1, <1>8, <1>11

\* So does a request of the client.
LEMMA AddAction ==
    ASSUME Channel(mem, issued, done, next), Add
    PROVE  Channel(mem', issued', done', next')
<1> DEFINE m == AddTransaction(mem, next)
<1>1. /\ next \in Ids /\ next' = next + 1 /\ issued' = issued /\ done' = done
      /\ mem' = (IF Requests[next].bar THEN AddBarrier(m) ELSE m)
  BY DEF Add
<1>2. Channel(m, issued, done, next + 1)
  BY <1>1, AddPart
<1> HIDE DEF m
<1>3. Channel(AddBarrier(m), issued, done, next + 1)
  BY <1>2, BarPart
<1> QED
  BY <1>1, <1>2, <1>3

-----------------------------------------------------------------------------
ChanInv == Channel(mem, issued, done, next)

\* The invariant says what the client relies on.
LEMMA ChannelSays == ASSUME ChanInv PROVE ChannelExact
<1>1. Sane(mem) /\ Flow(mem, issued, done) /\ Tallied(mem, next) /\ Behindhand(mem)
  BY DEF ChanInv, Channel
<1>2. Lines(mem, issued) /\ Lined(mem) /\ Way(mem) /\ Owed(mem, done) /\ Books(mem, done)
  BY <1>1 DEF Flow, Lines, Owed
<1>3. NoDeviceError
  BY <1>1 DEF Sane, NoDeviceError
<1>4. IssueOrder
  BY <1>2, LinesOrder
<1>5. OnTheFlyExact
  <2>1. done \in Distinct(Ids) /\ mem.fly = Len(mem.taken) - Len(done)
    BY <1>2 DEF Books
  <2>2. Cardinality(ToSet(done)) = Len(done)
    BY <2>1, DistinctCount
  <2>3. Len(mem.taken) \in Nat /\ Len(mem.pend) \in Nat /\ Len(done) \in Nat
    BY <1>2, <2>1, LenProperties DEF Lined, Distinct
  <2>4. mem.fly = next - 1 - Len(mem.pend) - Len(done)
    <3>1. next \in Nat /\ Len(mem.taken) + Len(mem.pend) = next - 1
      BY <1>1 DEF Tallied
    <3> DEFINE a == Len(mem.taken)
               b == Len(mem.pend)
               c == Len(done)
               f == mem.fly
    <3>2. a \in Nat /\ b \in Nat /\ c \in Nat /\ f = a - c /\ a + b = next - 1
      BY <2>1, <2>3, <3>1
    <3> HIDE DEF a, b, c, f
    <3>3. f = next - 1 - b - c
      BY <3>1, <3>2
    <3> QED
      BY <3>3 DEF b, c, f
  <2>5. mem.fly = 0 => mem.pend = <<>>
    <3>1. SUFFICES ASSUME mem.fly = 0 PROVE mem.pend = <<>>
      OBVIOUS
    <3>2. mem.tq = <<>> /\ \A r \in Ranks : mem.q[r] = <<>>
      BY <1>2, <3>1, NothingOwed
    <3>3. QSet(mem) = {}
      BY <3>2, NoneIs DEF QSet
    <3> QED
      BY <1>1, <3>2, <3>3 DEF Behindhand
  <2> QED
    BY <2>2, <2>4, <2>5 DEF OnTheFlyExact
<1> QED
  BY <1>3, <1>4, <1>5 DEF ChannelExact

\* For every channel whose timings satisfy DeviceTimes: no rank refuses a command and
\* no two packets meet on a bus (Rank::checkBank, the exits of MemoryController::update),
\* numOnTheFlyTransactions is exact and every request answered at most once, and what
\* depends on an access is issued after it.
THEOREM ChannelExactHolds == DeviceTimes => (MemSpec => []ChannelExact)
<1> SUFFICES ASSUME DeviceTimes PROVE MemSpec => []ChannelExact
  OBVIOUS
<1>1. MemInit => ChanInv
  BY FreshChannel DEF MemInit, ChanInv
<1>2. ChanInv /\ [MemNext]_memVars => ChanInv'
  <2>1. SUFFICES ASSUME ChanInv, [MemNext]_memVars PROVE ChanInv'
    OBVIOUS
  <2>2. CASE Add
    BY <2>1, <2>2, AddAction DEF ChanInv
  <2>3. CASE Update
    BY <2>1, <2>3, UpdatePart DEF ChanInv
  <2>4. CASE UNCHANGED memVars
    <3>1. mem' = mem /\ issued' = issued /\ done' = done /\ next' = next
      BY <2>4 DEF memVars
    <3>2. Channel(mem, issued, done, next)
      BY <2>1 DEF ChanInv
    <3>3. Channel(mem', issued', done', next')
      BY <3>1, <3>2
    <3> QED
      BY <3>3 DEF ChanInv
  <2> QED
    BY <2>1, <2>2, <2>3, <2>4 DEF MemNext
<1>3. ChanInv => ChannelExact
  BY ChannelSays
<1> QED
  BY <1>1, <1>2, <1>3, PTL DEF MemSpec
=============================================================================
