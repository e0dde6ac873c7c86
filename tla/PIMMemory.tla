------------------------------ MODULE PIMMemory ------------------------------
(***************************************************************************)
(* One channel of PIMSimulator in its single-bank (SB) mode: MemorySystem, *)
(* MemoryController, CommandQueue and the bank states of the ranks         *)
(* (PIMSimulator/src).  The controller keeps one table of bank states, the *)
(* ranks keep their own, and a rank that receives a command its own table  *)
(* forbids ends the simulation; here it sets `panic'.  Requests may name   *)
(* the rows reserved for PIM registers, but do not make the sequence that  *)
(* leaves SB mode, which PIMDevice models.                                 *)
(*                                                                         *)
(* A clock value is kept as the cycles left until it, so that the state    *)
(* space is finite: `currentClockCycle >= nextRead' is rd = 0.             *)
(***************************************************************************)
EXTENDS Integers, Sequences, SequencesExt, FiniteSetsExt

CONSTANTS Requests,    \* what the client adds, in order: [write, rank, bank, row, col, bar]
          NumRanks, NumBanks, BanksPerGroup,
          TransDepth, CmdDepth,  \* TRANS_QUEUE_DEPTH, CMD_QUEUE_DEPTH
          T            \* the timing parameters of the device, in cycles

ASSUME MemAssumption ==
    /\ {NumRanks, NumBanks, BanksPerGroup, TransDepth, CmdDepth} \subseteq Nat \ {0}
    /\ \A d \in {"AL", "RL", "WL", "half", "tCMD", "tRCDRD", "tRCDWR", "tRP", "tRAS", "tRC",
                "tRTPL", "tCCDL", "tCCDS", "tRRDL", "tRRDS", "tWR", "tWTRL", "tWTRS", "tRTRS",
                "tRFC", "tREFI"} : T[d] \in Nat
    /\ T.tCMD > 0 /\ T.half > 0 /\ T.WL > 0 /\ T.RL > 0 /\ T.tREFI >= NumRanks
    /\ Requests \in Seq([write : BOOLEAN, rank : 0 .. NumRanks - 1, bank : 0 .. NumBanks - 1,
                         row : Nat, col : Nat, bar : BOOLEAN])

Ranks == 0 .. NumRanks - 1
Banks == 0 .. NumBanks - 1
Ids == DOMAIN Requests

VARIABLES mem,     \* the channel: see FreshMem
          next,    \* the next request of the client
          issued,  \* the requests whose READ or WRITE was issued, in that order
          done     \* the requests whose callback has run, in that order

memVars == <<mem, next, issued, done>>

(* Configuration.h: the delays between commands; half is BL / 2.           *)
Larger(a, b) == IF a > b THEN a ELSE b
ReadToPre   == T.AL + T.half + Larger(T.tRTPL, T.tCCDL) - T.tCCDL
WriteToPre  == T.WL + T.half + T.tWR
ReadToWrite == T.RL + T.half + T.tRTRS - T.WL
WriteToReadLong  == T.WL + T.half + T.tWTRL
WriteToReadShort == T.WL + T.half + T.tWTRS
WriteToReadRank  == Larger(T.WL + T.half + T.tRTRS - T.RL, 0)
SameGroup(a, b) == a \div BanksPerGroup = b \div BanksPerGroup
Gap(a, b) == Larger(IF SameGroup(a, b) THEN T.tCCDL ELSE T.tCCDS, T.half)

\* BankState: all banks start precharged.
FreshBank == [st |-> "Idle", row |-> 0, rd |-> 0, wr |-> 0, act |-> 0, pre |-> 0, cnt |-> 0]
NoPacket == [type |-> "NONE"]

\* The client's overflow list; what the controller took from it and from the
\* client, in order (a history); the transaction queue; per rank the command
\* queue; the controller's and the ranks' bank tables; the command and data
\* buses; the write data and the read data on their way; the pending reads
\* and the returned ones; the refresh request and its countdowns; the
\* round-robin pointers; numOnTheFlyTransactions.
FreshMem ==
    [pend |-> <<>>, taken |-> <<>>, tq |-> <<>>, q |-> [r \in Ranks |-> <<>>], bars |-> {},
     bank |-> [r \in Ranks |-> [b \in Banks |-> FreshBank]],
     dev |-> [r \in Ranks |-> [b \in Banks |-> FreshBank]],
     cmd |-> NoPacket, cmdLeft |-> 0, data |-> 0, dataLeft |-> 0, wdata |-> <<>>,
     rdata |-> [r \in Ranks |-> <<>>], out |-> [r \in Ranks |-> 0],
     outLeft |-> [r \in Ranks |-> 0],
     reads |-> <<>>, ret |-> <<>>,
     refWait |-> FALSE, refRank |-> 0, dueRank |-> 0,
     due |-> [r \in Ranks |-> (T.tREFI \div NumRanks) * (r + 1)],
     nextRank |-> 0, nextPre |-> <<0, 0>>, fly |-> 0, panic |-> FALSE]

Cell(i) == <<Requests[i].rank, Requests[i].bank, Requests[i].row, Requests[i].col>>

-----------------------------------------------------------------------------
(* The device: Rank::receiveFromBus and Rank::update.                      *)

\* checkBank: what the rank's own table allows.
Allowed(k, type, row) ==
    CASE type = "READ"  -> k.st = "RowActive" /\ k.rd = 0 /\ k.row = row
      [] type = "WRITE" -> k.st = "RowActive" /\ k.wr = 0 /\ k.row = row
      [] type = "ACT"   -> k.st = "Idle" /\ k.act = 0
      [] type = "PRE"   -> k.st = "RowActive" /\ k.pre = 0

\* updateBank: bank j of the rank after a command to bank b.
UpdateBank(k, type, j, b, row) ==
    CASE type = "READ" ->
           [k EXCEPT !.pre = IF j = b THEN Larger(@, ReadToPre) ELSE @,
                     !.rd = Larger(@, Gap(j, b)), !.wr = Larger(@, ReadToWrite)]
      [] type = "WRITE" ->
           [k EXCEPT !.pre = IF j = b THEN Larger(@, WriteToPre) ELSE @,
                     !.rd = Larger(@, IF SameGroup(j, b) THEN WriteToReadLong ELSE WriteToReadShort),
                     !.wr = Larger(@, Gap(j, b))]
      [] type = "ACT" ->
           IF j = b THEN [k EXCEPT !.st = "RowActive", !.row = row, !.act = T.tRC, !.pre = T.tRAS,
                                   !.rd = T.tRCDRD - T.AL, !.wr = T.tRCDWR - T.AL]
           ELSE [k EXCEPT !.act = Larger(@, IF SameGroup(j, b) THEN T.tRRDL ELSE T.tRRDS)]
      [] type = "PRE" ->
           IF j = b THEN [k EXCEPT !.st = "Idle", !.act = Larger(@, T.tRP)] ELSE k

\* isReservedRA: the rows of the PIM registers and mode switches (row & 1 << 13).
Reserved(row) == (row \div 8192) % 2 = 1

\* check, updateState and sendToBank of a command; an access to a reserved row
\* is neither checked nor does it change the rank's table.
RankReceive(m, p) ==
    LET d == m.dev[p.rank]
        data == IF p.type = "READ" THEN Append(m.rdata[p.rank], <<p.id, T.RL>>)
                ELSE m.rdata[p.rank]
    IN  IF Reserved(p.row) THEN [m EXCEPT !.rdata[p.rank] = data]
        ELSE IF p.type = "REF"
        THEN [m EXCEPT !.panic = @ \/ \E b \in Banks : d[b].st # "Idle",
                       !.dev[p.rank] = [b \in Banks |-> [d[b] EXCEPT !.act = T.tRFC]]]
        ELSE [m EXCEPT !.panic = @ \/ ~Allowed(d[p.bank], p.type, p.row),
                       !.dev[p.rank] = [j \in Banks |-> UpdateBank(d[j], p.type, j, p.bank, p.row)],
                       !.rdata[p.rank] = data]

\* Rank::update: read data leaves the bus for the controller, or enters it.
RankUpdate(m, r) ==
    LET left == m.outLeft[r] - 1
        ends == m.out[r] # 0 /\ left = 0
        rd   == [i \in DOMAIN m.rdata[r] |-> <<m.rdata[r][i][1], m.rdata[r][i][2] - 1>>]
        go   == rd # <<>> /\ Head(rd)[2] = 0
    IN  [m EXCEPT !.ret = IF ends THEN Append(@, m.out[r]) ELSE @,
                  !.out[r] = IF go THEN Head(rd)[1] ELSE IF ends THEN 0 ELSE @,
                  !.outLeft[r] = IF go THEN T.half ELSE IF m.out[r] # 0 THEN left ELSE @,
                  !.rdata[r] = IF go THEN Tail(rd) ELSE rd]

\* One rank after the other.
RanksUpdate(m) ==
    LET turn[n \in 0 .. NumRanks] == IF n = 0 THEN m ELSE RankUpdate(turn[n - 1], n - 1)
    IN  turn[NumRanks]

-----------------------------------------------------------------------------
(* CommandQueue.  The activation window and the row access counters are    *)
(* tested by the code but never fed, so they allow everything.             *)

\* Mutant: reads do not wait for the write-to-read turnaround.
IssuableEager(m, p) ==
    LET k == m.bank[p.rank][p.bank]
    IN  CASE p.type \in {"READ", "WRITE"} -> k.st = "RowActive" /\ k.row = p.row
          [] p.type = "ACT" -> k.st \in {"Idle", "Refreshing"} /\ k.act = 0
          [] p.type = "PRE" -> k.st = "RowActive" /\ k.pre = 0
          [] p.type = "REF" -> TRUE

\* isIssuable
Issuable(m, p) ==
    LET k == m.bank[p.rank][p.bank]
    IN  CASE p.type = "READ"  -> k.st = "RowActive" /\ k.rd = 0 /\ k.row = p.row
          [] p.type = "WRITE" -> k.st = "RowActive" /\ k.wr = 0 /\ k.row = p.row
          [] p.type = "ACT"   -> k.st \in {"Idle", "Refreshing"} /\ k.act = 0
          [] p.type = "PRE"   -> k.st = "RowActive" /\ k.pre = 0
          [] p.type = "REF"   -> TRUE

Packet(type, r, b, row, id) == [type |-> type, rank |-> r, bank |-> b, row |-> row, id |-> id]
Access(i) == Packet(IF Requests[i].write THEN "WRITE" ELSE "READ",
                    Requests[i].rank, Requests[i].bank, Requests[i].row, i)

\* process_refresh: close an open bank of the rank, or refresh it.
RefreshPackets(m) ==
    LET open == {b \in Banks : m.bank[m.refRank][b].st = "RowActive"}
        pre(b) == Packet("PRE", m.refRank, b, m.bank[m.refRank][b].row, 0)
        can  == {b \in open : Issuable(m, pre(b))}
    IN  IF ~m.refWait THEN {}
        ELSE IF open = {} THEN {Packet("REF", m.refRank, 0, 0, 0)}
        ELSE IF can = {} THEN {} ELSE {pre(Min(can))}

\* An access may pass the ones before it unless one is to its cell or a
\* barrier; a barrier passes nothing.
Free(m, q, i) ==
    /\ i > 1 => q[i] \notin m.bars
    /\ \A j \in 1 .. i - 1 : Cell(q[j]) # Cell(q[i]) /\ q[j] \notin m.bars

\* process_command on one rank's queue: the first access that can go, else
\* the first activation, looked for up to the first barrier behind the head.
QueuePackets(m, q) ==
    LET go   == {i \in DOMAIN q : Issuable(m, Access(q[i])) /\ Free(m, q, i)}
        act(i) == [Access(q[i]) EXCEPT !.type = "ACT"]
        open == {i \in DOMAIN q : /\ \A j \in 2 .. i : q[j] \notin m.bars
                                  /\ m.bank[act(i).rank][act(i).bank].st = "Idle"
                                  /\ Issuable(m, act(i))}
    IN  IF go # {} THEN {Access(q[Min(go)])}
        ELSE IF open # {} THEN {act(Min(open))} ELSE {}

\* The rank whose queue yields a command, in round-robin order.
RankTurns(m) == {d \in Ranks : QueuePackets(m, m.q[(m.nextRank + d) % NumRanks]) # {}}

\* process_precharge: an open bank no queued access hits, the accesses behind
\* the first barrier not counted; in the order of nextRankAndBank
\* (RankThenBankRoundRobin).
PreOrder == [n \in 0 .. NumRanks * NumBanks - 1 |-> <<n % NumRanks, n \div NumRanks>>]
PreTurns(m) ==
    LET from == CHOOSE n \in DOMAIN PreOrder : PreOrder[n] = m.nextPre
        At(d) == PreOrder[(from + d) % (NumRanks * NumBanks)]
        Hits(r, b) == \E i \in DOMAIN m.q[r] :
                         /\ \A j \in 1 .. i - 1 : m.q[r][j] \notin m.bars
                         /\ Requests[m.q[r][i]].bank = b /\ m.bank[r][b].st = "RowActive"
                         /\ Requests[m.q[r][i]].row = m.bank[r][b].row
        Can(rb) == /\ ~Hits(rb[1], rb[2])
                   /\ Issuable(m, Packet("PRE", rb[1], rb[2], m.bank[rb[1]][rb[2]].row, 0))
    IN  {At(d) : d \in {e \in DOMAIN PreOrder : Can(At(e)) /\ \A f \in 0 .. e - 1 : ~Can(At(f))}}

-----------------------------------------------------------------------------
(* MemoryController.                                                       *)

\* updateCommandQueue: the controller's table after a command, per bank.
AfterCommand(m, p, r, b) ==
    LET k == m.bank[r][b]
        own == r = p.rank /\ b = p.bank
    IN  CASE p.type = "READ" ->
               IF r = p.rank
               THEN [k EXCEPT !.pre = IF own THEN Larger(@, ReadToPre) ELSE @,
                              !.rd = Larger(@, Gap(b, p.bank)), !.wr = Larger(@, ReadToWrite)]
               ELSE IF k.st = "RowActive"
               THEN [k EXCEPT !.rd = Larger(@, T.half + T.tRTRS), !.wr = Larger(@, ReadToWrite)]
               ELSE k
          [] p.type = "WRITE" ->
               IF r = p.rank
               THEN [k EXCEPT !.pre = IF own THEN Larger(@, WriteToPre) ELSE @,
                              !.rd = Larger(@, WriteToReadLong), !.wr = Larger(@, Gap(b, p.bank))]
               ELSE IF k.st = "RowActive"
               THEN [k EXCEPT !.rd = Larger(@, WriteToReadRank), !.wr = Larger(@, T.half + T.tRTRS)]
               ELSE k
          [] p.type = "ACT" ->
               IF own
               THEN [k EXCEPT !.st = "RowActive", !.row = p.row, !.act = Larger(@, T.tRC),
                              !.pre = Larger(@, T.tRAS), !.rd = Larger(@, T.tRCDRD - T.AL),
                              !.wr = Larger(@, T.tRCDWR - T.AL)]
               ELSE IF r = p.rank
               THEN [k EXCEPT !.act = Larger(@, IF SameGroup(b, p.bank) THEN T.tRRDL ELSE T.tRRDS)]
               ELSE k
          [] p.type = "PRE" ->
               IF own THEN [k EXCEPT !.st = "Precharging", !.cnt = T.tRP, !.act = Larger(@, T.tRP)]
               ELSE k
          [] p.type = "REF" ->
               IF r = p.rank THEN [k EXCEPT !.st = "Refreshing", !.cnt = T.tRFC, !.act = T.tRFC]
               ELSE k

\* The command leaves its queue and goes to the bus; a write's data follows.
Send(m, p) ==
    [m EXCEPT !.q[p.rank] = IF p.type \in {"READ", "WRITE"}
                            THEN RemoveAt(@, CHOOSE i \in DOMAIN @ : @[i] = p.id) ELSE @,
              !.bank = [r \in Ranks |-> [b \in Banks |-> AfterCommand(m, p, r, b)]],
              !.wdata = IF p.type = "WRITE" THEN Append(@, <<p.id, T.WL>>) ELSE @,
              !.panic = @ \/ m.cmd # NoPacket,
              !.cmd = p, !.cmdLeft = T.tCMD]

\* CommandQueue::pop: refresh, then commands, then precharges.
Pop(m) ==
    LET ref == RefreshPackets(m)
        turns == RankTurns(m)
        r == (m.nextRank + Min(turns)) % NumRanks
    IN  IF ref # {}
        THEN LET p == CHOOSE p \in ref : TRUE
             IN  Send([m EXCEPT !.refWait = p.type # "REF"], p)
        ELSE IF turns # {}
        THEN Send([m EXCEPT !.nextRank = r], CHOOSE p \in QueuePackets(m, m.q[r]) : TRUE)
        ELSE IF PreTurns(m) = {} THEN m
        ELSE LET rb == CHOOSE x \in PreTurns(m) : TRUE
             IN  Send([m EXCEPT !.nextPre = rb],
                      Packet("PRE", rb[1], rb[2], m.bank[rb[1]][rb[2]].row, 0))

\* updateBankState
BankTick(k) ==
    [k EXCEPT !.cnt = IF @ > 0 THEN @ - 1 ELSE 0,
              !.st = IF k.cnt = 1 /\ @ \in {"Precharging", "Refreshing"} THEN "Idle" ELSE @]
UpdateBankState(m) ==
    [m EXCEPT !.bank = [r \in Ranks |-> [b \in Banks |-> BankTick(m.bank[r][b])]]]

\* The command bus reaches the rank.
CommandBus(m) ==
    IF m.cmd = NoPacket THEN m
    ELSE IF m.cmdLeft > 1 THEN [m EXCEPT !.cmdLeft = @ - 1]
    ELSE RankReceive([m EXCEPT !.cmd = NoPacket, !.cmdLeft = 0], m.cmd)

\* The data bus: a write is done (WriteDataDone), then the next may enter.
WriteEnds(m) == m.data # 0 /\ m.dataLeft = 1
DataBus(m) ==
    LET m1 == IF m.data = 0 THEN m
              ELSE IF WriteEnds(m) THEN [m EXCEPT !.data = 0, !.dataLeft = 0, !.fly = @ - 1]
              ELSE [m EXCEPT !.dataLeft = @ - 1]
        wd == [i \in DOMAIN m.wdata |-> <<m.wdata[i][1], m.wdata[i][2] - 1>>]
    IN  IF wd # <<>> /\ Head(wd)[2] = 0
        THEN [m1 EXCEPT !.panic = @ \/ m1.data # 0, !.data = Head(wd)[1], !.dataLeft = T.half,
                        !.wdata = Tail(wd)]
        ELSE [m1 EXCEPT !.wdata = wd]

\* updateRefresh
UpdateRefresh(m) ==
    IF m.due[m.dueRank] = 0
    THEN [m EXCEPT !.refWait = TRUE, !.refRank = m.dueRank, !.due[m.dueRank] = T.tREFI,
                   !.dueRank = (@ + 1) % NumRanks]
    ELSE m

\* updateTransactionQueue: one transaction whose rank has room in its queue.
UpdateTransactionQueue(m) ==
    LET fits == {i \in DOMAIN m.tq : CmdDepth - Len(m.q[Requests[m.tq[i]].rank]) >= 1}
        id == m.tq[Min(fits)]
    IN  IF fits = {} THEN m
        ELSE [m EXCEPT !.tq = RemoveAt(@, Min(fits)), !.q[Requests[id].rank] = Append(@, id),
                       !.reads = IF Requests[id].write THEN @ ELSE Append(@, id)]

\* The first pending read of the returned address is answered.
Answered(m) == {i \in DOMAIN m.reads : Cell(m.reads[i]) = Cell(Head(m.ret))}
ReturnData(m) ==
    IF m.ret = <<>> THEN m
    ELSE IF Answered(m) = {} THEN [m EXCEPT !.panic = TRUE]
    ELSE [m EXCEPT !.ret = Tail(@), !.reads = RemoveAt(@, Min(Answered(m))), !.fly = @ - 1]

\* step(): the clocks of the controller, the queue and the ranks advance.
Less(x) == IF x > 0 THEN x - 1 ELSE 0
Aged(k) == [k EXCEPT !.rd = Less(@), !.wr = Less(@), !.act = Less(@), !.pre = Less(@)]
Step(m) ==
    [m EXCEPT !.due = [r \in Ranks |-> @[r] - 1],
              !.bank = [r \in Ranks |-> [b \in Banks |-> Aged(@[r][b])]],
              !.dev = [r \in Ranks |-> [b \in Banks |-> Aged(@[r][b])]]]

-----------------------------------------------------------------------------
(* MemorySystem and MultiChannelMemorySystem.                              *)
WillAccept(m) == Len(m.tq) < TransDepth

\* addTransaction of the controller, and of the system: a full controller
\* leaves the transaction in pendingTransactions.
Accept(m, i) == [m EXCEPT !.tq = Append(@, i), !.taken = Append(@, i), !.fly = @ + 1]
AddTransaction(m, i) ==
    IF WillAccept(m) THEN Accept(m, i) ELSE [m EXCEPT !.pend = Append(@, i)]

\* MemorySystem::update hands on one overflown transaction a cycle.
DrainPending(m) ==
    IF m.pend # <<>> /\ WillAccept(m) THEN [Accept(m, Head(m.pend)) EXCEPT !.pend = Tail(@)] ELSE m

\* addBarrier tags the last transaction of the queue that takes new ones; it
\* returns FALSE, and tags none, when that queue is empty.
AddBarrier(m) ==
    LET to == IF WillAccept(m) THEN m.tq ELSE m.pend
    IN  IF to = <<>> THEN m ELSE [m EXCEPT !.bars = @ \cup {Last(to)}]

MemInit == mem = FreshMem /\ next = 1 /\ issued = <<>> /\ done = <<>>

\* The client adds its next request, and its barrier behind it.
Add ==
    /\ next \in Ids /\ ~mem.panic
    /\ next' = next + 1
    /\ mem' = LET m == AddTransaction(mem, next)
              IN  IF Requests[next].bar THEN AddBarrier(m) ELSE m
    /\ UNCHANGED <<issued, done>>

\* MemorySystem::update: the ranks, one overflown transaction, the controller.
Update ==
    /\ ~mem.panic
    /\ \E m0 \in {RanksUpdate(mem)} :
       \E m1 \in {DrainPending(m0)} :
       \E m2 \in {CommandBus(UpdateBankState(m1))} :
       \E m3 \in {UpdateRefresh(DataBus(m2))} :
       \E m4 \in {Pop(m3)} :
       \E m5 \in {UpdateTransactionQueue(m4)} :
         /\ mem' = Step(ReturnData(m5))
         /\ issued' = IF m4.cmd # m3.cmd /\ m4.cmd.type \in {"READ", "WRITE"}
                      THEN Append(issued, m4.cmd.id) ELSE issued
         /\ done' = done \o (IF WriteEnds(m2) THEN <<m2.data>> ELSE <<>>)
                         \o (IF m5.ret # <<>> /\ Answered(m5) # {}
                             THEN <<m5.reads[Min(Answered(m5))]>> ELSE <<>>)
    /\ UNCHANGED next

MemNext == Add \/ Update

\* The clock keeps ticking (every update moves the refresh countdowns, and
\* only the exit of the simulation stops it) and the client keeps adding.
MemSpec == MemInit /\ [][MemNext]_memVars /\ []<><<mem'.due # mem.due>>_mem /\ WF_memVars(Add)

-----------------------------------------------------------------------------
(* Properties.                                                             *)

\* What the channel takes for granted of the timings it is configured with, and
\* the shipped device satisfies: a command takes one cycle on its bus, and the
\* controller, which waits for tWTRL in every bank group and spaces no write
\* behind an activation, does not wait less than the device and the data bus.
DeviceTimes == T.tCMD = 1 /\ T.tWTRS <= T.tWTRL /\ T.half <= T.tRCDWR - T.AL + 1

\* The controller's idea of the banks never runs ahead of the device: no rank
\* receives a command when it is not allowed, no two packets meet on a bus,
\* no returned datum is without its read (the exits of Rank::checkBank and of
\* MemoryController::update).
NoDeviceError == ~mem.panic

\* numOnTheFlyTransactions, which the simulation loop polls to know whether it
\* is over, counts exactly the accepted transactions whose callback has not
\* run: none is lost on a bus or answered twice.
OnTheFlyExact ==
    /\ mem.fly = next - 1 - Len(mem.pend) - Len(done)
    /\ Cardinality(ToSet(done)) = Len(done)
    /\ mem.fly = 0 => mem.pend = <<>>

\* The scheduler reorders for row hits and across refreshes, but two accesses
\* to one cell are issued in the order the controller took them, and nothing
\* of a rank crosses an access that carries a barrier.
Before(i, j) == \E a, b \in DOMAIN issued : a < b /\ issued[a] = i /\ issued[b] = j
SameRank(i, j) == Requests[i].rank = Requests[j].rank
IssueOrder ==
    \A a, b \in DOMAIN mem.taken :
       LET i == mem.taken[a]
           j == mem.taken[b]
           fenced == \E c \in a .. b : mem.taken[c] \in mem.bars /\ SameRank(mem.taken[c], i)
       IN  a < b /\ (Cell(i) = Cell(j) \/ (SameRank(i, j) /\ fenced)) => ~Before(j, i)

\* What the client relies on: the channel obeys the device, loses nothing, and
\* keeps the order of the accesses that depend on each other.
ChannelExact == NoDeviceError /\ OnTheFlyExact /\ IssueOrder

\* Every request is answered, whatever refreshes come between.
AllServed == <>[](ToSet(done) = Ids)
=============================================================================
