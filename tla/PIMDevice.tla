------------------------------ MODULE PIMDevice ------------------------------
(***************************************************************************)
(* A rank of PIMSimulator with its PIM blocks: the single-bank (SB),       *)
(* all-bank (HAB) and PIM (HAB_PIM) modes of Rank.cpp, the registers and   *)
(* the command interpreter of PIMRank.cpp and PIMBlock.cpp, the sparse     *)
(* storage of Bank.cpp.  One lane stands for a burst: all lanes do the     *)
(* same.  The host sends groups of commands (`script'); the groups are     *)
(* fenced by barriers, and within one the memory controller issues the     *)
(* chains of commands in any order (PIMMemory!IssueOrder).                 *)
(***************************************************************************)
EXTENDS Integers, Sequences, SequencesExt, FiniteSets, Functions

CONSTANTS NUM_BANKS, NumBlocks,  \* NUM_PIM_BLOCKS
          Kernels     \* [name -> the groups of the host, the cells before, and after]

ASSUME DeviceAssumption == NUM_BANKS \in Nat /\ NumBlocks * 2 \in 1 .. NUM_BANKS

Blocks == 0 .. NumBlocks - 1
Regs == 0 .. 7
CrfSize == 32

\* Configuration.h: the rows that stand for mode registers; bit 13 reserves.
PIM_REG_RA == 16383
PIM_ABMR_RA == 10239
PIM_SBMR_RA == 12287
isReservedRA(row) == (row \div 8192) % 2 = 1
masked2accessibleRA(row) == row % 8192
getGrfIdx(i) == i % 8
getGrfIdxHigh(row, col) == 4 * (row % 2) + ((col \div 8) % 4)

VARIABLES dev,     \* the rank
          kernel,  \* the kernel the host runs
          pos,     \* the group being issued
          left     \* its chains of commands that are not issued yet

deviceVars == <<dev, kernel, pos, left>>

-----------------------------------------------------------------------------
(* PIMCmd: a command is a word of bit fields <<name, length, position>>.   *)
Opds == <<"A_OUT", "M_OUT", "EVEN_BANK", "ODD_BANK", "GRF_A", "GRF_B", "SRF_M", "SRF_A">>
Types == <<"NOP", "ADD", "MUL", "MAC", "MAD", "REV0", "REV1", "REV2", "MOV", "FILL",
           "REV3", "REV4", "REV5", "REV6", "JUMP", "EXIT">>
DefaultCmd == [type |-> 0, dst |-> 0, src0 |-> 0, src1 |-> 0, src2 |-> 0, count |-> 0, offset |-> 0,
               auto |-> 0, dstIdx |-> 0, src0Idx |-> 0, src1Idx |-> 0, relu |-> 0]
TypeOf(c) == Types[c.type + 1]
Indices == {<<"dstIdx", 4, 8>>, <<"src0Idx", 4, 4>>, <<"src1Idx", 4, 0>>}
TwoOperands == Indices \cup {<<"dst", 3, 25>>, <<"src0", 3, 22>>}

\* The fields of a command word.
Fields(type) ==
    CASE type = "NOP"  -> {<<"count", 11, 0>>}
      [] type = "JUMP" -> {<<"count", 17, 11>>, <<"offset", 11, 0>>}
      [] type \in {"FILL", "MOV"} -> TwoOperands \cup {<<"relu", 1, 12>>}
      [] type \in {"ADD", "MUL", "MAC", "MAD"} ->
           TwoOperands \cup {<<"src1", 3, 19>>, <<"auto", 1, 15>>}
           \cup (IF type = "MAD" THEN {<<"src2", 3, 16>>} ELSE {})
      [] OTHER -> {}

\* toInt ors the masked fields into place; a word is kept as its set of bits,
\* so that overlapping fields meet as they do in the code.
Bits(v, len, at) == {at + i : i \in {j \in 0 .. len - 1 : (v \div 2^j) % 2 = 1}}
FromBit(word, len, at) == SumFunction([j \in 0 .. len - 1 |-> IF at + j \in word THEN 2^j ELSE 0])
toInt(c) == Bits(c.type, 4, 28) \cup UNION {Bits(c[f[1]], f[2], f[3]) : f \in Fields(TypeOf(c))}

\* fromInt on a command as it was constructed: other fields keep their value.
fromInt(word) ==
    LET type == FromBit(word, 4, 28)
        fs == Fields(Types[type + 1])
    IN  [n \in DOMAIN DefaultCmd |->
           IF n = "type" THEN type
           ELSE IF \E f \in fs : f[1] = n
           THEN LET f == CHOOSE f \in fs : f[1] = n IN FromBit(word, f[2], f[3])
           ELSE DefaultCmd[n]]

Opd(name) == (CHOOSE i \in DOMAIN Opds : Opds[i] = name) - 1
Cmd(type, dst, src0, src1, auto, relu) ==
    [DefaultCmd EXCEPT !.type = (CHOOSE i \in DOMAIN Types : Types[i] = type) - 1,
                       !.dst = Opd(dst), !.src0 = Opd(src0), !.src1 = Opd(src1),
                       !.auto = auto, !.relu = relu]
Ctrl(type, count, offset) ==
    [Cmd(type, "A_OUT", "A_OUT", "A_OUT", 0, 0) EXCEPT !.count = count, !.offset = offset]

-----------------------------------------------------------------------------
(* The state of a rank.  `buf' is the host's null_bst_, the one burst that *)
(* all its reads and most of its writes point to.                          *)
ZeroRegs == [b \in Blocks |-> [i \in Regs |-> 0]]
FreshDevice(cells) ==
    [mode |-> "SB", abmr |-> {}, sbmr |-> {}, cells |-> cells, buf |-> 0,
     crf |-> [i \in 0 .. 3 |-> [j \in 1 .. 8 |-> {}]], op |-> FALSE, exit |-> FALSE, even |-> FALSE,
     odd |-> FALSE, ra13 |-> FALSE, pc |-> 0, lastJump |-> -1, jumps |-> -1, lastRep |-> -1,
     reps |-> -1, grfA |-> ZeroRegs, grfB |-> ZeroRegs, srf |-> [i \in 0 .. 15 |-> 0],
     out |-> [b \in Blocks |-> <<0, 0>>]]

\* Bank::read leaves the burst alone when the cell was never written.
BankRead(d, b, row, col) ==
    IF <<b, row, col>> \in DOMAIN d.cells THEN [d EXCEPT !.buf = d.cells[<<b, row, col>>]] ELSE d
BankWrite(d, b, row, col, v) ==
    [d EXCEPT !.buf = v,
              !.cells = [x \in DOMAIN d.cells \cup {<<b, row, col>>} |->
                            IF x = <<b, row, col>> THEN v ELSE d.cells[x]]]

\* controlPIM
controlPIM(d, w) ==
    [d EXCEPT !.grfA = IF w.zeroA THEN ZeroRegs ELSE @, !.grfB = IF w.zeroB THEN ZeroRegs ELSE @,
              !.op = w.op, !.even = w.cond % 2 = 0, !.odd = (w.cond \div 2) % 2 = 0,
              !.ra13 = (w.cond \div 4) % 2 = 1,
              !.mode = IF w.op THEN "HAB_PIM" ELSE "HAB",
              !.pc = IF w.op THEN 0 ELSE @, !.exit = IF w.op THEN FALSE ELSE @,
              !.lastJump = IF w.op THEN -1 ELSE @, !.jumps = IF w.op THEN -1 ELSE @,
              !.lastRep = IF w.op THEN -1 ELSE @, !.reps = IF w.op THEN -1 ELSE @]

isToggleCond(d, p) ==
    /\ d.op /\ ~d.exit
    /\ d.ra13 \/ ~isReservedRA(p.row)
    /\ IF p.bank % 2 = 0 THEN d.even ELSE d.odd

\* readHab: every block's bank to its GRF_B.
readHab(d, p) ==
    IF isReservedRA(p.row) THEN d
    ELSE FoldFunctionOnSet(
           LAMBDA b, e : LET f == BankRead(e, b * 2 + p.bank, p.row, p.col)
                         IN  [f EXCEPT !.grfB[b][getGrfIdx(p.col)] = f.buf],
           d, [b \in Blocks |-> b], Blocks)

\* writeHab: the registers of all blocks, or every block's GRF to its bank.
GrfToBank(d, p, blocks) ==
    FoldFunctionOnSet(
       LAMBDA b, e : LET grf == IF p.bank = 0 THEN e.grfA ELSE e.grfB
                     IN  BankWrite(e, b * 2 + p.bank, p.row, p.col, grf[b][getGrfIdx(p.col)]),
       d, [b \in blocks |-> b], IF p.bank \in {0, 1} THEN blocks ELSE {})
writeHab(d, p) ==
    IF p.row = PIM_REG_RA
    THEN CASE p.col = 0 -> controlPIM(d, p.data)
           [] p.col = 1 -> [d EXCEPT !.srf = p.data]
           [] p.col \in 4 .. 7 -> [d EXCEPT !.crf[p.col - 4] = p.data]
           [] p.col \in 8 .. 15 ->
                [d EXCEPT !.grfA = [b \in Blocks |-> [@[b] EXCEPT ![p.col - 8] = p.data]]]
           [] p.col \in 24 .. 31 ->
                [d EXCEPT !.grfB = [b \in Blocks |-> [@[b] EXCEPT ![p.col - 24] = p.data]]]
           [] OTHER -> d
    ELSE IF isReservedRA(p.row) THEN d ELSE GrfToBank(d, p, Blocks)

\* readOpd yields the device (a bank read fills buf) and the operand.
readOpd(d, b, opd, p, idx, auto, mac) ==
    LET i == getGrfIdx(idx)
        low == IF auto THEN getGrfIdx(p.col) ELSE i
        high == IF auto /\ mac THEN getGrfIdxHigh(p.row, p.col) ELSE low
        bank == b * 2 + (IF Opds[opd + 1] = "ODD_BANK" THEN 1 ELSE 0)
        e == IF Opds[opd + 1] \in {"EVEN_BANK", "ODD_BANK"} THEN BankRead(d, bank, p.row, p.col) ELSE d
    IN  <<e, CASE Opds[opd + 1] = "A_OUT" -> d.out[b][1]
               [] Opds[opd + 1] = "M_OUT" -> d.out[b][2]
               [] Opds[opd + 1] \in {"EVEN_BANK", "ODD_BANK"} -> e.buf
               [] Opds[opd + 1] = "GRF_A" -> d.grfA[b][low]
               [] Opds[opd + 1] = "GRF_B" -> d.grfB[b][high]
               [] Opds[opd + 1] = "SRF_M" -> d.srf[i]
               [] Opds[opd + 1] = "SRF_A" -> d.srf[i + 8]>>

writeOpd(d, b, v, opd, p, idx, auto, mac) ==
    LET low == getGrfIdx(IF auto THEN p.col ELSE idx)
        high == IF auto /\ mac THEN getGrfIdxHigh(p.row, p.col) ELSE low
    IN  CASE Opds[opd + 1] = "A_OUT" -> [d EXCEPT !.out[b][1] = v]
          [] Opds[opd + 1] = "M_OUT" -> [d EXCEPT !.out[b][2] = v]
          [] Opds[opd + 1] = "EVEN_BANK" -> BankWrite(d, b * 2, p.row, p.col, v)
          [] Opds[opd + 1] = "ODD_BANK" -> BankWrite(d, b * 2 + 1, p.row, p.col, v)
          [] Opds[opd + 1] = "GRF_A" -> [d EXCEPT !.grfA[b][low] = v]
          [] Opds[opd + 1] = "GRF_B" -> [d EXCEPT !.grfB[b][high] = v]
          [] OTHER -> [d EXCEPT !.srf = [i \in 0 .. 15 |-> v]]

\* PIMBlock: the arithmetic on a lane.
Arith(type, x, y, z) ==
    CASE type = "ADD" -> x + y [] type = "MUL" -> x * y [] type \in {"MAC", "MAD"} -> x * y + z

\* doPIMBlock: one command on one block; a MAD reads its third operand with
\* the index of the second.
doPIMBlock(d, p, c, b) ==
    LET type == TypeOf(c)
        auto == c.auto = 1
    IN  CASE type \in {"FILL", "MOV"} ->
               LET r == readOpd(d, b, c.src0, p, c.src0Idx, type = "FILL", FALSE)
                   v == IF c.relu = 1 /\ r[2] < 0 THEN 0 ELSE r[2]
               IN  writeOpd(r[1], b, v, c.dst, p, c.dstIdx, type = "FILL", FALSE)
          [] type \in {"ADD", "MUL", "MAC", "MAD"} ->
               LET mac == type = "MAC"
                   x == readOpd(d, b, c.src0, p, c.src0Idx, auto, mac)
                   y == readOpd(x[1], b, c.src1, p, c.src1Idx, auto, mac)
                   z == CASE mac -> readOpd(y[1], b, c.dst, p, c.dstIdx, auto, mac)
                          [] type = "MAD" -> readOpd(y[1], b, c.src2, p, c.src1Idx, auto, mac)
                          [] OTHER -> <<y[1], 0>>
               IN  writeOpd(z[1], b, Arith(type, x[2], y[2], z[2]), c.dst, p, c.dstIdx, auto, mac)
          [] type = "NOP" /\ p.t = "WRITE" -> GrfToBank(d, p, {b})
          [] OTHER -> d

\* The repetition of FILL and automatic commands (8 times) and of NOP: the
\* program counter is stepped back, then advances.
Repeat(d, n) ==
    LET left0 == IF d.lastRep # d.pc THEN n ELSE d.reps
    IN  IF left0 > 0 THEN [d EXCEPT !.lastRep = d.pc, !.reps = left0 - 1]
        ELSE [d EXCEPT !.lastRep = -1, !.reps = left0, !.pc = @ + 1]

\* Mutant: a jump that was taken to its end is armed again.
JumpForever(d, c) ==
    LET n == IF c.count > 0 /\ (d.lastJump # d.pc \/ d.jumps = 0) THEN c.count ELSE d.jumps
    IN  [d EXCEPT !.lastJump = IF c.count > 0 THEN d.pc ELSE @,
                  !.jumps = IF n > 0 THEN n - 1 ELSE n,
                  !.pc = IF n > 0 THEN @ - c.offset + 1 ELSE @ + 1]

\* JUMP arms its counter when it is not the jump last armed.
Jump(d, c) ==
    LET arm == d.lastJump # d.pc /\ c.count > 0
        n == IF arm THEN c.count ELSE d.jumps
    IN  [d EXCEPT !.lastJump = IF arm THEN d.pc ELSE @,
                  !.jumps = IF n > 0 THEN n - 1 ELSE n,
                  !.pc = IF n > 0 THEN @ - c.offset + 1 ELSE @ + 1]

\* The word at the program counter; outside of the registers, whatever is there.
Fetch(d) == IF d.pc \in 0 .. CrfSize - 1 THEN fromInt(d.crf[d.pc \div 8][(d.pc % 8) + 1]) ELSE DefaultCmd
EndCheck(d) == [d EXCEPT !.exit = @ \/ TypeOf(Fetch(d)) = "EXIT"]

\* doPIM: jumps are followed until a command runs.
RECURSIVE PIMLoop(_, _)
PIMLoop(d, p) ==
    LET c == Fetch(d)
        type == TypeOf(c)
        rep == CASE type = "FILL" \/ c.auto = 1 -> Repeat(d, 7)
                 [] type = "NOP" -> Repeat(d, c.count)
                 [] OTHER -> [d EXCEPT !.pc = @ + 1]
    IN  CASE type = "EXIT" -> [d EXCEPT !.exit = TRUE]
          [] type = "JUMP" -> PIMLoop(EndCheck(Jump(d, c)), p)
          [] OTHER -> EndCheck(FoldFunctionOnSet(LAMBDA b, e : doPIMBlock(e, p, c, b),
                                                 rep, [b \in Blocks |-> b], Blocks))
doPIM(d, p) == PIMLoop(d, [p EXCEPT !.row = masked2accessibleRA(@)])

-----------------------------------------------------------------------------
(* Rank::sendToBank.                                                       *)

\* readSb and writeSb: the registers can be read, reserved rows not written.
readSb(d, p) ==
    CASE p.row = PIM_REG_RA /\ p.col \in 8 .. 15 -> [d EXCEPT !.buf = d.grfA[p.bank \div 2][p.col - 8]]
      [] p.row = PIM_REG_RA /\ p.col \in 24 .. 31 -> [d EXCEPT !.buf = d.grfB[p.bank \div 2][p.col - 24]]
      [] OTHER -> BankRead(d, p.bank, p.row, p.col)
writeSb(d, p) ==
    IF p.row = PIM_REG_RA \/ isReservedRA(p.row) THEN d ELSE BankWrite(d, p.bank, p.row, p.col, p.data)

\* The activations that lead from SB to HAB, and the precharges that lead back.
AbmrBanks == IF NUM_BANKS <= 2 THEN {0, 1} ELSE {0, 1, 8, 9}
Activate(d, p) ==
    LET seen == IF d.mode = "SB" /\ p.row = PIM_ABMR_RA /\ p.col = 31
                THEN d.abmr \cup ({p.bank} \cap AbmrBanks) ELSE d.abmr
    IN  IF seen = AbmrBanks THEN [d EXCEPT !.abmr = {}, !.mode = "HAB"] ELSE [d EXCEPT !.abmr = seen]
Precharge(d, p) ==
    LET seen == IF d.mode = "HAB" /\ p.row = PIM_SBMR_RA THEN d.sbmr \cup ({p.bank} \cap {0, 1})
                ELSE d.sbmr
    IN  IF seen = {0, 1} THEN [d EXCEPT !.sbmr = {}, !.mode = "SB"] ELSE [d EXCEPT !.sbmr = seen]

sendToBank(d, p) ==
    CASE p.t = "ACT" -> Activate(d, p)
      [] p.t = "PRE" -> Precharge(d, p)
      [] p.t \in {"READ", "WRITE"} /\ d.mode = "HAB_PIM" /\ isToggleCond(d, p) -> doPIM(d, p)
      [] p.t = "READ"  -> IF d.mode = "SB" THEN readSb(d, p) ELSE readHab(d, p)
      [] p.t = "WRITE" -> IF d.mode = "SB" THEN writeSb(d, p) ELSE writeHab(d, p)

-----------------------------------------------------------------------------
DeviceInit ==
    /\ kernel \in DOMAIN Kernels /\ pos = 1
    /\ dev = FreshDevice(Kernels[kernel].before)
    /\ left = Kernels[kernel].groups[1]

\* The controller issues the first command of some chain of the group; a
\* group that is done is followed by the next.
Issue ==
    \E ch \in left :
       LET rest == (left \ {ch}) \cup (IF Len(ch) = 1 THEN {} ELSE {Tail(ch)})
           last == rest = {} /\ pos < Len(Kernels[kernel].groups)
       IN  /\ dev' = sendToBank(dev, Head(ch))
           /\ pos' = IF last THEN pos + 1 ELSE pos
           /\ left' = IF last THEN Kernels[kernel].groups[pos + 1] ELSE rest
           /\ UNCHANGED kernel

DeviceNext == Issue

-----------------------------------------------------------------------------
(* Properties.                                                             *)

\* When the host's kernel is over the rank is back in single-bank mode with
\* its mode registers clear, and the result rows hold what the kernel
\* computes, in whatever order the controller issued the columns of a group
\* and however the repetitions and jumps of the program fell on them.
KernelExact ==
    left = {} => /\ dev.mode = "SB" /\ dev.abmr = {} /\ dev.sbmr = {}
                 /\ \A x \in DOMAIN Kernels[kernel].after :
                       x \in DOMAIN dev.cells /\ dev.cells[x] = Kernels[kernel].after[x]
=============================================================================
