---------------------------- MODULE MCPIMDevice ----------------------------
(***************************************************************************)
(* The kernels of PIMKernel.cpp and PIMCmdGen.h on two PIM blocks: what    *)
(* the host sends, group by group, the cells before, and the reference     *)
(* result.  Only the banks that take part in a mode change are parked.     *)
(***************************************************************************)
EXTENDS PIMDevice

Burst(t, b, row, col, data) == [t |-> t, bank |-> b, row |-> row, col |-> col, data |-> data]
One(packets) == {<<p>> : p \in packets}
Park == 8192
ModeBanks == {0, 1, 8, 9}
ParkIn == One({Burst("READ", b, Park, 0, 0) : b \in ModeBanks})
ToHab == {<<Burst("ACT", b, PIM_ABMR_RA, 31, 0), Burst("WRITE", b, PIM_ABMR_RA, 31, 0)>> : b \in ModeBanks}
ToSb == {<<Burst("ACT", b, PIM_SBMR_RA, 31, 0), Burst("WRITE", b, PIM_SBMR_RA, 31, 0)>> : b \in {0, 1}}
ParkOut == {<<Burst("PRE", b, PIM_SBMR_RA, 0, 0), Burst("READ", b, Park, 0, 0)>> : b \in {0, 1}}
           \cup One({Burst("READ", b, Park, 0, 0) : b \in {8, 9}})
Control(op, zeroB) ==
    One({Burst("WRITE", 0, PIM_REG_RA, 0, [op |-> op, cond |-> 0, zeroA |-> FALSE, zeroB |-> zeroB])})
Program(cmds) ==
    One({Burst("WRITE", 1, PIM_REG_RA, 4 + i,
                [j \in 1 .. 8 |-> IF i * 8 + j <= Len(cmds) THEN toInt(cmds[i * 8 + j])
                                  ELSE toInt(DefaultCmd)]) :
           i \in 0 .. (Len(cmds) - 1) \div 8})
\* addTransactionAll with addrGenSafe: 32 bursts to a row.
All(t, b, row, col) ==
    One({Burst(t, b, row + (col + i) \div 32, (col + i) % 32, 0) : i \in 0 .. 7})
Session(cmds, zeroB, groups) ==
    <<ParkIn, ToHab, Program(cmds), Control(TRUE, zeroB)>> \o groups
    \o <<Control(FALSE, zeroB), ToSb, ParkOut>>

\* EltwisePIMKernel, ActPIMKernel and GemvPIMKernel.
Loop(cmds, n) ==
    (IF n = 0 THEN cmds ELSE Append(cmds, Ctrl("JUMP", n, Len(cmds) + 1))) \o <<Ctrl("EXIT", 0, 0)>>
Fill(grf, bank, relu) == Cmd("FILL", grf, bank, "A_OUT", 0, relu)
Eltwise(type) ==
    <<Fill("GRF_A", "EVEN_BANK", 0), Cmd(type, "GRF_A", "GRF_A", "EVEN_BANK", 1, 0), Ctrl("NOP", 7, 0),
      Fill("GRF_B", "ODD_BANK", 0), Cmd(type, "GRF_B", "GRF_B", "ODD_BANK", 1, 0), Ctrl("NOP", 7, 0)>>
Relu == <<Fill("GRF_A", "EVEN_BANK", 1), Ctrl("NOP", 7, 0), Fill("GRF_B", "ODD_BANK", 1), Ctrl("NOP", 7, 0)>>
Gemv == <<Cmd("MAC", "GRF_B", "GRF_A", "EVEN_BANK", 1, 0), Ctrl("JUMP", 7, 2),
          Cmd("MAC", "GRF_B", "GRF_A", "ODD_BANK", 1, 0), Ctrl("JUMP", 7, 2), Ctrl("NOP", 7, 0)>>

\* computeAddOrMul, computeRelu, computeGemv.
EltTile(i) ==
    <<All("READ", 0, 0, 8 * i), All("READ", 0, 3, 8 * i), All("WRITE", 0, 6, 8 * i),
      All("READ", 1, 0, 8 * i), All("READ", 1, 3, 8 * i), All("WRITE", 1, 6, 8 * i)>>
ReluTile == <<All("READ", 0, 0, 0), All("WRITE", 0, 6, 0), All("READ", 1, 0, 0), All("WRITE", 1, 6, 0)>>
Input(k, g) == (k + 1) * (g - 3)
GemvTile(k) ==
    <<One({Burst("WRITE", 1, PIM_REG_RA, 8 + g, Input(k, g)) : g \in 0 .. 7})>>
    \o [c \in 1 .. 8 |-> All("READ", k, 0, 8 * (c - 1))]

AllBanks == 0 .. 2 * NumBlocks - 1
Value(b, row, col) == ((col % 5) - 2) + b * (IF row = 3 THEN 3 ELSE 1)
Cells(rows) == [x \in AllBanks \X rows \X (0 .. 31) |-> Value(x[1], x[2], x[3])]
Result(cols, F(_, _)) == [x \in AllBanks \X {6} \X cols |-> F(x[1], x[3])]
EltCell(b, c) == Value(b, 0, c) + Value(b, 3, c)
ReluCell(b, c) == IF Value(b, 0, c) < 0 THEN 0 ELSE Value(b, 0, c)
GemvCell(b, g) ==
    SumFunction([k \in {0, 1} |->
       SumFunction([i \in 0 .. 7 |-> Input(k, i) * Value(b - 1 + k, (8 * g + i) \div 32, (8 * g + i) % 32)])])

MCKernels ==
    [add |-> [groups |-> Session(Loop(Eltwise("ADD"), 1), FALSE, EltTile(0) \o EltTile(1)),
              before |-> Cells({0, 3}), after |-> Result(0 .. 15, EltCell)],
     relu |-> [groups |-> Session(Loop(Relu, 0), FALSE, ReluTile),
               before |-> Cells({0, 3}), after |-> Result(0 .. 7, ReluCell)],
     gemv |-> [groups |-> Session(Loop(Gemv, 0), TRUE,
                                  GemvTile(0) \o GemvTile(1) \o <<All("WRITE", 1, 2, 0)>>),
               before |-> Cells({0, 1}),
               after |-> [x \in {1, 3} \X {2} \X (0 .. 7) |-> GemvCell(x[1], x[3])]]]
=============================================================================
