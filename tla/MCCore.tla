------------------------------- MODULE MCCore -------------------------------
(***************************************************************************)
(* Programs for Core: a matrix product in two accumulating tiles (GemmWS), *)
(* a layer normalisation (SkipLayerNorm), and a skipped tile (KVCache); a  *)
(* matrix product with several outputs, each accumulated in two tiles.     *)
(***************************************************************************)
EXTENDS Core

Load(a, n) == [op |-> "MOVIN", dst |-> a, size |-> n, srcs |-> {}, fromAcc |-> FALSE]
Store(a) == [op |-> "MOVOUT", dst |-> a, size |-> 1, srcs |-> {}, fromAcc |-> FALSE]
Mul(a, s) == [op |-> "GEMM", dst |-> a, size |-> 1, srcs |-> s, fromAcc |-> FALSE]
Vec(a, s) == [op |-> "VEC", dst |-> a, size |-> 1, srcs |-> s, fromAcc |-> FALSE]

MCProgram == <<
    [layer |-> 1, accum |-> FALSE, skip |-> FALSE,
     insts |-> <<Load("o", 1), Load("w", 2), Load("a", 1), Mul("o", {"a", "w"})>>],
    [layer |-> 1, accum |-> TRUE, skip |-> FALSE,
     insts |-> <<Load("w", 2), Load("a", 1), Mul("o", {"a", "w"}), Store("o")>>],
    [layer |-> 2, accum |-> FALSE, skip |-> TRUE, insts |-> <<>>],
    [layer |-> 3, accum |-> FALSE, skip |-> FALSE,
     insts |-> <<Load("x", 1), Load("y", 1), Vec("x", {"x"}), Vec("x", {"x", "y"}), Store("x")>>]>>

\* GemmWS with a bias and three outputs on one core.
GemmFirst == [layer |-> 1, accum |-> FALSE, skip |-> FALSE,
              insts |-> <<Load("o", 1), Load("w", 2), Load("a", 1), Mul("o", {"a", "w"})>>]
GemmLast == [layer |-> 1, accum |-> TRUE, skip |-> FALSE,
             insts |-> <<Load("w", 2), Load("a", 1), Mul("o", {"a", "w"}), Store("o")>>]
GemmProgram == <<GemmFirst, GemmLast, GemmFirst, GemmLast, GemmFirst>>

MCAccAddrs == {"o"}
=============================================================================
