--------------------------- MODULE MCVerifyControl --------------------------
(***************************************************************************)
(* Instances of VerifyControl for TLC.                                     *)
(***************************************************************************)
EXTENDS VerifyControl, TLC

\* TVC does not see which request it serves.
ClientSymmetry == Permutations(Clients)
=============================================================================
