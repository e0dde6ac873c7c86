---------------------------- MODULE MCSpecDecode ----------------------------
(***************************************************************************)
(* Instances of SpecDecode for TLC.                                        *)
(***************************************************************************)
EXTENDS SpecDecodeInv

\* Request 0 carries a cached prefix; request 1 has none.
MCCachedLen == [r \in Requests |-> IF r = 0 THEN 1 ELSE 0]
MCPromptLen == [r \in Requests |-> 1]
MCGenLen == [r \in Requests |-> IF r = 0 THEN 3 ELSE 2]
\* Request 1 asks for no token.
MCGenLenZero == [r \in Requests |-> IF r = 1 THEN 0 ELSE 2]
=============================================================================
