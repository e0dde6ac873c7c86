--------------------------- MODULE MCDraftControl ---------------------------
(***************************************************************************)
(* Instances of DraftControl for TLC.                                      *)
(***************************************************************************)
EXTENDS DraftControl, TLC

\* The requests are interchangeable: EDC does not see which one it serves.
RequestSymmetry == Permutations(Requests)

\* compute_entropy_hint lies between 2.5 (an early round) and 6.5 (a late
\* one): with the default h_max of 10 these are the buckets 1 and 5.
MCBuckets == {1, 5}
MCOneBucket == {5}
=============================================================================
