---------------------------- MODULE MCPIMChannel ----------------------------
(***************************************************************************)
(* Instances of PIMChannel for TLC.                                        *)
(***************************************************************************)
EXTENDS PIMChannel

\* A read of weights, a store of activations, a read and a write of the KV
\* cache (the tagged traffic).
WeightRead == [write |-> FALSE, tagged |-> FALSE]
Store == [write |-> TRUE, tagged |-> FALSE]
KvRead == [write |-> FALSE, tagged |-> TRUE]
KvWrite == [write |-> TRUE, tagged |-> TRUE]

MCKinds == {WeightRead, Store, KvRead, KvWrite}
=============================================================================
