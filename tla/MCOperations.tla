---------------------------- MODULE MCOperations ----------------------------
(***************************************************************************)
(* Layers for Operations, of every kind, large enough to be cut in tiles   *)
(* along each dimension and with a remainder in the last tile.             *)
(***************************************************************************)
EXTENDS Operations

MCWorkloads == {
 [op |-> "Gemm", N |-> 6, C |-> 13, M |-> 8, bias |-> TRUE],
 [op |-> "Gemm", N |-> 1, C |-> 4, M |-> 6, bias |-> FALSE],
 [op |-> "Gemm", N |-> 5, C |-> 36, M |-> 2, bias |-> FALSE],
 [op |-> "Conv", N |-> 1, C |-> 2, M |-> 6, K |-> 3, H |-> 4, stride |-> 1, pad |-> 1],
 [op |-> "Conv", N |-> 2, C |-> 2, M |-> 6, K |-> 1, H |-> 3, stride |-> 1, pad |-> 0],
 [op |-> "Conv", N |-> 1, C |-> 17, M |-> 4, K |-> 1, H |-> 3, stride |-> 1, pad |-> 0],
 [op |-> "SkipLayerNorm", seq |-> 5, batch |-> 2, dk |-> 8, bias |-> TRUE, gated |-> FALSE],
 [op |-> "BiasAct", seq |-> 7, batch |-> 1, dk |-> 8, bias |-> TRUE, gated |-> FALSE],
 [op |-> "BiasAct", seq |-> 9, batch |-> 1, dk |-> 16, bias |-> FALSE, gated |-> TRUE],
 [op |-> "BiasGelu", seq |-> 5, batch |-> 2, dk |-> 16, bias |-> TRUE, gated |-> FALSE],
 [op |-> "Softmax", seq |-> 9, batch |-> 1, dk |-> 8, bias |-> TRUE, gated |-> FALSE],
 [op |-> "Attention", q |-> 2, seq |-> 4, heads |-> 2, kv |-> 2, dk |-> 4],
 [op |-> "Attention", q |-> 2, seq |-> 3, heads |-> 4, kv |-> 2, dk |-> 2],
 [op |-> "KVCacheConcat", lens |-> <<2, 2>>, past |-> 2, hidden |-> 8, cache |-> 4]
}
=============================================================================
