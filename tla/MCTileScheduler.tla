--------------------------- MODULE MCTileScheduler --------------------------
(***************************************************************************)
(* Instances of TileScheduler for TLC: model A is a diamond (a residual    *)
(* branch) whose join is reached twice from one branch, model B a single   *)
(* layer of two tiles that is run twice.                                   *)
(***************************************************************************)
EXTENDS TileScheduler

MCLayers == 1 .. 5
MCModelOf == <<"A", "A", "A", "A", "B">>
MCNeeds == <<{}, {1}, {1}, {2, 3}, {}>>
MCOutputs == <<<<2, 3>>, <<4>>, <<4, 4>>, <<>>, <<>>>>
\* Layer 1: a tile for any core; 2: three tiles for one core; 3: skipped; 5: two tiles.
MCTileCores == <<<<-1>>, <<0, 0, 0>>, <<0>>, <<-1>>, <<-1, -1>>>>
\* A without the branch: 1, 2, 4 and 3 follow each other.
MCChainNeeds == <<{}, {1}, {4}, {2}, {}>>
MCChainOutputs == <<<<2>>, <<4>>, <<>>, <<3>>, <<>>>>
MCSkipped == {3}
MCPasses == [m \in {"A", "B"} |-> IF m = "B" THEN 2 ELSE 1]
Setup(policy, needs, outputs, partitions) ==
    [policy |-> policy, needs |-> needs, outputs |-> outputs,
     partitionOf |-> [c \in 0 .. 1 |-> IF partitions = 2 THEN c ELSE 0],
     modelPartition |-> [m \in {"A", "B"} |-> IF partitions = 2 /\ m = "B" THEN 1 ELSE 0]]
\* The spatial split loses tiles when layers overlap: it is run on chains.
MCSetups == {Setup("simple", MCNeeds, MCOutputs, 1), Setup("time_multiplex", MCNeeds, MCOutputs, 1),
             Setup("partition_cpu", MCNeeds, MCOutputs, 2),
             Setup("spatial_split", MCChainNeeds, MCChainOutputs, 1)}
MCSplitSetups == {Setup("spatial_split", MCNeeds, MCOutputs, 1)}
=============================================================================
