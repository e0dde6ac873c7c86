SPECIFICATION SchedSpec
CONSTANTS
  Setups <- MCSplitSetups
  CoreCount = 2
  Models = {"A", "B"}
  Layers <- MCLayers
  ModelOf <- MCModelOf
  TileCores <- MCTileCores
  Skipped <- MCSkipped
  Passes <- MCPasses
INVARIANT OverlapKeepsTiles
