SPECIFICATION NpuSpec
CONSTANTS
  Program <- MCProgram
  AccAddrs <- MCAccAddrs
  SpadSize = 3
  AccSize = 1
  CoreHeight = 2
  Workloads <- MCWorkloads
  NumCores = 2
  Dim = 2
  Access = 2
  SpadBytes = 128
  AccBytes = 128
  Setups <- MCSetups
  CoreCount = 2
  Models = {"A", "B"}
  Layers <- MCLayers
  ModelOf <- MCModelOf
  TileCores <- MCTileCores
  Skipped <- MCSkipped
  Passes <- MCPasses
  ServingSetups <- MCServingSetups
  MemSetups <- MCMemSetups
INVARIANTS
  CoreSafe Runnable ComputesWhole
  LayersInOrder RetiredClean
  CachesFollowTokens BatchBound ShapesAgree
  AnsweredInOrder LinesApart
PROPERTIES
  StoreAfterOwnWork NpuFinishes
\* A finished layer, trace or program leaves nothing to do.
CHECK_DEADLOCK FALSE
