SPECIFICATION Spec
CONSTANTS
  NumRequests = 2
  CachedLen <- MCCachedLen
  PromptLen <- MCPromptLen
  GenLen <- MCGenLen
  MaxDraft = 2
  MaxBatch = 1
  EnableEDC = TRUE
  EnableTVC = FALSE
  MinPreVerify = 2
  PreVerifyMax = 8
  EnableSSRC = FALSE
  PimActive = TRUE
  StateBytesPerToken = 2
  ResidentLimitBytes = 8
  ResidentBytes = 3
  VersionEntries = 2
  RollbackCycles = {2}
  ZeroAcceptRounds = 2
  ModelIds = {1, 2}
PROPERTIES
  RankModeFitsTask
