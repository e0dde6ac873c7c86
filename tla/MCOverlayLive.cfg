SPECIFICATION FairOverlaySpec
CONSTANTS
  NumRequests = 3
  CachedLen <- MCCachedLen
  PromptLen <- MCPromptLen
  GenLen <- MCGenLenZero
  MaxDraft = 2
  MaxBatch = 1
  EnableEDC = FALSE
  EnableTVC = TRUE
  MinPreVerify = 2
  PreVerifyMax = 8
  EnableSSRC = FALSE
  PimActive = FALSE
  StateBytesPerToken = 2
  ResidentLimitBytes = 8
  ResidentBytes = 3
  VersionEntries = 2
  RollbackCycles = {2}
  ZeroAcceptRounds = 2
  ModelIds = {1, 2}
INVARIANTS
  BatchBounded
PROPERTIES
  OverlayCompletes OverlayRecovers OverlayTasksFinish
