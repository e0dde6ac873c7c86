SPECIFICATION Spec
CONSTANTS
  NumRequests = 2
  CachedLen <- MCCachedLen
  PromptLen <- MCPromptLen
  GenLen <- MCGenLen
  MaxDraft = 3
  MaxBatch = 1
  EnableEDC = TRUE
  EnableTVC = TRUE
  MinPreVerify = 2
  PreVerifyMax = 8
  EnableSSRC = TRUE
  PimActive = TRUE
  StateBytesPerToken = 2
  ResidentLimitBytes = 8
  ResidentBytes = 3
  VersionEntries = 2
  RollbackCycles = {2}
  ZeroAcceptRounds = 2
  ModelIds = {1, 2}
INVARIANTS
  OneModelPerRequest VerifyCoversDraft KvHoldsDrafts KvWithinTarget
  VskmAgrees DeferralsPaired BytesConserved StallIdles
PROPERTIES
  RoundDiscipline ImplementsService
