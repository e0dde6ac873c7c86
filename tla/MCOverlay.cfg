SPECIFICATION OverlaySpec
CONSTANTS
  Parts = {"draft", "verify", "channel"}
  Requests = {r1, r2}
  LehtSize = 2
  LlrBits = 2
  MaxDraft = 3
  EnableTVC = TRUE
  EntropyBuckets <- MCOneBucket
  Clients = {c1, c2}
  TableSize = 2
  FreqNum = 4
  FreqDen = 5
  MinPreVerify = 2
  PreVerifyMax = 8
  MaxRound = 3
  StartLen = 2
  TargetLen = 4
  MaxCycle = 7
  Issuers = {i1}
  Kinds <- MCKinds
  PerTask = 3
  MaxFlight = 3
  Entries = 2
  CmdSched = TRUE
  DramCap = 1
  RespCap = 1
  SwitchCycles = 2
  AauFusion = TRUE
  AauCycles = 1
  SsrcEnable = TRUE
  SsrcCycles = 1
INVARIANTS
  LlrTracksPending HistoryAhead PendingBounded
  NcrNoWrap LongPreVerifyFits
  EachInOneQueue HeldInOrder
SYMMETRY OverlaySymmetry
\* The bound on the core cycles ends the behaviours of TVC.
CHECK_DEADLOCK FALSE
