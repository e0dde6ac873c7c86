SPECIFICATION PIMDeviceSpec
CONSTANTS
  Requests <- MCRequests
  T <- MCTiming
  NumRanks = 2
  NumBanks = 2
  BanksPerGroup = 1
  TransDepth = 2
  CmdDepth = 2
  NUM_BANKS = 16
  NumBlocks = 2
  Kernels <- MCKernels
  NumGated = 3
  Jobs <- MCJobs
  AauOps <- MCAauOps
  CounterBits = 4
  Widths <- MCWidths
  Clocks <- MCClocks
  MaxCount = 40
INVARIANTS ChannelExact KernelExact ServedInOrder MappingHolds NoDrift
PROPERTY PIMServes
\* A kernel or a counter at its bound leaves nothing to do.
CHECK_DEADLOCK FALSE
