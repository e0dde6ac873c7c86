SPECIFICATION PIMSpec
CONSTANTS
  Issuers = {r1}
  Kinds <- MCKinds
  PerTask = 3
  MaxFlight = 3
  Entries = 2
  CmdSched = TRUE
  DramCap = 1
  RespCap = 1
  SwitchCycles = 2
  AauFusion = TRUE
  AauCycles = 1
  SsrcEnable = TRUE
  SsrcCycles = 1
PROPERTIES
  NoPushDuringSwitch
