SPECIFICATION CoreSpec
CONSTANTS
  Program <- GemmProgram
  AccAddrs <- MCAccAddrs
  SpadSize = 3
  AccSize = 1
  CoreHeight = 2
INVARIANT NoPanic
CHECK_DEADLOCK FALSE
