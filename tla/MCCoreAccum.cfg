SPECIFICATION CoreSpec
CONSTANTS
  Program <- MCProgram
  AccAddrs <- MCAccAddrs
  SpadSize = 3
  AccSize = 1
  CoreHeight = 2
PROPERTY StoreIsComplete
