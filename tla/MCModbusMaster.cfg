SPECIFICATION Spec
CONSTANTS
  NumDevices = 2
  Regs <- MCRegs
  Size = 5
  MaxFaults = 1
INVARIANTS SharesKept OneScan OneReading
PROPERTIES ScanGoesOn SharesRecover
CHECK_DEADLOCK FALSE
