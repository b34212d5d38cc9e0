SPECIFICATION Spec
CONSTANTS
  Regs = {"R0", "R1", "SP"}
  SP = "SP"
  HalfByte = 1
  WordBits = 4
  And <- MCAnd
  Or <- MCOr
  Shl <- MCShl
  Shr <- MCShr
  Insts <- MCInsts
  InitCpus <- MCInitCpus
  InitMems <- MCInitMems
  CpsrLow = 2
  NoInst = NoInst
  MaxSteps = 1
INVARIANT CarryAsAdded
CHECK_DEADLOCK FALSE
