SPECIFICATION FairSpec
CONSTANTS
  Addrs = {a1}
  v0 = v0
  v1 = v1
  Vals = {v0, v1}
  Zero = v0
  r1 = r1
  r2 = r2
  RegOrder <- TwoRegisters
  Cpsr = cpsr
  CpuStates <- TwoStates
  MayRefuse = TRUE
  MayRaise = TRUE
  MayDie = TRUE
  MayMiss = TRUE
  MaxRequests = 3
  MaxOthers = 1
INVARIANTS TypeOK ReplyInStep RegistersHandedOver Tracked
PROPERTIES ForwardedSpec Answered ServerEnds
CHECK_DEADLOCK FALSE
