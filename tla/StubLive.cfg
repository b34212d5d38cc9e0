SPECIFICATION FairSpec
CONSTANTS
  Clients = {c1, c2}
  Rx = Rx
  Ops = {"get_register", "cont"}
  HandlerCallsBack = FALSE
  TimelyStub = TRUE
  StartRunning = TRUE
  MayStop = FALSE
  MayDisconnect = FALSE
  MayRaise = FALSE
  MaxCalls = 2
  MaxHalts = 1
  MaxLost = 0
  MaxDup = 0
PROPERTY CallsReturn
CHECK_DEADLOCK FALSE
