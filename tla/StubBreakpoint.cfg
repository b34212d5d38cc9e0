SPECIFICATION FairSpec
CONSTANTS
  Clients = {c1, c2}
  Rx = Rx
  Ops = {"get_register", "cont"}
  HandlerCallsBack = TRUE
  TimelyStub = TRUE
  StartRunning = FALSE
  MayStop = FALSE
  MayDisconnect = FALSE
  MayRaise = FALSE
  MaxCalls = 1
  MaxHalts = 1
  MaxLost = 0
  MaxDup = 0
PROPERTY HitsReported
CHECK_DEADLOCK FALSE
