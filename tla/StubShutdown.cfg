SPECIFICATION FairSpec
CONSTANTS
  Clients = {c1, c2}
  Rx = Rx
  Ops = {"cont"}
  HandlerCallsBack = TRUE
  TimelyStub = FALSE
  StartRunning = FALSE
  MayStop = TRUE
  MayDisconnect = TRUE
  MayRaise = TRUE
  MaxCalls = 2
  MaxHalts = 1
  MaxLost = 1
  MaxDup = 0
INVARIANT WaitersAccounted
PROPERTIES RemoteSpec StopEndsThreads
CHECK_DEADLOCK FALSE
