SPECIFICATION Spec
CONSTANTS
  Clients = {c1, c2}
  Rx = Rx
  Ops = {"get_register", "set_register"}
  HandlerCallsBack = TRUE
  TimelyStub = FALSE
  StartRunning = TRUE
  MayStop = FALSE
  MayDisconnect = FALSE
  MayRaise = TRUE
  MaxCalls = 2
  MaxHalts = 1
  MaxLost = 1
  MaxDup = 1
SYMMETRY ClientSymmetry
INVARIANTS TypeOK ReplyRouted OneInFlight WaitersAccounted NoneAbandoned
CHECK_DEADLOCK FALSE
