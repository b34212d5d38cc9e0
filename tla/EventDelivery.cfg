SPECIFICATION Spec
CONSTANTS
  Users = {u1, u2}
  EventThread = ET
  Bkpts = {b1, b2}
  Keys = {k1, k2}
  FreshKeys = FALSE
  MayHandle = TRUE
  MayDelete = TRUE
  MayStop = TRUE
  MaxEvents = 2
SYMMETRY Symmetry
INVARIANTS TypeOK DeliveredInOrder MissedOnlyBySkew StopQuiet
CHECK_DEADLOCK FALSE
