SPECIFICATION FairSpec
CONSTANTS
  Users = {u1}
  EventThread = ET
  Bkpts = {b1, b2}
  Keys = {k1, k2}
  FreshKeys = TRUE
  MayHandle = FALSE
  MayDelete = TRUE
  MayStop = FALSE
  MaxEvents = 2
INVARIANT NoStaleHit
PROPERTY HitDeliveredUnlessSkewed
CHECK_DEADLOCK FALSE
