SPECIFICATION FairSpec
CONSTANTS
  Users = {u1, u2}
  EventThread = ET
  Bkpts = {b1, b2}
  Keys = {k1, k2}
  FreshKeys = TRUE
  MayHandle = FALSE
  MayDelete = TRUE
  MayStop = FALSE
  MaxEvents = 1
PROPERTY HitDelivered
CHECK_DEADLOCK FALSE
