SPECIFICATION FairSpec
CONSTANTS
  Callers = {c1, c2}
  MayScript = TRUE
  MayJunk = TRUE
  MayQuit = TRUE
  Radix = 2
  MaxWork = 2
INVARIANTS TypeOK InStep ResultsBalanced
PROPERTY CallsEnd
CHECK_DEADLOCK FALSE
