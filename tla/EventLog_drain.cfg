CONSTANTS
  e1 = e1
  e2 = e2
  c1 = c1
  c2 = c2
  Event = {e1, e2}
  Consumer = {c1, c2}
  Handles <- BothAndOne
  Drain = {d1, d2}
  None = None
  MaxAttempts = 2
  Limit = 1
  MaxRetries = 1
  MaxFaults = 1
CHECK_DEADLOCK FALSE
SPECIFICATION FairSpec
INVARIANTS TypeOK RepeatHasACause
PROPERTIES ImplementsPromise EventsSettle
