CONSTANTS
  Job = {j1, j2}
  Contact = {c1}
  Event = {}
  Worker = {w1, w2}
  None = None
  MaxAttempts = 2
  MaxConcurrency = 2
  MaxReschedules = 1
  MaxStops = 1
CHECK_DEADLOCK FALSE
SPECIFICATION FairSpec
INVARIANTS TypeOK DeadIsAlerted RunsWithinAttempts LaneExclusive HandlersSerialized
PROPERTIES SettledForGood UnexpiredLeaseIsSafe ImplementsPromise EveryJobSettles
