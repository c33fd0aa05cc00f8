CONSTANTS
  None = None
  Lead = lead
  Inbound = {i1}
  Promise = {p1}
  Case = {c1}
  Worker = {w1}
  Request = {r1}
  MaxMishaps = 1
  MaxReturns = 1
  MaxUnsent = 1
CHECK_DEADLOCK FALSE
SPECIFICATION Spec
INVARIANTS TypeOK HandoffIsHeard LateMessagesWereWaiting CancelledMeansUnfired AnswerTakesEffect
