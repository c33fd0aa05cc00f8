CONSTANTS
  None = None
  Lead = lead
  Inbound = {i1}
  Promise = {p1}
  Case = {c1}
  Worker = {w1}
  Request = {}
  MaxMishaps = 1
  MaxReturns = 0
  MaxUnsent = 0
CHECK_DEADLOCK FALSE
SPECIFICATION Spec
INVARIANTS RetriedHandoffCompletes
