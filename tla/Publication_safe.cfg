CONSTANTS
  v1 = v1
  v2 = v2
  Platform = {p}
  Version = {v1, v2}
  First = v1
  Mode = "schedule"
  Worker = {w1, w2}
  Client = {c1}
  None = None
  MaxAttempts <- Attempts
  MaxApprovals = 2
  MaxReviews = 2
  MaxEdits = 1
  MaxCalls = 2
  MaxQueue = 1
  MaxFaults = 2
CHECK_DEADLOCK FALSE
SPECIFICATION Spec
SYMMETRY Symmetric
INVARIANTS TypeOK NothingStranded NoBlindReplay RejectionStands
