CONSTANTS
  tr = tr
  a = a
  c = c
  w = w
  e = e
  Node <- ShortFlow
  Trigger = tr
  Type <- ShortType
  Out <- ShortOut
  NoReply <- ShortNoReply
  Tick = {t1, t2}
  Drain = {d1}
  Policy = "pause"
  CancelOnReply = FALSE
  None = None
  MaxSteps = 5
  MaxRechecks = 2
  MaxAttempts = 1
  MaxInterventions = 1
  Faults = {"failure", "crash", "lost", "slow"}
  MaxFaults = 1
CHECK_DEADLOCK FALSE
SPECIFICATION Spec
SYMMETRY Symmetric
INVARIANTS TypeOK OneTurnPerAction NoActionSkipped DeadIsAnnounced
