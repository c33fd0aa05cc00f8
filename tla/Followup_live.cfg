CONSTANTS
  tr = tr
  a = a
  c = c
  w = w
  e = e
  Node <- Flow
  Trigger = tr
  Type <- LoopType
  Out <- LoopOut
  NoReply <- FlowNoReply
  Tick = {t1}
  Drain = {d1}
  Policy = "pause"
  CancelOnReply = FALSE
  None = None
  MaxSteps = 5
  MaxRechecks = 2
  MaxAttempts = 1
  MaxInterventions = 2
  Faults = {"failure", "crash"}
  MaxFaults = 1
CHECK_DEADLOCK FALSE
SPECIFICATION FairSpec
PROPERTIES EnrollmentEnds
