CONSTANTS
  tr = tr
  a = a
  c = c
  w = w
  e = e
  Node <- Flow
  Trigger = tr
  Type <- FlowType
  Out <- FlowOut
  NoReply <- FlowNoReply
  Tick = {t1}
  Drain = {d1}
  Policy = "pause"
  CancelOnReply = FALSE
  None = None
  MaxSteps = 7
  MaxRechecks = 2
  MaxAttempts = 1
  MaxInterventions = 1
  Faults = {}
  MaxFaults = 0
CHECK_DEADLOCK FALSE
SPECIFICATION Spec
INVARIANTS StopHolds
