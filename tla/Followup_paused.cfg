CONSTANTS
  tr = tr
  a = a
  c = c
  w = w
  e = e
  Node <- ShortFlow
  Trigger = tr
  Type <- ShortType
  Out <- ShortOut
  NoReply <- ShortNoReply
  Tick = {t1}
  Drain = {d1}
  Policy = "pause"
  CancelOnReply = FALSE
  None = None
  MaxSteps = 5
  MaxRechecks = 2
  MaxAttempts = 1
  MaxInterventions = 2
  Faults = {"lost"}
  MaxFaults = 1
CHECK_DEADLOCK FALSE
SPECIFICATION Spec
INVARIANTS PausedHasConsumer
