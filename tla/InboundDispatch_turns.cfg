CONSTANTS
  None = None
  Event = {1, 2}
  Contact = {c1}
  Drainer = {d1, d2}
  Cap = 2
  BatchSize = 1
  MaxEventAttempts = 2
  MaxKinds = 1
  MaxCrashes = 1
  MaxFailures = 2
  MaxReturns = 1
  MaxHolds = 1
  MaxSlow = 1
SPECIFICATION FairSpec
INVARIANTS
  TypeOK
  MessagesCovered
  DeadOnlyAfterMishaps
PROPERTIES
  EventsConsumed
  MessagesAnswered
