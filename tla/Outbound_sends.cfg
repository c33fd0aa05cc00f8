CONSTANTS
  None = None
  Intent = {i1}
  Media = {m}
  Worker = {w1, w2}
  Redriver = {r}
  MaxKeys = 2
  Cap = 1
  BatchSize = 1
  MaxMishaps = 2
  MaxOutages = 1
SPECIFICATION FairSpec
INVARIANTS TypeOK DuplicatesHaveACause LedgerIsHonest CapHolds
PROPERTIES NeverDropped
CHECK_DEADLOCK FALSE
