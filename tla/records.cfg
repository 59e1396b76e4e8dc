SPECIFICATION FairSpec
CONSTANTS
  Records = {r1, c1}
  Acceptances = {c1}
  MaxV = 2
  MaxPR = 2
  MaxEdits = 1
  MaxCrashes = 1
  Adders = {a}
  Flushers = {f}
  NoItem = NoItem
INVARIANTS TypeOK NoDuplicatePRs
PROPERTIES LocalWorkKept UnpublishedIsQueued PendingIsSubmitted
CHECK_DEADLOCK FALSE
