SPECIFICATION Spec
CONSTANTS
  Records = {r1, r2}
  Acceptances = {}
  MaxV = 1
  MaxPR = 2
  MaxEdits = 0
  MaxCrashes = 0
  Adders = {a}
  Flushers = {f}
  NoItem = NoItem
INVARIANTS MergedMeansTrusted
CHECK_DEADLOCK FALSE
