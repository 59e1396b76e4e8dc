SPECIFICATION PromptSpec
CONSTANTS
  Monitors = {m}
  Gates = {g}
  Activators = {a}
  Required = 2
  Interval = 2
  TTL = 2
  Period = 2
  MaxTime = 8
  MaxChanges = 2
  MaxUnknown = 1
  MaxFailures = 1
INVARIANTS TypeOK LaunchMeansAllowed ConfirmedMeansSpaced RemovedInTime
CHECK_DEADLOCK FALSE
