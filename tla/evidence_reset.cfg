SPECIFICATION SerialSpec
CONSTANTS
  Monitors = {m}
  Gates = {}
  Activators = {a}
  Required = 2
  Interval = 2
  TTL = 2
  Period = 2
  MaxTime = 5
  MaxChanges = 3
  MaxUnknown = 0
  MaxFailures = 0
PROPERTIES ConfirmedMeansConsecutive
CHECK_DEADLOCK FALSE
