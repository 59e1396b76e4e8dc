SPECIFICATION ProductionSpec
CONSTANTS
  N = 1
  MaxTx = 1
  MaxVersion = 1
  MaxAborts = 1
  MaxOther = 0
  Procs = {p1}
  NoProc = NoProc
PROPERTIES EveryRemovalReported
CHECK_DEADLOCK FALSE
