SPECIFICATION Spec
CONSTANTS
  Clients = {c1, c2}
  Newer = {c2}
  MaxVersion = 1
  MaxLeases = 2
  MaxBorn = 2
  MaxOrders = 0
  MaxDeaths = 0
INVARIANTS StepsAside
CHECK_DEADLOCK FALSE
