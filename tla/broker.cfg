SPECIFICATION Spec
CONSTANTS
  Clients = {c1, c2}
  Newer = {}
  MaxVersion = 2
  MaxLeases = 2
  MaxBorn = 2
  MaxOrders = 1
  MaxDeaths = 1
INVARIANTS TypeOK FreshAfterDrop OffHoldsNothing SingleFlight WaitersAreWatched
PROPERTIES RefusalKeepsNewer
SYMMETRY Symmetry
CHECK_DEADLOCK FALSE
