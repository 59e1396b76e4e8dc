SPECIFICATION Spec
CONSTANTS
  Procs = {p1, p2}
  MaxSlot = 4
  MaxSetBack = 0
  MaxTorn = 0
INVARIANTS StaysReadable
CHECK_DEADLOCK FALSE
