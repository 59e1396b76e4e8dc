SPECIFICATION Spec
CONSTANTS
  Procs = {p1, p2, p3}
  MaxSlot = 5
  MaxSetBack = 1
  MaxTorn = 1
SYMMETRY Symmetry
INVARIANTS TypeOK SerialAppendsStayReadable
PROPERTIES IsItem
CHECK_DEADLOCK FALSE
