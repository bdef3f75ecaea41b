CONSTANTS
  t1 = t1
  t2 = t2
  none = none
  Size = 2
  Levels = 3
  Ids = {t1, t2}
  Delays = {1, 2, 3, 5, 9}
  MaxTick = 12
  None = none
SPECIFICATION Spec
SYMMETRY Symmetry
CHECK_DEADLOCK FALSE
INVARIANTS
  TypeOK
  MaskMatchesLists
  TimeoutWithinSlot
PROPERTIES
  FiresAtDeadline
