SPECIFICATION Spec
CONSTANTS
  Capacity = 3
  Gens = 4
  Sentinel = 99
  MaxGen = 7
INVARIANTS
  SlabInv
  KeyNamesItsValue
  LenCountsOccupied
  DropReleasesAll
PROPERTIES
  ImplementsSlotTable
CHECK_DEADLOCK FALSE
