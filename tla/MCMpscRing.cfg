SPECIFICATION Spec
CONSTANTS
  Producers = {p1, p2}
  Values = {a, b}
  Uninit = Uninit
  N = 2
  W = 10
  MaxLag = 2
  MaxPushes = 11
SYMMETRY Perms
INVARIANTS
  RingInv
  SlotExclusive
  LenCoversPublished
  DropReleasesAll
PROPERTIES
  RejectsOnlyWhenFull
  ImplementsBoundedQueue
CHECK_DEADLOCK FALSE
