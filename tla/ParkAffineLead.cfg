SPECIFICATION Spec
CONSTANTS
  Producers = {p1, p2}
  Ready = Ready
  Capacity = 2
  Loops = {"affine_lead"}
  Runs = 1
  MaxSends = 3
INVARIANTS
  RemoteWakeCompletesPark
CHECK_DEADLOCK FALSE
