SPECIFICATION FairSpec
CONSTANTS
  Producers = {p1, p2}
  Ready = Ready
  Capacity = 2
  Loops = {"sibling", "lead"}
  Runs = 2
  MaxSends = 3
INVARIANTS
  HandshakeInv
  NoSleepOnWork
PROPERTIES
  EveryPostIsTaken
  ShutdownJoins
CHECK_DEADLOCK FALSE
