CONSTANTS
  b1 = b1
  b2 = b2
  root = root
  none = none
  Programs <- OnePrograms
  Root = root
  None = none
  WakeCap = 4
  RequestCap = 1
  NoteCap = 1
  ReapCap = 1
SPECIFICATION Spec
PROPERTIES
  SleepsFully
