SPECIFICATION SourcesSpec
CONSTANTS
  n1 = n1  n2 = n2  n3 = n3
  none = none
  Inodes = {n1, n2, n3}
  First = n1
  NoFile = none
  MaxLine = 3
  p = p  q = q  x = x  y = y
  Paths = {p, q}
  States = {x, y}
  Capacity = 1
  MaxEdits = 2
INVARIANTS NoReplay NoSilentLoss NoFalseAlarm
PROPERTIES EveryLineRead NoChangeSwallowed Converges
