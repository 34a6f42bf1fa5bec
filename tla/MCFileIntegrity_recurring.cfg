SPECIFICATION IntegritySpec
CONSTANTS
  p = p  q = q  x = x  y = y
  Paths = {p}
  States = {x, y}
  Capacity = 2
  MaxEdits = 3
INVARIANTS EveryChangeReported
