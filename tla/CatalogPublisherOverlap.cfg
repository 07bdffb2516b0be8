CONSTANTS
  Calls = {p1, p2, p3}
  Catalogs = {a, b}
  Contents = {x, y}
  a = a
  b = b
  x = x
  y = y
  open = open
  closed = closed
  Invalid = Invalid
  NoId = NoId
  None = None
  Requests <- Bodies
  Compacts <- OneChange
  MaxOverlap = 2
SYMMETRY CallSymmetry
SPECIFICATION Spec
INVARIANT AcceptedFilesAreCrawlable
CHECK_DEADLOCK FALSE
