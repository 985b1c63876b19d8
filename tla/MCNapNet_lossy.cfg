SPECIFICATION Spec
CONSTANTS
  a = a
  b = b
  Node = {a, b}
  Wildcard = {b}
  Lossy = TRUE
  MaxStarts = 2
  MaxQueue = 2
INVARIANTS
  OneFailureSilences
CHECK_DEADLOCK FALSE
