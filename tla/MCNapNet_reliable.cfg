SPECIFICATION FairSpec
CONSTANTS
  a = a
  b = b
  Node = {a, b}
  Wildcard = {b}
  Lossy = FALSE
  MaxStarts = 3
  MaxQueue = 1
PROPERTIES
  Discovery
  Quiesces
CHECK_DEADLOCK FALSE
