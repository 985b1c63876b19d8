SPECIFICATION Spec
CONSTANTS
  e1 = e1
  e2 = e2
  a = a
  b = b
  Event = {e1, e2}
  Label = {a, b}
  Freq = {0, 2, 3}
  Interval = 3
  Gap = 1
  PassTime = 2
SYMMETRY MCSymmetry
INVARIANTS
  NotLate
  PassServesAll
  ListIsAllocated
