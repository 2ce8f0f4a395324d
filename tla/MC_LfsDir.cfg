SPECIFICATION Spec
CONSTANTS
  Names = {1, 2}
  Values = {1}
  Absent = Absent
  Revs = 4
  Blank = {3}
  Cycles = 3
  Cap = 2
INVARIANTS LookupRight HandleFresh
PROPERTY ImplementsStore
