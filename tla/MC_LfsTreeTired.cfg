SPECIFICATION Spec
CONSTANTS
  R0 = R0
  R1 = R1
  b2 = b2
  b3 = b3
  b4 = b4
  b5 = b5
  b6 = b6
  b7 = b7
  b8 = b8
  f = f
  labels = labels
  settings = settings
  Blocks = {R0, R1, b2, b3, b4, b5, b6, b7, b8}
  DirSeq <- MCDirs
  Names = {f}
  Values = {1}
  Absent = Absent
  Here = Here
  Coincide = TRUE
  MaxCalls = 2
  MaxMoves = 3
  MaxCuts = 1
SYMMETRY Spare
PROPERTY RepairChangesNothing
CHECK_DEADLOCK FALSE
