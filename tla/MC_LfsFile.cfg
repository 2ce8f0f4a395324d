SPECIFICATION Spec
CONSTANTS
  f = f
  g = g
  N = 7
  Lookahead = 7
  Names = {f, g}
  Absent = Absent
  MaxBlocks = 2
INVARIANTS TypeOK BlocksOwned NoSpaceTrue
