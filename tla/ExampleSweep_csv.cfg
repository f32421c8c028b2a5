SPECIFICATION Spec
CONSTANTS
  Samples = 3
  Object = {s1, s2}
  Null = null
  MaxFaults = 0
  MaxRuns = 2
  Table <- MCTable
  Plugins = {TRUE, FALSE}
SYMMETRY MCSymmetry
INVARIANTS
  RowsMatchHeader
