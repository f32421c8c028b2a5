SPECIFICATION Spec
CONSTANTS
  Stack = {s1}
  Layer = {glass, metal}
  Null = null
  Cap = 2
  MaxLayers = 3
SYMMETRY MCSymmetry
INVARIANTS
  TypeOK
  CountWithinArray
  AcceptedDirIsCurrent
  DepthReadsInRange
  LastMatrixExists
PROPERTIES
  FailedCallKeepsResults
\* Undefined behaviour and a session that destroyed its stack end the run.
CHECK_DEADLOCK FALSE
