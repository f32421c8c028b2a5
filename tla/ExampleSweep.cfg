SPECIFICATION Spec
CONSTANTS
  Samples = 3
  Object = {s1, s2}
  Null = null
  MaxFaults = 2
  MaxRuns = 2
  Table <- MCTable
  Plugins = {TRUE, FALSE}
SYMMETRY MCSymmetry
INVARIANTS
  TypeOK
  FileIsTrustworthy
  FaultStaysInSample
  NoStackLost
  CallsUseLiveStack
  StopsOnlyOnFault
  ResultsDelivered
  InterpolationEncloses
PROPERTIES
  ImplementsReport
