SPECIFICATION Spec
CONSTANTS
  p1 = p1
  p2 = p2
  p3 = p3
  a = a
  b = b
  Process = {p1, p2, p3}
  Content = {a, b}
  ContentOf <- ContentOfThree
  StorageModes = {"local", "s3"}
  Foreign = Foreign
  Torn = Torn
  None = None
  MaxRuns = 2
  MaxFaults = 1
SYMMETRY TwinSymmetry
INVARIANTS TypeOK LocalReportMatchesRequest ReportedIsDurable OneIdentity ReportedVersionHolds
PROPERTY ImplementsStore
CHECK_DEADLOCK FALSE
