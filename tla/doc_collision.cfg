SPECIFICATION Spec
CONSTANTS
  p1 = p1
  p2 = p2
  p3 = p3
  a = a
  b = b
  Process = {p1, p2, p3}
  Content = {a, b}
  ContentOf <- ContentOfThree
  StorageModes = {"s3"}
  Foreign = Foreign
  Torn = Torn
  None = None
  MaxRuns = 2
  MaxFaults = 0
SYMMETRY TwinSymmetry
INVARIANT CollisionIsClosed
CHECK_DEADLOCK FALSE
