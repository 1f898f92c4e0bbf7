SPECIFICATION Spec
CONSTANTS
  r1 = r1
  r2 = r2
  Run = {r1, r2}
  Case <- Cases
  Name = {"modified", "out"}
  Dir = {"d1", "d2"}
  Absent = Absent
  Other = Other
  MaxTokens = 16
INVARIANTS FlatTemplateFilled OutputIsOwn
PROPERTIES LoopsRunOut CommandEnds
CHECK_DEADLOCK FALSE
