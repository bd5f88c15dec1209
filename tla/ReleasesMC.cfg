SPECIFICATION Spec
CONSTANTS
  c1 = c1
  a = a
  b = b
  c2 = c2
  Versions = {"v1", "v2"}
  Stamped = {"v2"}
  Units <- TwoAccounts
  Products <- TwoProducts
  Commands = {c1, c2}
  MaxCommands = 2
ACTION_CONSTRAINT Overlap
VIEW Essence
SYMMETRY CommandSymmetry
PROPERTY FailureRestores
PROPERTY SuccessAgrees
CHECK_DEADLOCK FALSE
