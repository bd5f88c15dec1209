SPECIFICATION SessionSpec
CONSTANTS
  c1 = c1
  t1 = t1
  t2 = t2
  s1 = s1
  s2 = s2
  f = f
  Slots = {s1, s2}
  Clients = {c1}
  Tokens = {t1, t2}
  MaxHandles = 2
  MaxChanges = 1
  Targets = {f}
  Kinds = {"bootstrap", "require", "instructions", "resource"}
  Work = {"write", "edit", "exec"}
  Base = "base"
  Outside = "outside"
SYMMETRY Symmetry
INVARIANT SkillsMatchTheirRevision
INVARIANT SessionsSurvive
INVARIANT AnswerTellsTheFile
INVARIANT CommandsLeaveNothing
PROPERTY NoLostUpdate
CHECK_DEADLOCK FALSE
