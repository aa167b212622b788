CONSTANTS
  Requests = {r1, r2}
  Ids = {i1}
  Prompt = FALSE
  Signals = {"USR1", "USR2"}
  NULL = NULL
SPECIFICATION Spec
SYMMETRY RequestSymmetry
INVARIANTS TypeOK SessionUsable
