CONSTANTS
  Requests = {r1, r2}
  Ids = {i1, i2}
  Prompt = TRUE
  Signals = {"USR1", "USR2"}
  NULL = NULL
SPECIFICATION FairSpec
INVARIANT OneOwner
PROPERTIES BothGoOn ReturnedIsFreed
