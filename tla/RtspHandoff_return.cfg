CONSTANTS
  Requests = {r1, r2}
  Ids = {i1}
  Prompt = TRUE
  Signals = {}
  NULL = NULL
SPECIFICATION FairSpec
PROPERTY ReturnedWillClose
