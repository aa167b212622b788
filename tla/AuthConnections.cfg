CONSTANTS
  Nodes = {c1, c2}
  NULL = NULL
  Requests = {r1, r2}
  Names = {"admin", "guest"}
  Passwds = {"", "x"}
  ACOUNT_NUM = 2
  PROTECTED = 1
  Addrs = {a1}
  MAX_CONNECTION = 1
  MAX_DRIFT = 0
  MAX_COUNT = 2
SPECIFICATION Spec
SYMMETRY NodeSymmetry
INVARIANTS TypeOK ListsIntact CountsRequests OneSession
PROPERTY AccountStable
