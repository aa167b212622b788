CONSTANTS
  Nodes = {c1, c2}
  NULL = NULL
  Requests = {r1, r2}
  Names = {"admin"}
  Passwds = {""}
  ACOUNT_NUM = 1
  PROTECTED = 1
  Addrs = {a1, a2}
  MAX_CONNECTION = 2
  MAX_DRIFT = 2
  MAX_COUNT = 1
SPECIFICATION FairSpec
PROPERTY SweepTerminates
