CONSTANTS
  Slots = {s1, s2}
  NoSlot = NoSlot
  Fds = {1, 2}
  max_connections = 2
  RESERVED = 0
  ka_max = 0
  ka_timeout = 1
  REQUEST_TIMEOUT = 0
  STREAM_TIMEOUT_SEC = 0
  Kinds = {"api", "file", "stream"}
  Signals = {"TERM", "HUP"}
SPECIFICATION Spec
SYMMETRY SlotSymmetry
CHECK_DEADLOCK FALSE
INVARIANTS QueueOwnership PoolAccounting ConnectionCount FdOwnership NoLostWakeup
