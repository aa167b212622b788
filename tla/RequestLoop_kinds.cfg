CONSTANTS
  Slots = {s1, s2}
  NoSlot = NoSlot
  Fds = {1, 2, 3}
  max_connections = 1
  RESERVED = 0
  ka_max = 1
  ka_timeout = 1
  REQUEST_TIMEOUT = 0
  STREAM_TIMEOUT_SEC = 0
  Kinds = {"big", "cgi", "post"}
  Signals = {}
SPECIFICATION Spec
SYMMETRY SlotSymmetry
INVARIANTS TypeOK FdOwnership ConnectionCount DeadNotBlocked NoLostWakeup
PROPERTIES RepliesComplete KeepaliveSpent
