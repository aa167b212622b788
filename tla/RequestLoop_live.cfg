CONSTANTS
  Slots = {s1}
  NoSlot = NoSlot
  Fds = {1, 2, 3}
  max_connections = 1
  RESERVED = 0
  ka_max = 1
  ka_timeout = 1
  REQUEST_TIMEOUT = 1
  STREAM_TIMEOUT_SEC = 0
  Kinds = {"file", "api", "big", "cgi", "post", "simple_post", "silence"}
  Signals = {}
SPECIFICATION FairSpec
PROPERTY StalledClientClosed
