CONSTANTS
  MMAP_LIST_SIZE = 4
  MMAP_LIST_USE_MAX = 2
  Files <- MCFiles
  Requests = {r1, r2, r3, r4}
  NoEntry = NoEntry
SPECIFICATION Spec
INVARIANTS TypeOK CountsHolders EntriesCounted RightFile ProbeStops
PROPERTY ImplementsStore
