CONSTANTS
  Threads <- MCThreads
  ProcOf <- MCProcOf
  Cpus = {1}
  Addrs <- MCAddrs
  Sizes = {1, 2}
  Fns = {"malloc", "realloc", "free", "mmap"}
  Prior = {}
  AttachedFirst <- MCFirstFive
  PendingCap = 1
  ActiveCap = 1
  CompletedCap = 1
  RingCap = 1
  MaxCalls <- MCFewCalls
VIEW EventView
SPECIFICATION ProbesSpec
\* The traced threads exit once they have made their calls.
CHECK_DEADLOCK FALSE
INVARIANTS
  ProbesTypeOK
  EventExact
