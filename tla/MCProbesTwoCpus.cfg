CONSTANTS
  Threads <- MCThreads
  ProcOf <- MCProcOf
  Cpus = {1, 2}
  Addrs <- MCAddrs
  Sizes = {1, 2}
  Fns = {"malloc", "calloc", "free"}
  Prior = {1}
  AttachedFirst <- Programs
  PendingCap = 2
  ActiveCap = 2
  CompletedCap = 1
  RingCap = 1
  MaxCalls <- MCMaxCalls
VIEW MapView
SPECIFICATION ProbesSpec
\* The traced threads exit once they have made their calls.
CHECK_DEADLOCK FALSE
INVARIANTS
  NoGhosts
  NothingMissed
