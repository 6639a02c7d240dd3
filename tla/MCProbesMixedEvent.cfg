CONSTANTS
  Threads <- MCThreads
  ProcOf <- MCProcOf
  Cpus = {1, 2}
  Addrs <- MCAddrs
  Sizes = {1, 2}
  Fns = {"malloc", "free"}
  Prior = {}
  AttachedFirst <- Programs
  PendingCap = 2
  ActiveCap = 2
  CompletedCap = 2
  RingCap = 2
  MaxCalls <- MCMaxCalls
SPECIFICATION ProbesSpec
\* The traced threads exit once they have made their calls.
CHECK_DEADLOCK FALSE
INVARIANTS
  EventExact
