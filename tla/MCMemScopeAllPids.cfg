CONSTANTS
  Threads <- MCTwoProcs
  ProcOf <- MCProcOf
  Cpus = {1}
  Addrs = {1, 2}
  Sizes = {1}
  Fns = {"malloc", "free"}
  Prior = {}
  AttachedFirst <- Programs
  PendingCap = 3
  ActiveCap = 2
  CompletedCap = 2
  RingCap = 8
  MaxCalls <- MCMaxCalls
  TargetPid = 0
SPECIFICATION Spec
\* The traced threads exit once they have made their calls.
CHECK_DEADLOCK FALSE
INVARIANTS
  LedgerExact
