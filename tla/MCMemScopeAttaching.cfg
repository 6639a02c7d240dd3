CONSTANTS
  Threads <- MCAttachThreads
  ProcOf <- MCProcOf
  Cpus = {1}
  Addrs = {1, 2}
  Sizes = {1}
  Fns = {"malloc", "free"}
  Prior = {}
  AttachedFirst = {}
  PendingCap = 3
  ActiveCap = 2
  CompletedCap = 2
  RingCap = 8
  MaxCalls <- MCAttachCalls
  TargetPid = 1
VIEW AttachView
SPECIFICATION Spec
\* The traced threads exit once they have made their calls.
CHECK_DEADLOCK FALSE
INVARIANTS
  NoLeakHidden
  NothingMissed
