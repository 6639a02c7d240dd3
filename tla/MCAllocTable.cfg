CONSTANTS
  a1 = a1
  a2 = a2
  a3 = a3
  Addrs <- MCAddrs
  Pids <- MCPids
  Buckets <- MCBuckets
  Hash <- MCHash
  TargetPid = 1
  InitialCap = 1
  Times = {1, 2}
  MaxEvents = 4
SPECIFICATION Spec
INVARIANTS
  TypeOK
  CapacityBacked
  ChainsExact
  NothingSkipped
  FreesPaired
PROPERTIES
  ImplementsLedger
  LookupEnds
