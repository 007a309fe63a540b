SPECIFICATION FairSpec
CONSTANTS
  Threads <- MCThreads
  PoolSize = 2
  MaxCalls = 1
  MaxDeaths = 2
INVARIANTS TypeOK NoSharing SizeConstant NoLostWakeup
PROPERTIES AllServed ImplementsLeasePool
