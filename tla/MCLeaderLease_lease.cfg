\* Three replicas with skewed clocks and three faults, fair timers.
SPECIFICATION FairLeaseSpec
CONSTANTS
  r1 = r1  r2 = r2  r3 = r3
  NoOwner = NoOwner
  Replicas <- ThreeReplicas
  TTL = 3
  RenewEvery = 1
  MaxSkew = 1
  MaxFaults = 3
INVARIANTS OverlapNeedsFault
PROPERTIES LeaseNotStolen LeaderComesBack
