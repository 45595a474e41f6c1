SPECIFICATION Spec
CONSTANTS
  None = None
  AnyKey = AnyKey
  r1 = r1
  r2 = r2
  t1 = t1
  t2 = t2
  x = x
  y = y
  System = System
  Replicas <- TwoReplicas
  Tenants <- TwoTenants
  Deliveries <- TwoDeliveries
  TenantOf <- Owners
  SharedTransport <- TwoDeliveries
  ProbeLane <- OnlyY
  Suppressing <- TwoTenants
  Letters <- SomeLetters
  Kinds <- Imap
  LastMail = 2
  FetchBatch = 2
  MaxRetries = 0
  MaxFaults = 1
INVARIANTS
  FirstDidTheWork
