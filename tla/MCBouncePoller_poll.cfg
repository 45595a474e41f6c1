\* POP3 mailboxes that delete or keep their mail, and an operator's retry.
SPECIFICATION FairSpec
CONSTANTS
  None = None
  AnyKey = AnyKey
  r1 = r1  r2 = r2  t1 = t1  t2 = t2  x = x  y = y
  System = System
  Replicas <- TwoReplicas
  Tenants <- TwoTenants
  Deliveries <- OnlyX
  TenantOf <- OwnerOfX
  SharedTransport <- OnlyX
  ProbeLane = {}
  Suppressing <- TwoTenants
  Letters <- LettersOfX
  Kinds <- Pop3
  LastMail = 2
  FetchBatch = 2
  MaxRetries = 1
  MaxFaults = 1
INVARIANTS TypeOK EvidenceFirst FollowedThrough AckedIsHandled
PROPERTY EventuallyAcked
