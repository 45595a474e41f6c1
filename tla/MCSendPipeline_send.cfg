\* One campaign delivery, two replicas, two jobs, one fault; fair loops.
SPECIFICATION FairSpec
CONSTANTS
  d1 = d1  w1 = w1  w2 = w2  t1 = t1  t2 = t2
  NoOwner = NoOwner  NoJob = NoJob
  Deliveries <- OneRow
  Bulk <- OneRow
  Workers <- TwoReplicas
  Tickets <- TwoTickets
  Concurrency = 2
  LeaseFor = 1
  MaxAttempts = 2
  Backoff <- Schedule
  RateLimitCap = 0
  AuthRetryAfter = 1
  JitterPercent = 0
  InternalRetryAfter = 1
  RetryFilters <- Filters
  MaxFaults = 1
PROPERTIES EventuallySettled SettledStaysSettled
INVARIANTS SendLedger AttemptBudget EventsDescribeTransitions
