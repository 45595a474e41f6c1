\* Two claimers of one worker ID on two rows.
SPECIFICATION FairSpec
CONSTANTS
  r1 = r1  r2 = r2  c1 = c1  c2 = c2  w1 = w1  t1 = t1  t2 = t2  t3 = t3  t4 = t4
  NoCall = NoCall  NoToken = NoToken  NoOwner = NoOwner
  Rows <- TwoRows
  Claimers <- TwoClaimers
  Workers <- OneWorker
  Tokens <- FourTokens
  LeaseFor = 0
  Limit = 2
  RetryStatuses = {"failed"}
  MaxAttempts = 2
  MaxFaults = 1
PROPERTIES ClaimIsExclusive BusyIsNotSwept EventuallySettled
