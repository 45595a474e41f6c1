\* One replica in full, its peers writing the row as they please.
SPECIFICATION FairHealthSpec
CONSTANTS
  r1 = r1  w1 = w1  p1 = p1
  None = None
  Replicas <- OneReplica
  SendWorkers <- OneWorker
  Probers <- OneProber
  Home <- Homes
  Threshold = 2
  ProbeEvery = 2
  RateThreshold = 2
  RateWindow = 1
  CacheTTL = 2
  MaxUpsets = 1
INVARIANTS ShutStaysShut BurstsAreCooled
PROPERTY EventuallyRouted
