\* One event, both dispatchers, a fair sweep.
SPECIFICATION FairSpec
CONSTANTS
  e1 = e1  outbox = outbox  sweep = sweep
  NoJob = NoJob
  Events <- OneEvent
  Dispatchers <- BothLoops
  Sweeps <- TheSweep
  OutboxLease = 2
  OutboxBackoff <- Schedule
  MaxAttempts = 2
  MaxLag = 2
  MaxAge = 3
  MaxFaults = 2
INVARIANTS OwedIsKept DeadLetterIsEarned EmitHasCause
PROPERTIES EventuallySettled
