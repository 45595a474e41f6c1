SPECIFICATION FairSpec
CONSTANTS
  None = None
  Collector = Collector
  Ticker = Ticker
  Manual = Manual
  hook = hook
  imap = imap
  h1 = h1
  Handlers <- OneHandler
  Webhooks <- OneHook
  Imaps <- OneImap
  Observations <- OnlyGood
  Setups <- NoneOneOrBoth
  FailuresForRed = 2
  Attempts = 2
  MaxRuns = 2
  MaxFaults = 1
INVARIANTS
  TypeOK
  AcceptedIsRecorded
  RedNeedsMisses
  SummaryIsCurrent
PROPERTIES
  EventuallyFinished
CHECK_DEADLOCK FALSE
