\* Two API calls at a time against the fair loops of the leader.
SPECIFICATION FairSpec
CONSTANTS
  r1 = r1  c1 = c1  c2 = c2  s1 = s1  f1 = f1
  NoCall = NoCall
  Recipients <- OneRecipient
  Callers <- TwoCallers
  Schedulers <- TheScheduler
  Finalizers <- TheFinalizer
  Operations <- AllOperations
  Overrun <- OneRecipient
  RetryStatuses <- AnyRows
  RetryChunk = 1
  MaxRetryChunks = 2
  MaxCalls = 3
  MaxPublished = 1
PROPERTIES LoopsFinish FollowsLifecycle
INVARIANTS CompletedIsAccounted
CHECK_DEADLOCK FALSE
