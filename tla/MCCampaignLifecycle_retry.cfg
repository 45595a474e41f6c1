\* RetryCampaign against the finalizer.
SPECIFICATION Spec
CONSTANTS
  r1 = r1  c1 = c1  c2 = c2  s1 = s1  f1 = f1
  NoCall = NoCall
  Recipients <- OneRecipient
  Callers <- OneCaller
  Schedulers <- TheScheduler
  Finalizers <- TheFinalizer
  Operations <- WithRetry
  Overrun <- NoRecipient
  RetryStatuses <- FailedRows
  RetryChunk = 1
  MaxRetryChunks = 2
  MaxCalls = 3
  MaxPublished = 1
INVARIANTS CompletedIsFinished
CHECK_DEADLOCK FALSE
