\* Two chunks that share an address, two handlers, a limit below their union.
SPECIFICATION FairIngestSpec
CONSTANTS
  c1 = c1  c2 = c2  k1 = k1  k2 = k2  a = a  b = b  d = d
  NoCall = NoCall
  BadLine = BadLine
  Callers <- TwoCallers
  Keys <- TwoKeys
  Body <- Bodies
  BatchSize = 2
  MaxRecipients = 2
  MaxFailures = 2
INVARIANTS IngestTypeOK CompletedIsIngested LimitNeedsOverlap
PROPERTIES EventuallyAnswered
