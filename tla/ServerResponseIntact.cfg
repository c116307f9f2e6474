CONSTANTS
  s1 = s1
  s2 = s2
  s3 = s3
  t1 = t1
  t2 = t2
  NoSession = NoSession
  Sessions <- TwoSessions
  Threads <- TwoThreads
  Requests <- TwoRequests
  MaxLength = 2
  MaxChunks = 2
  MaxHung = 0
SPECIFICATION Spec
CHECK_DEADLOCK FALSE
INVARIANT ResponseIntact
