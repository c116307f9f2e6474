CONSTANTS
  t1 = t1
  t2 = t2
  i1 = i1
  i2 = i2
  c1 = c1
  c2 = c2
  None = None
  Threads <- TwoThreads
  Ids <- OneId
  Contents <- TwoContents
  MaxRequests = 3
  MaxCrashes = 0
SPECIFICATION Spec
CHECK_DEADLOCK FALSE
INVARIANT NotFoundMeansAbsent
