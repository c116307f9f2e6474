CONSTANTS
  t1 = t1
  t2 = t2
  i1 = i1
  i2 = i2
  c1 = c1
  c2 = c2
  None = None
  Threads <- TwoThreads
  Ids <- TwoIds
  Contents <- TwoContents
  MaxRequests = 4
  MaxCrashes = 1
SPECIFICATION Spec
CHECK_DEADLOCK FALSE
SYMMETRY Symmetry
INVARIANTS
  TypeOK
  ReplyTellsEffect
  ListOfOneMoment
  GoneStaysGone
  CounterBounded
PROPERTIES
  ImplementsService
