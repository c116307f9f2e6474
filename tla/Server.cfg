CONSTANTS
  s1 = s1
  s2 = s2
  s3 = s3
  t1 = t1
  t2 = t2
  NoSession = NoSession
  Sessions <- ThreeSessions
  Threads <- TwoThreads
  Requests <- ThreeRequests
  MaxLength = 2
  MaxChunks = 2
  MaxHung = 2
SPECIFICATION Spec
CHECK_DEADLOCK FALSE
SYMMETRY Symmetry
INVARIANTS
  TypeOK
  NoDangling
  NoRace
  NoLeak
  AcceptLoop
  OneReply
PROPERTIES
  AnsweredBeforeFreed
  ImplementsService
