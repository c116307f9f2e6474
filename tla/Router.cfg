CONSTANTS
  t1 = t1
  t2 = t2
  Threads <- TwoThreads
  Main = Main
  Nobody = Nobody
  Chars = {"a", "b", "c"}
  Names = {"status", "static1", "proxy", "other"}
  Uris <- SomeUris
  Configs <- SomeConfigs
  MaxRequests = 3
SPECIFICATION FairSpec
CHECK_DEADLOCK FALSE
INVARIANTS
  TypeOK
  RightHandler
  PrefixTableMirrorsRoutes
  HandlerHasConfig
  RecordedOnce
  StatusPageSound
  NoLockCycle
PROPERTIES
  EveryRequestReturns
