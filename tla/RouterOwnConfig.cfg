CONSTANTS
  t1 = t1
  t2 = t2
  Threads <- TwoThreads
  Main = Main
  Nobody = Nobody
  Chars = {"a", "b", "c"}
  Names = {"status", "static1", "proxy", "other"}
  Uris <- TwoUris
  Configs <- TwoBlocks
  MaxRequests = 1
SPECIFICATION Spec
CHECK_DEADLOCK FALSE
INVARIANT OwnConfig
