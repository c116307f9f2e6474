SPECIFICATION Spec
CONSTANTS
  Files <- MCFiles
  Numeral <- MCNumeral
  NoFile = NoFile
  Unset = Unset
  MAX_PORT = 90
  INT_MAX = 100
  MaxChars = 4
  MaxBraces = 8
  MaxWords = 4
INVARIANTS
  StackFollowsBraces
  AcceptsTheGrammar
  TextRoundTrips
  PortIsFirstValid
  PoolNotEmpty
PROPERTIES
  StartsOrExits
CHECK_DEADLOCK FALSE
