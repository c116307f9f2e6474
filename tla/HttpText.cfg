SPECIFICATION Spec
CONSTANTS
  Messages <- MCMessages
  Files <- MCFiles
  Defaults <- MCDefaults
  Behind <- MCBehind
  MaxPath = 4
  MaxBody = 2
  MaxCaption = 2
INVARIANTS
  RequestSurvives
  CodingInverts
  FormSurvives
  StaysInDirectory
  ResponseSurvives
CHECK_DEADLOCK FALSE
