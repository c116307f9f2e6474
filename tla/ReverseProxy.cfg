SPECIFICATION Spec
CONSTANTS
  Blocks <- MCBlocks
  Uris <- MCUris
  Replies <- MCReplies
  StatusCode <- MCStatusCode
  MimeType <- MCMimeType
  Garbage = {0, 301}
  None = None
INVARIANTS
  AnswerIsTheReply
  ServedIffEnded
  AsksTheConfiguredHost
PROPERTIES
  HandlerEnds
CHECK_DEADLOCK FALSE
