SPECIFICATION ReplySpec
CONSTANTS
  Sextet <- MCSextet
  Replies <- MCReplies
  RequestNum = 12
  TypeRoom = 3
INVARIANTS ReplyTypeOK TreeMeant CutTreeBegins ReplyDelivered ReplySurvived
PROPERTIES ReplyEnds
CHECK_DEADLOCK FALSE
