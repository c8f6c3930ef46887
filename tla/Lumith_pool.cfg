CONSTANTS
  Workers <- MCWorkers
  Endpoints <- MCWorkers
  Address <- MCOwnAddress
  Foreign <- MCForeign
  ReplyForms <- MCParsable
  MaxRequests = 3
  MaxLaunches = 1
  NoMsg = NoMsg
CHECK_DEADLOCK FALSE
SPECIFICATION FairSpec
INVARIANTS TypeOK AnswerMatchesRequest
PROPERTIES ReplyRendered ServiceFairSpec
