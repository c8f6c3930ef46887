CONSTANTS
  Workers <- MCOneWorker
  Endpoints <- MCOneWorker
  Address <- MCOwnAddress
  Foreign <- MCNobody
  ReplyForms <- MCAllForms
  MaxRequests = 1
  MaxLaunches = 1
  NoMsg = NoMsg
SPECIFICATION FairSpec
PROPERTIES ReplyRendered
CHECK_DEADLOCK FALSE
