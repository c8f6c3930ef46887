CONSTANTS
  Workers <- MCOneWorker
  Endpoints <- MCOneWorker
  Address <- MCOwnAddress
  Foreign <- MCNobody
  ReplyForms <- MCAllForms
  MaxRequests = 2
  MaxLaunches = 2
  NoMsg = NoMsg
CHECK_DEADLOCK FALSE
SPECIFICATION Spec
INVARIANTS FreshNumber BuffersReleased
PROPERTIES ServiceSpec
