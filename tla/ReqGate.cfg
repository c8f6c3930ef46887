CONSTANTS
  Workers <- MCWorkers
  Clients <- MCClients
  Script <- MCScript
  Splitters <- MCUnruly
  Pipeliners <- MCNobody
  Stallers <- MCUnruly
  InitialSize = 4
  NoClient = NoClient
  ReplyForms <- MCForms
  MaxRequests = 3
  NoMsg = NoMsg
  Pageless = Pageless
CHECK_DEADLOCK FALSE
SPECIFICATION GateSpec
INVARIANTS AnswersRight RightPage
PROPERTIES KeepAliveHonoured SentIsAnswered LeaversReleased ServerFairSpec
