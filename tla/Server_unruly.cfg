CONSTANTS
  Workers <- MCTwoWorkers
  Clients <- MCTwoClients
  Script <- MCUnrulyScript
  Splitters <- MCSplitter
  Pipeliners <- MCPipeliner
  Stallers <- MCPipeliner
  InitialSize = 4
  NoClient = NoClient
CHECK_DEADLOCK FALSE
SPECIFICATION Spec
INVARIANTS TypeOK OwnedOnce ReadSound AnswersAdvance
