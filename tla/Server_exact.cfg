CONSTANTS
  Workers <- MCOneWorker
  Clients <- MCOneClient
  Script <- MCExactScript
  Splitters <- MCNobody
  Pipeliners <- MCNobody
  Stallers <- MCNobody
  InitialSize = 4
  NoClient = NoClient
CHECK_DEADLOCK FALSE
SPECIFICATION FairSpec
PROPERTIES SentIsAnswered
