CONSTANTS
  Byte <- MCByte
  Requests <- MCRequests
  Boundary <- MCBoundary
  HeapBytes <- MCHeap
  Folders <- MCFolders
  Preamble <- MCPreamble
  Closing <- MCClosing
  BufLen = 3
  Slack = 1
CHECK_DEADLOCK FALSE
SPECIFICATION RequestSpec
INVARIANTS RequestTypeOK InArea TextKept PathStartsDecoded MappedRight MessageWhole PartsTrue PairsFound PostSurvived
PROPERTIES RequestEnds
