CONSTANTS
  Byte <- MCByte
  Requests <- MCAllRequests
  Boundary <- MCBoundary
  HeapBytes <- MCHeap
  Folders <- MCFolders
  Preamble <- MCPreamble
  Closing <- MCClosing
  BufLen = 3
  Slack = 1
CHECK_DEADLOCK FALSE
SPECIFICATION RequestSpec
INVARIANTS RequestSurvived
