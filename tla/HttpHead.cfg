CONSTANTS
  Requests <- MCRequests
  MaxHeaders = 3
CHECK_DEADLOCK FALSE
SPECIFICATION Spec
INVARIANTS HeadTypeOK ServedAsMeant PieceMeant
