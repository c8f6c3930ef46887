CONSTANTS
  Requests <- MCCrowded
  MaxHeaders = 3
CHECK_DEADLOCK FALSE
SPECIFICATION Spec
INVARIANTS PostBehindHead
