CONSTANTS
  MaxLines <- MCLines
  MaxInput = 1
SPECIFICATION ProcessSpec
INVARIANTS
  StoppedMeansClosed
  JoinLeavesNone
PROPERTIES
  StopsInTheEnd
CHECK_DEADLOCK FALSE
