CONSTANTS
  MaxLines = 2
  Windows = TRUE
  Blank = {1}
  MaxStdout = 1
SPECIFICATION Spec
INVARIANTS
  TypeOK
  ShellGone
  LinesExact
PROPERTIES
  WorkerEnds
CHECK_DEADLOCK FALSE
