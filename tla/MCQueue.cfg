CONSTANTS
  p1 = p1
  p2 = p2
  c1 = c1
  c2 = c2
  v1 = v1
  v2 = v2
  PleaseStop = PleaseStop
  NoThread = NoThread
  MaxLen = 1
  Silent = TRUE
  Unique = FALSE
  AllowAddAfterClose = FALSE
  Threads <- AllThreads
  Values <- MCValues
  Programs <- AllPrograms
SPECIFICATION Spec
INVARIANTS
  EachOnceInOrder
  GivesUpOnEmpty
PROPERTIES
  PutsFit
  PopEnds
  AdderServed
CHECK_DEADLOCK FALSE
