CONSTANTS
  w1 = w1
  w2 = w2
  first = first
  second = second
  third = third
  Owner = Owner
  NoTask = NoTask
  Workers <- MCWorkers
  Tasks <- MCTasks
  RunBy <- MCRunBy
  WaitsFor <- MCWaitsFor
  Unstartable <- MCUnstartable
SPECIFICATION Spec
INVARIANTS
  Supervised
  AllDoneAtExit
PROPERTIES
  ExitEnds
CHECK_DEADLOCK FALSE
