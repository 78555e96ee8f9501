CONSTANTS
  parent = parent
  child = child
  grandchild = grandchild
  Main = Main
  Nobody = Nobody
  Timeout = Timeout
  Threads <- MCThreads
  ParentOf <- MCParentOf
  Programs <- MCPrograms
SPECIFICATION Spec
INVARIANTS
  FailureHeard
  StopsLastUnlessFailures
PROPERTIES
  ShutdownEnds
CHECK_DEADLOCK FALSE
