CONSTANTS
  t1 = t1
  t2 = t2
  t3 = t3
  job = job
  badJob = badJob
  NoThread = NoThread
  NoJob = NoJob
  Threads <- MCThreads
  Jobs <- MCJobs
  Escaping <- MCEscaping
SPECIFICATION Spec
INVARIANTS
  NoStrandedWork
  JobConservation
PROPERTIES
  ImplementsPromise
CHECK_DEADLOCK FALSE
