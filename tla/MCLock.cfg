CONSTANTS
  w1 = w1
  w2 = w2
  w3 = w3
  regular = regular
  NoThread = NoThread
  Threads <- MCThreads
  Regulars <- MCRegulars
SPECIFICATION Spec
PROPERTIES
  AnswerTellsSignal
  WaiterServed
