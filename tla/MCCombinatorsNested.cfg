CONSTANTS
  b = b
  t1 = t1
  t2 = t2
  x = x
  y = y
  z = z
  o1 = o1
  o2 = o2
  Done = Done
  Never = Never
  Null = Null
  True = True
  False = False
  Builder = b
  Future = x
  Triggers <- MCTriggers
  Inputs <- MCInputs
  Outputs <- MCOutputs
  Expressions <- NestedExpressions
SPECIFICATION Spec
INVARIANT MeansWhatItSays
CHECK_DEADLOCK FALSE
