CONSTANTS
  c1 = c1
  c2 = c2
  Callers <- MCCallers
  Programs <- MCPrograms
  MaxOther = 1
SPECIFICATION Spec
INVARIANTS
  OneOutstanding
  AnswerIsMine

  
CHECK_DEADLOCK FALSE
