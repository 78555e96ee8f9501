CONSTANTS
  x1 = x1
  bad = bad
  Timers <- MCTimers
  Faulty <- MCFaulty
  Delays <- MCDelays
  INTERVAL = 2
  MaxTime = 5
SPECIFICATION TillSpec
INVARIANTS
  Tracked
  NeverLate
PROPERTIES
  AllFire
CHECK_DEADLOCK FALSE
