SPECIFICATION Spec
CONSTANTS
  o1 = o1
  o2 = o2
  r1 = r1
  r2 = r2
  Order = {o1, o2}
  Days <- DayAndTwo
  Request = {r1, r2}
  MaxNow = 1
  MaxEnt = 3
  MaxExpiry = 1
SYMMETRY Symmetry
INVARIANTS PaidOnce
PROPERTIES DaysAreKept CoveredKeepsWorker
CHECK_DEADLOCK FALSE
