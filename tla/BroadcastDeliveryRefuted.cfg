SPECIFICATION Spec
CONSTANTS
  i1 = i1
  i2 = i2
  t1 = t1
  t2 = t2
  o1 = o1
  o2 = o2
  Instance = {i1, i2}
  Target = {t1, t2}
  Operation = {o1}
  OpOf <- Together
  NoInstance = NoInstance
  NoTarget = NoTarget
  MaxAttempts = 2
  Interval = 1
  MaxFlood = 1
  MaxToken = 2
SYMMETRY Symmetry
\* Each of these is violated: one at a time.
PROPERTY OperationIsFinal
\* INVARIANT NoTargetStranded
\* With Operation = {o1, o2} and OpOf <- Apart, without SYMMETRY:
\* PROPERTY IntervalKept
\* With FairSpec, Target = {t1}, OpOf <- Alone and MaxToken = 3, without SYMMETRY:
\* PROPERTY CancelSettles
CHECK_DEADLOCK FALSE
