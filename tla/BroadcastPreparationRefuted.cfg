SPECIFICATION UnboundedSpec
CONSTANTS
  i1 = i1
  i2 = i2
  t1 = t1
  t2 = t2
  Instance = {i1, i2}
  Target = {t1, t2}
  NoInstance = NoInstance
  NoTarget = NoTarget
  MaxChecks = 2
  MaxToken = 2
  MaxUpsets = 0
  Unbounded = Unbounded
\* Each of these is violated: one at a time.
INVARIANT EndsWithItsTargets
\* PROPERTY AsksOnce
\* PROPERTY CancelledOnlyWhenWithdrawn
CHECK_DEADLOCK FALSE
