SPECIFICATION Spec
CONSTANTS
  i1 = i1
  i2 = i2
  t1 = t1
  t2 = t2
  Instance = {i1}
  Target = {t1}
  Threshold = 2
  MaxCampaigns = 1
  MaxOperations = 3
SYMMETRY Symmetry
\* Each of these is violated: one at a time.
INVARIANT FailuresAreReal
\* INVARIANT StopCancels
\* With Threshold = 3:
\* INVARIANT CountsAreRight
\* With Target = {t1, t2} and MaxOperations = 1:
\* INVARIANT RemovalTakesEffect
CHECK_DEADLOCK FALSE
