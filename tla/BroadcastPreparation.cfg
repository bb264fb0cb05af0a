SPECIFICATION BoundedSpec
CONSTANTS
  i1 = i1
  i2 = i2
  t1 = t1
  t2 = t2
  Instance = {i1}
  Target = {t1, t2}
  NoInstance = NoInstance
  NoTarget = NoTarget
  MaxChecks = 2
  MaxToken = 4
  MaxUpsets = 1
  Unbounded = Unbounded
INVARIANTS OnlyMembersAreReady OverMeansOver
PROPERTIES WorkIsTakenUp WaitIsBounded
CHECK_DEADLOCK FALSE
