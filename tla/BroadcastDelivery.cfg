SPECIFICATION FairSpec
CONSTANTS
  i1 = i1
  i2 = i2
  t1 = t1
  t2 = t2
  o1 = o1
  o2 = o2
  Instance = {i1}
  Target = {t1, t2}
  Operation = {o1}
  OpOf <- Together
  NoInstance = NoInstance
  NoTarget = NoTarget
  MaxAttempts = 1
  Interval = 1
  MaxFlood = 1
  MaxToken = 4
INVARIANTS StatusTellsTruth StatusSummarises SendsArePaced
PROPERTIES SendingIsResolved
CHECK_DEADLOCK FALSE
