SPECIFICATION FairSpec
CONSTANTS
  i1 = i1
  i2 = i2
  t1 = t1
  t2 = t2
  Instance = {i1}
  Target = {t1}
  Threshold = 2
  MaxCampaigns = 1
  MaxOperations = 2
INVARIANTS DisabledStaysQuiet CountedOnce
PROPERTIES NotStranded
CHECK_DEADLOCK FALSE
