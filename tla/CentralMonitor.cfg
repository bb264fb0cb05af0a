SPECIFICATION FairMonitorSpec
CONSTANTS
  s1 = s1
  s2 = s2
  d1 = d1
  d2 = d2
  Session = {s1}
  NoSession = NoSession
  Division = {d1}
  MaxPost = 2
  Budget = 4
  MaxUpsets = 2
PROPERTIES
  OnlyWanted PendingIsProcessed
CHECK_DEADLOCK FALSE
