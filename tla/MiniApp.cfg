SPECIFICATION FairSpec
CONSTANTS
  s1 = s1
  s2 = s2
  Slot = {s1, s2}
  MaxOpenings = 2
  MaxCampaigns = 2
  MaxCycles = 1
  MaxEdits = 1
PROPERTIES FreshOpeningEnds AutoStopIsSeen
