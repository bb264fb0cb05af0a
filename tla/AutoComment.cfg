SPECIFICATION FairSpec
CONSTANTS
  i1 = i1
  i2 = i2
  c1 = c1
  c2 = c2
  Instance = {i1, i2}
  Candidate = {c1}
  NoInstance = NoInstance
  NoCandidate = NoCandidate
  MaxToken = 2
INVARIANTS CommentTellsTruth AskedOnce WithdrawnStaysQuiet
PROPERTIES ContractSpec ClaimIsResolved
CHECK_DEADLOCK FALSE
