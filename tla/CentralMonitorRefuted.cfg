SPECIFICATION Spec
CONSTANTS
  Session = {s1}
  NoSession = NoSession
  Division = {d1}
  MaxPost = 2
  MaxUpsets = 2
  Budget = 6
\* Each of these is violated: one at a time.
INVARIANT NothingPassedOver
\* INVARIANT ProcessedIsAnswered
\* INVARIANT PendingIsAttended
\* PROPERTY NoReplay
\* These hold.
\* PROPERTY OnlyWanted
\* PROPERTY CheckpointAdvances
CHECK_DEADLOCK FALSE
