SPECIFICATION FairSpec
CONSTANTS
  Account = {a1, a2}
  Channel = {c1, c2}
  Target = {t1}
  Request = {q1}
  Run = {n1}
  None = None
  MaxLimit = 1
  MaxChanges = 2
  MaxUpsets = 1
\* Each of these, TypeOK and DueIsPrepared aside, is violated: one at a time.
INVARIANT TypeOK
PROPERTY InterruptedIsResumed
\* PROPERTY ActiveIsPrepared
\* PROPERTY JoinIsWanted
\* PROPERTY DueIsPrepared
CHECK_DEADLOCK FALSE
