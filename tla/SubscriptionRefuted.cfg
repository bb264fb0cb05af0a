SPECIFICATION FairSpec
CONSTANTS
  o1 = o1
  o2 = o2
  r1 = r1
  r2 = r2
  Order = {o1, o2}
  Days <- DayAndTwo
  Request = {r1, r2}
  MaxNow = 1
  MaxEnt = 3
  MaxExpiry = 1
\* Each of these, PaidIsServed aside, is violated: one at a time.
PROPERTY NoDayIsLost
\* INVARIANT WorkerIsCovered
\* PROPERTY PaidIsServed  (with Order = {o1}, Days <- OneDay, MaxEnt = 2)
CHECK_DEADLOCK FALSE
