SPECIFICATION SetupSpec
CONSTANTS
  r1 = r1
  r2 = r2
  u1 = u1
  u2 = u2
  a1 = a1
  a2 = a2
  b1 = b1
  b2 = b2
  c1 = c1
  c2 = c2
  t1 = t1
  t2 = t2
  q1 = q1
  q2 = q2
  n1 = n1
  n2 = n2
  Request = {r1,r2}
  User = {u1,u2}
  Nobody = Nobody
  Account = {a1}
  Type = {"USERBOT", "JASEB_WORKER", "MONITOR"}
  MaxFlows = 2
  MaxVersion = 6
  Userbot = {b1, b2}
  Channel = {c1, c2}
  Target = {t1, t2}
  Asking = {q1, q2}
  Run = {n1, n2}
  MaxLimit = 1
  MaxChanges = 4
  Prepared = {t1}
  Editing = {q1}
  MaxEdits = 2
  MaxUpsets = 1
INVARIANTS StateUsedOnce SessionIsBound DialogCanGoOn ReadyIsCurrent
PROPERTY QuotaHolds
SYMMETRY SetupSymmetry
CHECK_DEADLOCK FALSE
