SPECIFICATION Spec
CONSTANTS
  Api = {p1, p2}
  EngineRun = {r1, r2}
  Key = {k1, k2}
  FirstKey = k1
  None = None
  Type = {"USERBOT", "JASEB_WORKER", "MONITOR"}
  Careful = FALSE
  MaxLogins = 2
  MaxUpsets = 1
\* Each of these, TypeOK aside, is violated: one at a time.
INVARIANT TypeOK
PROPERTY FreshLoginSurvives
\* INVARIANT StoredKeyIsKept
\* INVARIANT LoginOpens
CHECK_DEADLOCK FALSE
