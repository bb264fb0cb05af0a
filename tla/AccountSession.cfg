SPECIFICATION FairSessionSpec
CONSTANTS
  p1 = p1
  p2 = p2
  r1 = r1
  r2 = r2
  k1 = k1
  k2 = k2
  Api = {p1}
  EngineRun = {r1, r2}
  Key = {k1, k2}
  FirstKey = k1
  None = None
  Type = {"USERBOT", "JASEB_WORKER", "MONITOR"}
  Careful = TRUE
  MaxLogins = 1
  MaxUpsets = 1
PROPERTIES KeysOnlyDelay StoredIsUsed EndIsNoticed
