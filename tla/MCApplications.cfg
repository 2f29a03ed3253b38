SPECIFICATION FairSpec
CONSTANTS
  kiq = kiq
  app = app
  m1 = m1
  m2 = m2
  m3 = m3
  c1 = c1
  c2 = c2
  None = None
  Names = {kiq, app}
  Required = {kiq}
  Masks = {m1, m2, m3}
  Installed <- SomeInstalled
  Requests <- SomeRequests
  Tasks = {t1}
  Clients = {c1, c2}
  MaxEdits = 1
  MaxCrashes = 1
PROPERTIES  Recovers
CHECK_DEADLOCK FALSE
