SPECIFICATION Spec
CONSTANTS
  t1 = t1
  t2 = t2
  NoTask = NoTask
  Tasks = {t1}
  Clients = {c1}
  Runnable = {t1}
  Trigger <- NoTriggers
  Times = {1}
  Codes = {1}
  FileCounts = {3}
  Hour = 1
  Day = 2
  MaxTime = 2
  MaxEdits = 0
  MaxCrashes = 0
INVARIANTS ReRunsOnceMore
