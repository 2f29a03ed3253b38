SPECIFICATION FairSpec
CONSTANTS
  t1 = t1
  t2 = t2
  NoTask = NoTask
  Tasks = {t1, t2}
  Clients = {c1}
  Runnable = {t1}
  Trigger <- ChainTrigger
  Times = {1}
  Codes = {0, 1}
  FileCounts = {0, 2}
  Hour = 1
  Day = 2
  MaxTime = 2
  MaxEdits = 1
  MaxCrashes = 1
 
PROPERTIES  DueIsHandled
