CONSTANTS
  Columns <- MCColumns
  Numeric <- MCNumeric
  MaxRows = 2
  MaxId = 2
  PlatformRows <- MCPlatforms
  RepostRows <- MCReposts
  FilterRows <- MCFilters
  AffiliateRows <- MCAffiliates
  UserRows <- MCUsers
  NO_ORIGIN <- MCNoOrigin
  DefaultUser <- MCDefaultUser
  Reported <- MCReported
  Threads = {1, 2}
  MaxReports = 2
  MaxEnds = 1
  TaskInputs <- MCTaskInputs
  MaskNames <- MCMaskNames
  TriggerRows <- MCTriggerRows
  Apps <- MCApps
  TriggerArgs <- MCTriggerArgs
  Writers = {1, 2}
  Ranges <- MCRanges
  Day = 10
  Today = 40
  Interval <- MCInterval
  MaxTasks = 2
SPECIFICATION Spec
INVARIANTS AnswersTheFilter SavedInFull FetchedIsOwn 
PROPERTY StoresTheValues
CHECK_DEADLOCK FALSE
