CONSTANTS
  TwoTo32 = 4096
  TwoTo64 = 65536
  TwoTo53 = 20
  MaxSignificand = 3
  MaxExponent = 20
  MaxPlain = 4
  MaxBytes = 3
  Now <- TheTime
  NewUUID <- TheUUID
  MaxSize = 3
  MaxLines = 3
  MaxIdBytes = 2
  TimestampLength = 1
  TwoTo8 = 16
  INI_MAX_LINE = 20
  MAX_SECTION = 4
  MAX_NAME = 4
SPECIFICATION Spec
INVARIANTS
  MessagesReadBack PayloadsReadBack ResultsReadBack
  ArgumentsSurvive ConfigReads IdentifiersReadBack
CHECK_DEADLOCK FALSE
