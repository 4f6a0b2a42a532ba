SPECIFICATION FairSpec
CONSTANTS
  Daily = FALSE
  MaxSize = 1
  KeepDays = 0
  MaxBackups = 1
  Compress = FALSE
  BufSize = 1
  MaxLines = 4
  Closes = TRUE
  MaxNow = 2
  MaxFails = 0
  MaxRestarts = 0
INVARIANTS DrainedOnClose BackupsBounded
PROPERTIES NewestKept CloseReturns
CHECK_DEADLOCK FALSE
