SPECIFICATION Spec
CONSTANTS
  Daily = TRUE
  MaxSize = 0
  KeepDays = 2
  MaxBackups = 0
  Compress = TRUE
  BufSize = 1
  MaxLines = 3
  Closes = FALSE
  MaxNow = 3
  MaxFails = 1
  MaxRestarts = 1
INVARIANTS TypeOK LogInOrder
PROPERTIES RetainedSpec
CHECK_DEADLOCK FALSE
