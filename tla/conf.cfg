SPECIFICATION Spec
CONSTANTS
  Number <- MCNumber
  Duration <- MCDuration
  Lower <- MCLower
  KeyPath <- MCKeyPath
  Env <- MCEnv
  Json <- MCJson
  Calls <- MCCalls
  Loads <- MCLoads
  MaxCalls = 2
  MaxWrites = 1
INVARIANTS TypeOK CallsIndependent ResultFollowsInput ValuesAllowed SkippedStructsLoad ConflictsFound
PROPERTIES OnlyMerged
CHECK_DEADLOCK FALSE
