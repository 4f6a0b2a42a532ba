SPECIFICATION MCSpec
CONSTANTS
  p1 = p1  p2 = p2
  w1 = w1
  Procs = {p1, p2}
  Custom = {w1}
  Kinds = {"stack", "alert", "stat"}
  Rich = {p2}
  Levels = {3}
  ConfLevel = 1
  ConfStat = TRUE
  Files = TRUE
  Threshold = 1
  MaxCalls = 3
  MaxTicks = 2
  MaxFaults = 1
INVARIANTS TypeOK SetUpOnce ChainKept DisabledShutsOut FilesWhole DiscardsAccounted
PROPERTIES DiscardJustified CallsReturn
CHECK_DEADLOCK FALSE
