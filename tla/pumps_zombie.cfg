SPECIFICATION FairSpec
CONSTANTS
  BufSize = 1
  MaxFrames = 4
  Malformed <- SecondMalformed
  Posts = {m1}
PROPERTY DisconnectCloses
CHECK_DEADLOCK FALSE
