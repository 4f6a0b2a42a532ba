SPECIFICATION FairSpec
CONSTANTS
  BufSize = 2
  MaxFrames = 4
  Malformed <- SecondMalformed
  Posts = {m1, m2, m3}
INVARIANTS TypeOK ClosedAfterDrain
PROPERTIES InboundPipe OutboundPipe PumpsEnd ParsingSessionCloses
CHECK_DEADLOCK FALSE
