SPECIFICATION FairSpec
CONSTANTS
  s1 = s1  s2 = s2 
  alice = alice  bob = bob
  east = east
  Nil = Nil
  Test = Test
  SourceIds = {alice}
  Sessions = {s1, s2}
  Ids = {alice, bob}
  Servers = {east}
  IdOf <- TwoIds
  ServerOf <- OneServer
  MaxGrants = 2
INVARIANT OnlineRoute
PROPERTIES DisconnectedGoesOffline UnservedRouteLapses
CHECK_DEADLOCK FALSE
