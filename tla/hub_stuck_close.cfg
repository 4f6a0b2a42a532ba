SPECIFICATION FairSpec
CONSTANTS
  s1 = s1  s2 = s2 
  alice = alice  bob = bob
  east = east
  Nil = Nil
  Test = Test
  SourceIds = {alice}
  Sessions = {s1, s2}
  Ids = {alice}
  Servers = {east}
  IdOf <- OneId
  ServerOf <- OneServer
  MaxGrants = 1
PROPERTY DisconnectedGoesOffline
CHECK_DEADLOCK FALSE
