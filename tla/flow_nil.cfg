SPECIFICATION Spec
CONSTANTS
  s1 = s1  s2 = s2  s3 = s3
  u1 = u1  u12 = u12
  m1 = m1  m2 = m2
  east = east  west = west
  Nil = Nil  Absent = Absent  Nowhere = Nowhere
  Servers = {east, west}
  Sessions = {s1, s2, s3}
  Ids = {u1, u12}
  Msgs = {m1, m2}
  IdOf <- Users
  ServerOf <- Homes
  SourceOf <- Sources
  TargetsOf <- Targets
  KindsOf <- Kinds
  SourceIdsOf <- Claims
  LongerIds <- Longer
  Unsteady = {s1}
  BufSize = 1
  ChannelMax = 1
  MaxFaults = 1
PROPERTY OfflineTargetHarmless
CHECK_DEADLOCK FALSE
