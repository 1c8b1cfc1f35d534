SPECIFICATION FairSpec
CONSTANTS
  Streams = {s1, s2}
  Devices = {d1}
  Local = local
  Nothing = Nothing
  Revoked = Revoked
  Window = 3
  MaxRev = 4
CHECK_DEADLOCK FALSE
PROPERTY RevokedHearsNothing
PROPERTY RevokedEnds
PROPERTY ImplementsFeed
