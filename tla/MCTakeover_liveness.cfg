SPECIFICATION TakeoverSpec
CONSTANTS
  Sockets = {s1, s2}
  Gateways = {g1, g2}
  MaxFaults = 0
  MayRevoke = FALSE
  None = None
  Older = s1
  Newer = s2
  Here = g1
  There = g2
PROPERTIES RouteOutlivesOthers StaleOwnerLeaves PresenceHeals
CHECK_DEADLOCK FALSE
