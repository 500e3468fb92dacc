SPECIFICATION FairSpec
CONSTANTS
  Sockets = {s1}
  Gateways = {g1, g2}
  MaxFaults = 2
  MayRevoke = TRUE
  None = None
INVARIANT TypeOK
PROPERTIES RevokedIsTerminal RevokedIsDisconnected DeadRouteGoes HandshakeEnds
CHECK_DEADLOCK FALSE
