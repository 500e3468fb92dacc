SPECIFICATION Spec
CONSTANTS
  Sockets = {s1, s2}
  Gateways = {g1, g2}
  MaxFaults = 1
  MayRevoke = TRUE
  None = None
SYMMETRY Symmetry
PROPERTY ReconnectWins
CHECK_DEADLOCK FALSE
