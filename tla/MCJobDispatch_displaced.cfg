SPECIFICATION Spec
CONSTANTS
  Jobs = {j1}
  Gateways = {g1}
  Sessions = {s1, s2}
  MaxFaults = 0
  None = None
SYMMETRY Symmetry
PROPERTY SocketCloseDeletesEntry
CHECK_DEADLOCK FALSE
