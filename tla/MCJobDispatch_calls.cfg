SPECIFICATION Spec
CONSTANTS
  Jobs = {j1}
  Gateways = {g1, g2}
  Sessions = {s1, s2}
  MaxFaults = 1
  None = None
SYMMETRY Symmetry
INVARIANTS TypeOK PendingHasWaiter DeliveredOnce SuccessIsReal CancelledIsAbandoned
PROPERTIES StaleCloseSparesJobs
CHECK_DEADLOCK FALSE
