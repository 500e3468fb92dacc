SPECIFICATION Spec
CONSTANTS
  Users = {u1, u2}
  Owners = {u1}
  Requests = {r1, r2, r3}
  Calls = {c1, c2, c3, c4}
  ApprovalTtl = 2
  MaxPending = 1
  MaxTime = 3
  MaxDecisions = 1
SYMMETRY Symmetry
INVARIANTS TypeOK RunsOnOwnApproval SpentOnce
PROPERTIES DenialStands FreshConsent InsertMakesRoom
CHECK_DEADLOCK FALSE
