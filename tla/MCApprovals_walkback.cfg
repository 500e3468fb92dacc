SPECIFICATION Spec
CONSTANTS
  Users = {u1}
  Owners = {u1}
  Requests = {r1}
  Calls = {c1, c2}
  ApprovalTtl = 2
  MaxPending = 1
  MaxTime = 2
  MaxDecisions = 1
PROPERTY DecisionNotWalkedBack
CHECK_DEADLOCK FALSE
