SPECIFICATION Spec
CONSTANTS
  Jobs = {j1}
  Agents = {a1}
  Deliveries = {d1, d2}
  MaxEntries = 2
  MaxTime = 2
  None = None
INVARIANT ExecutedOnce
CHECK_DEADLOCK FALSE
