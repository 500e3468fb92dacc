SPECIFICATION FairSpec
CONSTANTS
  Jobs = {j1, j2}
  Agents = {a1, a2}
  Deliveries = {d1, d2}
  MaxEntries = 1
  MaxTime = 2
  None = None
INVARIANTS TypeOK RepeatsOnlyAtExpiry
PROPERTIES ExpiredNeverRuns GuardsReplays EveryDeliveryAnswered
CHECK_DEADLOCK FALSE
