SPECIFICATION Spec
CONSTANTS
  Incidents = {1}
  Runs = {p1, p2}
  Threshold <- QuickTiers
  LEASE = 1
  BATCH_SIZE = 1
  SeverityInputs = {"MEDIUM", "HIGH", "CRITICAL"}
  MaxTime = 2
  MaxCycle = 2
  MaxFaults = 0
INVARIANT
  FeedHasEvent
SYMMETRY Symmetric
CHECK_DEADLOCK FALSE
