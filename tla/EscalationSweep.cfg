SPECIFICATION FairSpec
CONSTANTS
  Incidents = {1, 2}
  Runs = {p1}
  Threshold <- SingleTier
  LEASE = 1
  BATCH_SIZE = 1
  SeverityInputs = {"HIGH", "CRITICAL"}
  MaxTime = 3
  MaxCycle = 1
  MaxFaults = 1
PROPERTIES
  SweepComplete
  OverdueIsEscalated
CHECK_DEADLOCK FALSE
