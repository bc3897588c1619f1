SPECIFICATION Spec
CONSTANTS
  Incidents = {1, 2, 3}
  PageSize = 2
  MaxLevel = 2
  Reported = {"CRITICAL"}
  SeverityInputs = {"MEDIUM", "HIGH", "CRITICAL"}
  Clearances = {3, 4}
  MaxTime = 1
  MaxMoves = 2
INVARIANTS
  TypeOK
PROPERTIES
  NobodyMissed
  ShownOnce
