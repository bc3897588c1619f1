SPECIFICATION Spec
CONSTANTS
  NoUser = NoUser
  Incidents = {i1}
  Managers = {}
  Investigators = {v1, v2}
  Admins = {a1}
  Requests = {r1, r2}
  ClearanceLevels = {2, 4}
  SeverityInputs = {"MEDIUM", "HIGH", "CRITICAL"}
  MaxVersion = 4
  MaxLag = 0
INVARIANTS
  TypeOK
  SnapshotCurrent
  ClockMatchesBand
PROPERTIES
  AckLostOnlyToNewCycle
  AuditTellsTheChange
  ImplementsWorkflow
SYMMETRY Symmetric
CHECK_DEADLOCK FALSE
