SPECIFICATION Spec
CONSTANTS
  Users = {u1, u2}
  Reader = u1
  Incidents = {1, 2}
  Reported = {"HIGH", "CRITICAL"}
  SeverityInputs = {"MEDIUM", "HIGH", "CRITICAL"}
  Clearances = {3, 4}
  GivenRoles = {"REPORTER", "TRIAGE_MANAGER"}
  PageSize = 1
  MaxRuns = 2
  MaxMoves = 2
INVARIANTS
  TypeOK
  AnswersAgree
PROPERTIES
  RightPeopleAreTold
CHECK_DEADLOCK FALSE
