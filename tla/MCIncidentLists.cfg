SPECIFICATION Spec
CONSTANTS
  NoUser = NoUser
  Me = Me
  Other = Other
  Incidents = {1, 2, 3}
  CreatedAt <- TwoAtOnce
  Own = {1, 3}
  FirstRows <- TwoRows
  SeverityInputs = {"MEDIUM", "HIGH"}
  Clearances = {2, 3}
  Reads <- EachList
  PageSize = 1
  MaxLevel = 2
  MaxMoves = 2
  TypeOf <- TwoTypes
  IncidentTypes = {"SAFETY", "SECURITY"}
  Queries <- FourQueries
INVARIANTS
  TypeOK
  WalkAccountsForRows
  ReportsAgree
CHECK_DEADLOCK FALSE
