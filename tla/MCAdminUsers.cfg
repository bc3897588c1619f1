SPECIFICATION UsersSpec
CONSTANTS
  Users = {u1, u2, u3}
  OtherRoles = {"TRIAGE_MANAGER"}
  Requests = {r1, r2, r3}
INVARIANTS
  UsersTypeOK
PROPERTIES
  CountedKeepsAnAdmin
SYMMETRY Symmetric
CHECK_DEADLOCK FALSE
