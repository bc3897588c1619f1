SPECIFICATION Spec
CONSTANTS
  NoUser = NoUser
  Users = {v1, m1}
  v1 = v1
  m1 = m1
  ProfilesOf <- ProfilesHere
  SeverityInputs = {"MEDIUM", "HIGH"}
  Requests = {r1, r2}
  PageSize = 1
  Window = 1
  MaxTime = 1
  MaxEvents = 3
  MaxWrites = 2
INVARIANTS
  TypeOK
  WalkExact
  DenialsBounded
  OfferedIsAccepted
PROPERTIES
  EffectiveNextRequest
SYMMETRY Symmetric
CHECK_DEADLOCK FALSE
