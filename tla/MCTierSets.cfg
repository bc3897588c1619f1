SPECIFICATION Spec
CONSTANTS
  Bands = {"HIGH", "CRITICAL"}
  TierInputs <- ThreeInputs
  SeedKeys <- TwoKeys
  Environments <- TwoEnvironments
  Requests = {r1, r2}
  Seedings = {d1, d2}
  Watched = "HIGH"
  MaxElapsed = 2
INVARIANTS
  TypeOK
  
  
PROPERTIES
  ImplementsRegister
SYMMETRY Symmetric
CHECK_DEADLOCK FALSE
