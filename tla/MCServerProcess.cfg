SPECIFICATION FairSpec
CONSTANTS
  Processes = {old, new}
  Pressed = {old}
  LEASE = 2
  MaxFaults = 2
  MaxStops = 1
INVARIANTS
  TypeOK
  StopsLeaveNothingBehind
PROPERTIES
  EscalationRecurs
