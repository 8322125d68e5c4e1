SPECIFICATION Spec
CONSTANTS
  c1 = c1
  c2 = c2
  c3 = c3
  Clients = {c1, c2, c3}
  Numberings <- Both
  None = None
  Shapes <- SmallShapes
  MaxFaults = 1
INVARIANTS TypeOK OneSignaturePerCommitment NobodyFails
PROPERTY EveryoneSigns
CHECK_DEADLOCK FALSE
