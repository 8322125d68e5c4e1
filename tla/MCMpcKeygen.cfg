SPECIFICATION Spec
CONSTANTS
  i1 = i1
  i2 = i2
  c1 = c1
  c2 = c2
  c3 = c3
  Initiators = {i1, i2}
  Clients = {c1, c2, c3}
  Nobody = Nobody
  Shapes <- SmallShapes
  MaxFaults = 1
  MaxRestarts = 1
INVARIANTS TypeOK WholeUnlessReused OneKeyPerSession NobodyFails
PROPERTY EveryoneFinishes
CHECK_DEADLOCK FALSE
