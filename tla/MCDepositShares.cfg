SPECIFICATION Spec
CONSTANTS
  alice = alice
  bob = bob
  Customers = {alice, bob}
  Amounts = {2, 5}
  MaxNow = 3
  MaxDeposits = 9
  MaxCalls = 6
SYMMETRY Interchangeable
INVARIANTS TypeOK NothingUnowned SharesFit
CHECK_DEADLOCK FALSE
