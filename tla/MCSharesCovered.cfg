SPECIFICATION Spec
CONSTANTS
  alice = alice
  bob = bob
  Customers = {alice, bob}
  Amounts = {2, 5}
  MaxNow = 3
  MaxDeposits = 9
  MaxCalls = 5
SYMMETRY Interchangeable
INVARIANT ClaimsCovered
CHECK_DEADLOCK FALSE
