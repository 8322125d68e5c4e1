SPECIFICATION Spec
CONSTANTS
  One = 4096
  Part = 32
  Amounts = {3, 10}
  Interests = {0, 1}
  MaxDeposits = 25
  MaxPaid = 12
  MaxCalls = 6
INVARIANTS TypeOK RateInBand NeverPastTarget MoreDrawnCostsMore
CHECK_DEADLOCK FALSE
