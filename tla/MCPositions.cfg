SPECIFICATION Spec
CONSTANTS
  alice = alice
  gold = gold
  coin = coin
  Customers = {alice}
  Tickers = {gold, coin}
  Amounts = {3}
  Units = {1, 4}
  Collar = 3
  Cut = 4
  Dust = 1
  MaxPrice = 2
  MaxVault = 6
  MaxUnits = 4
  MaxInterest = 1
  MaxSlice = 1
SYMMETRY Interchangeable
PROPERTIES NothingPaidTwice NothingFromNothing
CHECK_DEADLOCK FALSE
