SPECIFICATION TerminalSpec
CONSTANTS
  MaxConnections = 2
  MaxSubmissions = 1
  MaxFailures = 2
  MaxPrices = 2
  MaxTimers = 1
INVARIANT TickerOnItsSlide
PROPERTIES ConsoleClears BarFollows PriceLoads BalanceLoads
CHECK_DEADLOCK FALSE
