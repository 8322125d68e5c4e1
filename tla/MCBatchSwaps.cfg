SPECIFICATION SwapSpec
CONSTANTS
  s1 = s1
  s2 = s2
  s3 = s3
  b1 = b1
  b2 = b2
  Trades = {s1, s2, s3, b1, b2}
  Sells = {s1, s2, s3}
  Cap = 1
  MaxBlock = 4
  Outcomes <- AnyOutcome
INVARIANTS BookExact SettledLater ClearsAtOnce NoOvertaking
