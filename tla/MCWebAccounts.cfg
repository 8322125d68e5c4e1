SPECIFICATION Spec
CONSTANTS
  Wallets = {w1, w2}
  None = None
  MaxVersion = 1
  MaxAll = 1
  MaxConnects = 2
  MaxClicks = 1
  MaxFaults = 1
INVARIANT OneEntryPerOwner
PROPERTIES RequestsDryUp AccountsLoad
CHECK_DEADLOCK FALSE
