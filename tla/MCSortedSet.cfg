SPECIFICATION SetSpec
CONSTANTS
  Values <- FirstValues
INVARIANTS Enumerates RemoveNeverRejects
PROPERTY ImplementsIndexSet
