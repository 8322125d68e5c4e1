SPECIFICATION Spec
CONSTANTS
  a = a
  b = b
  Users = {a, b}
  V4 = V4
  Zero = Zero
  Unlimited = Unlimited
  MaxBatch = 2
  MaxSupply = 3
  MaxAmount = 2
  Delegations <- OneWay
INVARIANTS WalkAgrees BooksAgree NoDeletionMarker IndexExact
PROPERTIES MaturedOnlyShrinks RedeemsOnlyMature NewestFirst
