SPECIFICATION FairSpec
CONSTANTS
  None = None
  Transaction = {"bet", "refund", "rollback"}
  Worker = {k1, k2}
  Ref <- MCRef
  MaxAttempts = 3
  Expiry = 8
  BatchSize = 1
  MaxAge = 1
INVARIANTS TypeOK
PROPERTIES NotGivenUpEarly EventuallySettled
