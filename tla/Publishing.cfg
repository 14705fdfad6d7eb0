SPECIFICATION FairSpec
CONSTANTS
  Event = {"e1", "e2", "e3"}
  Wallet <- TwoWallets
  At <- MCAt
  Publisher = {p1, p2}
  BatchSize = 2
  MaxFaults = 2
INVARIANTS TypeOK PublishedMeansDelivered CopiesNeedLoss
PROPERTIES EventuallyPublished
CHECK_DEADLOCK FALSE
