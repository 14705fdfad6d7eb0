SPECIFICATION FairSpec
CONSTANTS
  None = None
  Message = {1, 2, 3, 4, 5}
  Instance = {i1}
  Class <- ClassMixed
  Key <- KeyMixed
  Payload <- PayloadMixed
  Group <- GroupMixed
  MaxReceive = 1
  BatchSize = 1
INVARIANTS InboxMeansDone
PROPERTIES MessagesLeave
