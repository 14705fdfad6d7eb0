SPECIFICATION Spec
CONSTANTS
  None = None
  Message = {1, 2}
  Instance = {i1, i2}
  Class <- ClassPair
  Key <- KeyPair
  Payload <- PayloadPair
  Group <- GroupPair
  MaxReceive = 3
  BatchSize = 2
SYMMETRY Symmetry
INVARIANTS TypeOK DeletedOnlyWhenDone InboxMeansDone DeadLetterNeedsFaults
