SPECIFICATION Spec
CONSTANTS
  None = None
  Id = {1, 2, 3}
  Time = {1, 2}
  Amount <- MCAmount
  Spoilt <- MCSpoilt
  PageSize = 2
  Reader = {r1}
INVARIANTS TypeOK DifferenceExplained ListedOnce
