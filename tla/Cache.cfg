SPECIFICATION FairSpec
CONSTANTS
  None = None
  Client = {c1, c2}
  Inputs <- MCInputs
INVARIANTS TypeOK OneAnswerPerKey AnswerMatchesRow FirstAnswerOnce
PROPERTIES Served
CHECK_DEADLOCK FALSE
