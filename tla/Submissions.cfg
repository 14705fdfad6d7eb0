SPECIFICATION Spec
CONSTANTS
  None = None
  Request = {p1, p2, p3}
  Worker = {k1}
  Wallet = {"w1"}
  WalletPlayer <- MCWalletPlayer
  WalletCurrency <- MCWalletCurrency
  Opening <- MCOpening
  Inputs <- SubmissionInputs
SYMMETRY Symmetry
INVARIANTS TypeOK AnswersAgree LoserFindsWinner ReversalMatches
PROPERTIES ImplementsLedger
CHECK_DEADLOCK FALSE
