SPECIFICATION Spec
CONSTANTS
  None = None
  Request = {p1, p2, p3}
  Worker = {}
  Wallet = {"w1"}
  WalletPlayer <- MCWalletPlayer
  WalletCurrency <- MCWalletCurrency
  Opening <- MCOpening
  Inputs <- ReversalInputs
SYMMETRY Symmetry
INVARIANTS ReplaysFirstBalance
CHECK_DEADLOCK FALSE
