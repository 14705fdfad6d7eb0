SPECIFICATION Spec
CONSTANTS
  None = None
  Request = {p1, p2}
  Worker = {k1}
  Wallet = {"w1", "w2"}
  WalletPlayer <- MCWalletPlayer
  WalletCurrency <- MCWalletCurrency
  Opening <- MCOpening
  Inputs <- CrossWalletInputs
SYMMETRY Symmetry
PROPERTIES TerminalIsFinal
CHECK_DEADLOCK FALSE
