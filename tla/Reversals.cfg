SPECIFICATION Spec
CONSTANTS
  None = None
  Request = {p1, p2, p3, p4}
  Worker = {k1}
  Wallet = {"w1"}
  WalletPlayer <- MCWalletPlayer
  WalletCurrency <- MCWalletCurrency
  Opening <- MCOpening
  Inputs <- ReversalInputs
SYMMETRY Symmetry
INVARIANTS LedgerSound AtMostOneReversal NoLostWakeup BalanceEventsInOrder OneOutcome
PROPERTIES ImplementsLedger
CHECK_DEADLOCK FALSE
