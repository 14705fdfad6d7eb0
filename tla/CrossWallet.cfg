SPECIFICATION FairSpec
CONSTANTS
  None = None
  Request = {p1, p2, p3}
  Worker = {k1}
  Wallet = {"w1", "w2"}
  WalletPlayer <- MCWalletPlayer
  WalletCurrency <- MCWalletCurrency
  Opening <- MCOpening
  Inputs <- CrossWalletInputs
INVARIANTS NoWaitCycle
PROPERTIES Answered ImplementsLedger
CHECK_DEADLOCK FALSE
