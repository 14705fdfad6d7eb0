SPECIFICATION FairSpec
CONSTANTS
  None = None
  Request = {"r1", "r2", "r3", "r4"}
  Account <- MCAccount
  Initial <- MCInitial
INVARIANTS TypeOK OneWalletPerAccount OpenedWhole RefusedForAWallet
PROPERTIES AllAnswered
CHECK_DEADLOCK FALSE
