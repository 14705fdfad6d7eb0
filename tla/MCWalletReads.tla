--------------------------- MODULE MCWalletReads ---------------------------
(***************************************************************************)
(* The amounts of the instances of WalletReads.                            *)
(***************************************************************************)
EXTENDS WalletReads, TLC

\* A credit and a debit.
MCAmount == {2, -1}
MCSpoilt == {3, -1}
=============================================================================
