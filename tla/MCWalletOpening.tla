-------------------------- MODULE MCWalletOpening --------------------------
(***************************************************************************)
(* The requests of the instances of WalletOpening.                         *)
(***************************************************************************)
EXTENDS WalletOpening, TLC

\* Three requests for one account, one of them without money, and one for another.
MCAccount == [r \in Request |-> IF r = "r4" THEN "b" ELSE "a"]
MCInitial == [r \in Request |-> IF r = "r2" THEN 0 ELSE 5]
=============================================================================
