------------------------- MODULE MCPendingReference -------------------------
(***************************************************************************)
(* Instances of PendingReference: what the reversals of each one name.     *)
(***************************************************************************)
EXTENDS PendingReference

\* Every reversal names the bet.
MCRef == [t \in Transaction |-> IF t = "bet" THEN None ELSE "bet"]
=============================================================================
