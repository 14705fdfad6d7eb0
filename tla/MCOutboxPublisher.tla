------------------------- MODULE MCOutboxPublisher -------------------------
(***************************************************************************)
(* The rows of the instances of OutboxPublisher.                           *)
(***************************************************************************)
EXTENDS OutboxPublisher

\* Two events of one transaction, and a later one that changed another wallet.
TwoWallets == [e \in Event |-> IF e = "e3" THEN "v" ELSE "w"]
MCAt == [e \in Event |-> IF e = "e3" THEN 2 ELSE 1]
=============================================================================
