-------------------------- MODULE LedgerRefinement --------------------------
(***************************************************************************)
(* ProcessWager implements WagerLedger: its committed tables, seen without *)
(* failure codes, versions and events, change only in the steps WagerLedger *)
(* allows, each of them at once and together with the answer it gives.     *)
(***************************************************************************)
EXTENDS ProcessWager

\* What the ledger of its wallet shows of a transaction, and what it has moved by that.
EntriesOf(t) ==
  IF t \in Stored /\ input[t].wallet \in Wallet
  THEN {e \in {ledger[input[t].wallet][n] : n \in DOMAIN ledger[input[t].wallet]} : e.tx = t}
  ELSE {}
Net(entries) == MapThenSumSet(LAMBDA e : e.after - e.before, entries)

Promise == INSTANCE WagerLedger WITH
  status  <- [t \in Request |-> rows[t].status],
  moved   <- [t \in Request |-> Net(EntriesOf(t))],
  balance <- [w \in Wallet |-> wallets[w].balance],
  answer  <- [p \in Request |-> [status |-> answer[p].status, tx |-> answer[p].tx]]

\* Requests and workers on one database behave as a ledger that takes one submission at a
\* time: each commit settles a submission and the reversals that wait for it on its wallet
\* as the rules say for the state it meets, with its answer, and nothing else ever changes.
ImplementsLedger == Promise!Spec
=============================================================================
