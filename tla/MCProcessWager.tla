--------------------------- MODULE MCProcessWager ---------------------------
(***************************************************************************)
(* Small instances of ProcessWager for TLC.  Each scenario is a set of     *)
(* submissions; every request carries any one of them, so two requests may *)
(* carry the same one.                                                     *)
(***************************************************************************)
EXTENDS LedgerRefinement, TLC

MCWalletPlayer == [w \in Wallet |-> IF w = "w1" THEN "alice" ELSE "bob"]
MCWalletCurrency == [w \in Wallet |-> "BRL"]
MCOpening == [w \in Wallet |-> IF w = "w1" THEN 2 ELSE 0]

Submission(kind, wallet, amount, ext, key, ref) ==
  [kind |-> kind, wallet |-> wallet, player |-> "alice", round |-> "r1",
   amount |-> amount, currency |-> "BRL", ext |-> ext, key |-> key, ref |-> ref]

\* A bet the balance covers only after the win, submitted again with another key, under
\* another external identifier, and with an amount the balance covers; a rollback of the
\* win, which the bet may leave without funds; reversals that name nothing, a loss, or the
\* bet with another round, currency or amount; a stranger's player, a kind nobody may
\* submit, and wallets that do not exist.
SubmissionInputs ==
  LET bet == Submission("BET", "w1", 3, "a", "k1", None)
      refund == Submission("REFUND", "w1", 2, "r", "k9", "a")
  IN
  {bet,
   [bet EXCEPT !.key = "k2"],
   [bet EXCEPT !.ext = "b"],
   [bet EXCEPT !.amount = 2],
   [bet EXCEPT !.ext = "c", !.key = "k3", !.player = "eve"],
   [bet EXCEPT !.kind = "OPENING", !.key = "k2"],
   [bet EXCEPT !.kind = "OPENING", !.ext = "d", !.key = "k4", !.wallet = "none"],
   [bet EXCEPT !.ext = "e", !.key = "k5", !.wallet = "none"],
   Submission("WIN",      "w1", 1, "win",  "k6", None),
   Submission("ROLLBACK", "w1", 1, "back", "k7", "win"),
   Submission("LOSS",     "w1", 0, "loss", "k8", None),
   Submission("ROLLBACK", "w1", 0, "last", "k9", "loss"),
   [refund EXCEPT !.ref = None],
   [refund EXCEPT !.round = "r2"],
   [refund EXCEPT !.currency = "USD"],
   [refund EXCEPT !.amount = 3]}

\* A bet of the whole balance, a refund and a rollback of it, a rollback of the refund.
ReversalInputs ==
  {Submission("BET",      "w1", 2, "bet",  "k1", None),
   Submission("REFUND",   "w1", 2, "ref",  "k2", "bet"),
   Submission("ROLLBACK", "w1", 2, "back", "k3", "bet"),
   Submission("ROLLBACK", "w1", 2, "undo", "k4", "ref")}

\* A bet on one wallet and refunds of it submitted for both wallets.
CrossWalletInputs ==
  {Submission("BET",      "w1", 2, "bet",  "k1", None),
   Submission("REFUND",   "w1", 2, "ref",  "k2", "bet"),
   [Submission("REFUND",  "w2", 2, "far",  "k3", "bet") EXCEPT !.player = "bob"]}

Symmetry == Permutations(Request) \cup Permutations(Worker)
=============================================================================
