----------------------------- MODULE WagerRules -----------------------------
(***************************************************************************)
(* The pure rules of the wagering domain: transaction kinds, what may      *)
(* reverse what, in which direction money moves, and what a debit or a     *)
(* credit does to a wallet.  A submission is a record                      *)
(*                                                                         *)
(*   [kind, wallet, player, round, amount, currency, ext, key, ref]        *)
(*                                                                         *)
(* ext stands for the pair (providerId, externalTransactionId) and ref for *)
(* (providerId, referenceExternalTransactionId), since the code only ever  *)
(* looks references up under the submission's own provider; ref is None    *)
(* when the submission names no reference.  amount is in minor units.      *)
(***************************************************************************)
EXTENDS Integers

CONSTANT None   \* the absent value: null in the code

\* The fields of a submission.
Fields ==
  {"kind", "wallet", "player", "round", "amount", "currency", "ext", "key", "ref"}

WagerKind == {"BET", "WIN", "LOSS", "REFUND", "ROLLBACK", "OPENING"}

\* Kinds that undo another transaction.
Reversal == {"REFUND", "ROLLBACK"}

FailureCode ==
  {"INVALID_KIND", "PLAYER_MISMATCH", "REFERENCE_NOT_FOUND", "INVALID_REFERENCE_KIND",
   "WALLET_MISMATCH", "ROUND_MISMATCH", "CURRENCY_MISMATCH", "REVERSAL_AMOUNT_MISMATCH",
   "REFERENCE_ALREADY_REVERSED", "INSUFFICIENT_FUNDS",
   "REVERSAL_WOULD_MAKE_BALANCE_NEGATIVE"}

Direction == {"DEBIT", "CREDIT"}

ASSUME NoneAssumption == None \notin FailureCode \cup WagerKind

\* OPENING is minted by the wallet service only.
ExternallySubmittable(kind) == kind # "OPENING"

\* Which kinds a reversal may name.
AllowedReferenceKinds(kind) ==
  IF kind = "REFUND" THEN {"BET"} ELSE {"BET", "WIN", "REFUND"}

\* The payload hash covers every business field and leaves out the idempotency key.
SamePayload(i, j) == [i EXCEPT !.key = None] = [j EXCEPT !.key = None]

OriginalDirection(kind) == IF kind = "BET" THEN "DEBIT" ELSE "CREDIT"

\* A reversal moves money against the original direction of what it reverses.
DirectionOf(kind, refKind) ==
  IF refKind # None
  THEN IF OriginalDirection(refKind) = "CREDIT" THEN "DEBIT" ELSE "CREDIT"
  ELSE OriginalDirection(kind)

\* Fault: the round is not compared.
ReversalRejection_NoRound(i, ref, refWallet, alreadyReversed) ==
  IF ref.kind \notin AllowedReferenceKinds(i.kind) THEN "INVALID_REFERENCE_KIND"
  ELSE IF i.wallet # refWallet       THEN "WALLET_MISMATCH"
  ELSE IF i.player # ref.player      THEN "PLAYER_MISMATCH"
  ELSE IF i.currency # ref.currency  THEN "CURRENCY_MISMATCH"
  ELSE IF i.amount # ref.amount      THEN "REVERSAL_AMOUNT_MISMATCH"
  ELSE IF alreadyReversed            THEN "REFERENCE_ALREADY_REVERSED"
  ELSE None

(***************************************************************************)
(* The first rule that reversal i breaks against the transaction ref it    *)
(* names, in the order the code tries them, or None.  refWallet is the     *)
(* wallet about to move money.                                             *)
(***************************************************************************)
ReversalRejection(i, ref, refWallet, alreadyReversed) ==
  IF ref.kind \notin AllowedReferenceKinds(i.kind) THEN "INVALID_REFERENCE_KIND"
  ELSE IF i.wallet # refWallet       THEN "WALLET_MISMATCH"
  ELSE IF i.player # ref.player      THEN "PLAYER_MISMATCH"
  ELSE IF i.round # ref.round        THEN "ROUND_MISMATCH"
  ELSE IF i.currency # ref.currency  THEN "CURRENCY_MISMATCH"
  ELSE IF i.amount # ref.amount      THEN "REVERSAL_AMOUNT_MISMATCH"
  ELSE IF alreadyReversed            THEN "REFERENCE_ALREADY_REVERSED"
  ELSE None

\* Why Wallet.debit or Wallet.credit refuses, or None.
ApplyRejection(balance, walletCurrency, direction, amount, currency) ==
  IF currency # walletCurrency                      THEN "CURRENCY_MISMATCH"
  ELSE IF direction = "DEBIT" /\ balance < amount   THEN "INSUFFICIENT_FUNDS"
  ELSE None

\* The ledger entry a debit or a credit writes.
LedgerEntry(tx, direction, amount, before) ==
  [tx |-> tx, direction |-> direction, amount |-> amount, before |-> before,
   after |-> IF direction = "DEBIT" THEN before - amount ELSE before + amount]
=============================================================================
