----------------------------- MODULE WagerLedger -----------------------------
(***************************************************************************)
(* What ProcessWagerUseCase promises its callers, without transactions,    *)
(* locks or workers: a ledger that takes one submission at a time, settles *)
(* it and the reversals that wait for it in one step, and answers with     *)
(* what it has stored.  ProcessWager implements it (LedgerRefinement).     *)
(*                                                                         *)
(* A request is also the identifier of the transaction it stores.          *)
(***************************************************************************)
EXTENDS WagerRules

CONSTANTS Request, Wallet, WalletPlayer, WalletCurrency, Opening, Inputs

VARIABLES
  input,    \* the submission of each request, once it has come
  status,   \* of each transaction: NONE, PENDING_REFERENCE, PROCESSED or REJECTED
  moved,    \* what each transaction has added to the balance of its wallet
  balance,  \* of each wallet
  answer    \* the transaction each request was told of, and its status then

vars == <<input, status, moved, balance, answer>>

NoAnswer == [status |-> "NONE", tx |-> None]

Init ==
  /\ input = [p \in Request |-> None]
  /\ status = [t \in Request |-> "NONE"]
  /\ moved = [t \in Request |-> 0]
  /\ balance = Opening
  /\ answer = [p \in Request |-> NoAnswer]

Stored == {t \in Request : status[t] # "NONE"}
Waiting(r) == {t \in Request : status[t] = "PENDING_REFERENCE" /\ input[t].ref = input[r].ext}

Same(p, t) == input[p].key = input[t].key \/ input[p].ext = input[t].ext

Undoes(t, r) == ReversalRejection(input[t], input[r], input[r].wallet, FALSE) = None

\* The transactions that t may still reverse: nothing is reversed twice.
Reversible(t) ==
  {r \in Stored :
     /\ status[r] = "PROCESSED" /\ input[r].ext = input[t].ref /\ Undoes(t, r)
     /\ ~\E s \in Stored : /\ status[s] = "PROCESSED" /\ input[s].kind \in Reversal
                           /\ input[s].ref = input[t].ref}

\* What t may add to its wallet; it is to be rejected if there is nothing.
Gain(t) ==
  LET i == input[t]
      sound == i.currency = WalletCurrency[i.wallet]
  IN
  IF i.wallet \notin Wallet \/ ~ExternallySubmittable(i.kind) THEN {}
  ELSE IF i.player # WalletPlayer[i.wallet] THEN {}
  ELSE IF i.kind = "LOSS" THEN {0}
  ELSE {m \in IF i.kind \in Reversal THEN {-moved[r] : r \in Reversible(t)}
              ELSE {IF i.kind = "BET" THEN -i.amount ELSE i.amount} :
          sound /\ balance[i.wallet] + m >= 0}

Tell(p, s, t) == answer' = [answer EXCEPT ![p] = [status |-> s, tx |-> t]]
Unanswered(p) == input[p] # None /\ answer[p] = NoAnswer

\* p may be stored: nothing is stored under its key or external identifier.
Fresh(p) == Unanswered(p) /\ ~\E t \in Stored : Same(p, t)

-----------------------------------------------------------------------------
Submit(p) ==
  /\ input[p] = None
  /\ \E i \in Inputs : input' = [input EXCEPT ![p] = i]
  /\ UNCHANGED <<status, moved, balance, answer>>

\* A submission is rejected only if it cannot be processed.
Reject(p) ==
  /\ Fresh(p) /\ Gain(p) = {}
  /\ status' = [status EXCEPT ![p] = "REJECTED"]
  /\ Tell(p, "REJECTED", p)
  /\ UNCHANGED <<input, moved, balance>>

\* A reversal waits for what it names.
Wait(p) ==
  /\ Fresh(p) /\ Gain(p) = {}
  /\ input[p].kind \in Reversal /\ input[p].ref # None
  /\ status' = [status EXCEPT ![p] = "PENDING_REFERENCE"]
  /\ Tell(p, "PENDING_REFERENCE", p)
  /\ UNCHANGED <<input, moved, balance>>

\* A submission is processed, and with it every reversal on its wallet that waits for
\* it: one that may undo it does so, the others are rejected.
Process(p) ==
  /\ Fresh(p)
  /\ \E m \in Gain(p) : \E S \in SUBSET Waiting(p) :
       LET undone == {t \in S : Undoes(t, p)} IN
       /\ {t \in Waiting(p) : input[t].wallet = input[p].wallet} \subseteq S
       /\ \E U \in IF undone = {} THEN {{}} ELSE {{t} : t \in undone} :
            /\ status' = [t \in Request |->
                            IF t \in U \cup {p} THEN "PROCESSED"
                            ELSE IF t \in S THEN "REJECTED" ELSE status[t]]
            /\ moved' = [t \in Request |->
                           IF t = p THEN m ELSE IF t \in U THEN -m ELSE moved[t]]
            /\ balance' = [balance EXCEPT ![input[p].wallet] = IF U = {} THEN @ + m ELSE @]
  /\ Tell(p, "PROCESSED", p)
  /\ UNCHANGED input

\* A reversal that waits is settled later.
Resolve(t) ==
  /\ status[t] = "PENDING_REFERENCE"
  /\ \/ \E m \in Gain(t) :
          /\ status' = [status EXCEPT ![t] = "PROCESSED"]
          /\ moved' = [moved EXCEPT ![t] = m]
          /\ balance' = [balance EXCEPT ![input[t].wallet] = @ + m]
     \/ /\ Gain(t) = {}
        /\ status' = [status EXCEPT ![t] = "REJECTED"]
        /\ UNCHANGED <<moved, balance>>
  /\ UNCHANGED <<input, answer>>

\* A duplicate is told what is stored, a conflicting submission that it conflicts.
Reply(p) ==
  /\ Unanswered(p)
  /\ \E t \in Stored :
       /\ Same(p, t)
       /\ IF SamePayload(input[p], input[t]) THEN Tell(p, status[t], t)
                                             ELSE Tell(p, "CONFLICT", None)
  /\ UNCHANGED <<input, status, moved, balance>>

\* A failure is told as such and leaves nothing behind.
Fail(p) ==
  /\ Unanswered(p)
  /\ \/ Tell(p, "ERROR", None)
     \/ input[p].wallet \notin Wallet /\ Tell(p, "NOT_FOUND", None)
  /\ UNCHANGED <<input, status, moved, balance>>

Next ==
  \E p \in Request :
    Submit(p) \/ Reject(p) \/ Wait(p) \/ Process(p) \/ Resolve(p) \/ Reply(p) \/ Fail(p)

Spec == Init /\ [][Next]_vars
=============================================================================
