------------------------- MODULE ProcessWagerProofs -------------------------
(***************************************************************************)
(* Proofs about ProcessWager, for every number of requests, workers and    *)
(* wallets and every set of submissions, in three parts:                   *)
(*   - type correctness, and that the ledger of every wallet is an         *)
(*     unbroken chain that ends at its balance;                            *)
(*   - nothing is stored twice, nothing is reversed twice, and requests    *)
(*     and workers never wait for each other in a circle;                  *)
(*   - what the outbox says: the balances of each wallet in the order of   *)
(*     its ledger, and the outcome of each transaction once.               *)
(***************************************************************************)
EXTENDS ProcessWager, FiniteSetTheorems, TLAPS

\* TypeOK is not inductive.  An amount enters a balance from the submission of a row
\* that was read, and a worker locks the wallet a row names, so every row a process
\* can read, write or retry must be known to carry a submission for a wallet that
\* exists (what the foreign key on wallet_id guarantees).
Submitted(t) == input[t] \in Inputs
Known(t) == Submitted(t) /\ input[t].wallet \in Wallet

InputsOK ==
  /\ input \in [Request -> Inputs \cup {None}]
  /\ target \in [Worker -> Request \cup {None}]
  /\ answer \in [Request -> AnswerType]

DatabaseOK ==
  /\ wallets \in [Wallet -> WalletType]
  /\ ledger \in [Wallet -> Seq(EntryType)]
  /\ rows \in [Request -> RowType]
  /\ outbox \in [Wallet -> Seq(EventType)]
  /\ \A t \in Request : rows[t] # NoRow => Known(t)

\* The row a request is about to insert is not known yet: its foreign key is unchecked.
UowOK ==
  /\ uow \in [Process -> UowType]
  /\ \A p \in Process : \A t \in Request :
       t \in uow[p].todo \/ (uow[p].writes[t] # NoRow /\ t # p) => Known(t)

LocksOK ==
  /\ walletLock \in [Wallet -> Process \cup {None}]
  /\ rowLock \in [Request -> Process \cup {None}]

\* A request that has decided has its own row in its unit of work, and its wallet
\* exists once it was locked or its foreign key was checked.  A process holds no
\* lock before it asks for one nor after its transaction, and a request only that
\* of its own wallet.
Staging == {"insert", "fk", "find", "resolve", "commit"}
Checked == {"decide", "find", "resolve", "commit"}
Quiet == {"idle", "checkKey", "checkExt", "lockWallet", "fk", "lost", "done"}

ControlOK ==
  /\ pc \in [Process -> Label]
  /\ \A p \in Request :
       /\ IF pc[p] = "idle" THEN input[p] = None ELSE Submitted(p)
       /\ pc[p] \in Staging => uow[p].writes[p] # NoRow
       /\ pc[p] \in Checked => Known(p)
  /\ \A k \in Worker : pc[k] # "idle" => target[k] \in Request /\ Known(target[k])
  /\ \A w \in Wallet : \A p \in Process :
       walletLock[w] = p => pc[p] \notin Quiet /\ (p \in Request => input[p].wallet = w)

TypeInv == InputsOK /\ DatabaseOK /\ UowOK /\ LocksOK /\ ControlOK

-----------------------------------------------------------------------------
(* The operators the unit of work is built with keep its type. *)

\* The value of an absent row has the type of a row.
LEMMA NoRowType == NoRow \in RowType
  BY DEF NoRow, RowType

\* The unit of work a transaction begins with.
LEMMA EmptyUowType == EmptyUow \in UowType
  BY NoRowType DEF EmptyUow, UowType, WalletType

\* Appending to the events of an aggregate, whether or not it is a wallet.
LEMMA AppendEvent ==
  ASSUME NEW es \in [Wallet -> Seq(EventType)], NEW w, NEW e \in EventType
  PROVE  [es EXCEPT ![w] = Append(@, e)] \in [Wallet -> Seq(EventType)]
  <1>1. CASE w \in Wallet
    <2>1. Append(es[w], e) \in Seq(EventType)
      BY <1>1
    <2> QED
      BY <1>1, <2>1
  <1>2. CASE w \notin Wallet
    BY <1>2
  <1> QED
    BY <1>1, <1>2

\* Appending several events, likewise.
LEMMA AppendEvents ==
  ASSUME NEW es \in [Wallet -> Seq(EventType)], NEW w, NEW new \in Seq(EventType)
  PROVE  [es EXCEPT ![w] = @ \o new] \in [Wallet -> Seq(EventType)]
  <1>1. CASE w \in Wallet
    <2>1. es[w] \o new \in Seq(EventType)
      BY <1>1
    <2> QED
      BY <1>1, <2>1
  <1>2. CASE w \notin Wallet
    BY <1>2
  <1> QED
    BY <1>1, <1>2

\* What settling row t may do to a unit of work: write that row, append events, and
\* append at most one entry, sound and starting at the balance the wallet had.
Moves(u, v) ==
  \/ v.wallet = u.wallet /\ v.entries = u.entries
  \/ \E e \in EntryType :
       /\ EntrySound(e)
       /\ e.before = u.wallet.balance
       /\ v.wallet.balance = e.after
       /\ v.entries = Append(u.entries, e)

Settles(u, v, t) ==
  /\ v \in UowType
  /\ v.todo = u.todo
  /\ v.writes[t] # NoRow
  /\ \A s \in Request \ {t} : v.writes[s] = u.writes[s]
  /\ Moves(u, v)

\* Staging a row, with its events, settles it.
LEMMA WriteSettles ==
  ASSUME NEW u \in UowType, NEW t \in Request, NEW row \in RowType,
         row # NoRow, NEW w, NEW e \in EventType
  PROVE  Settles(u, [u EXCEPT !.writes[t] = row, !.events[w] = Append(@, e)], t)
  <1> DEFINE writes == [u.writes EXCEPT ![t] = row]
             events == [u.events EXCEPT ![w] = Append(@, e)]
  <1>1. writes \in [Request -> RowType]
    BY DEF UowType
  <1>2. events \in [Wallet -> Seq(EventType)]
    BY AppendEvent DEF UowType
  <1>3. [u EXCEPT !.writes[t] = row, !.events[w] = Append(@, e)]
          = [u EXCEPT !.writes = writes, !.events = events]
    BY DEF UowType
  <1>4. writes[t] # NoRow /\ \A s \in Request \ {t} : writes[s] = u.writes[s]
    BY DEF UowType
  <1> HIDE DEF writes, events
  <1> QED
    BY <1>1, <1>2, <1>3, <1>4 DEF UowType, Settles, Moves

\* Rejecting a row settles it and moves no money.
LEMMA RejectedSettles ==
  ASSUME NEW u \in UowType, NEW t \in Request, NEW code \in FailureCode
  PROVE  Settles(u, Rejected(u, t, code), t)
  <1>1. /\ [NoRow EXCEPT !.status = "REJECTED", !.failure = code] \in RowType
        /\ [NoRow EXCEPT !.status = "REJECTED", !.failure = code] # NoRow
    BY DEF NoRow, RowType
  <1>2. Event("Rejected", t, 0) \in EventType
    BY DEF Event, EventType
  <1> QED
    BY <1>1, <1>2, WriteSettles DEF Rejected

\* Leaving a row to wait for its reference settles it for now.
LEMMA PendingSettles ==
  ASSUME NEW u \in UowType, NEW t \in Request
  PROVE  Settles(u, PendingReference(u, t), t)
  <1>1. /\ [NoRow EXCEPT !.status = "PENDING_REFERENCE"] \in RowType
        /\ [NoRow EXCEPT !.status = "PENDING_REFERENCE"] # NoRow
    BY DEF NoRow, RowType
  <1>2. Event("PendingReference", t, 0) \in EventType
    BY DEF Event, EventType
  <1> QED
    BY <1>1, <1>2, WriteSettles DEF PendingReference

\* Closing a row as processed settles it.
LEMMA SettledSettles ==
  ASSUME NEW u \in UowType, NEW t \in Request, NEW w
  PROVE  Settles(u, Settled(u, t, w), t)
  <1>1. /\ [NoRow EXCEPT !.status = "PROCESSED", !.balance = u.wallet.balance] \in RowType
        /\ [NoRow EXCEPT !.status = "PROCESSED", !.balance = u.wallet.balance] # NoRow
    BY DEF NoRow, RowType, UowType, WalletType
  <1>2. Event("Processed", t, 0) \in EventType
    BY DEF Event, EventType
  <1> QED
    BY <1>1, <1>2, WriteSettles DEF Settled

\* Moving money by a natural amount, with the entry that says so, settles a row.
LEMMA MovedSettles ==
  ASSUME NEW u \in UowType, NEW t \in Request, NEW r \in Request \cup {None}, NEW w,
         NEW e \in EntryType, EntrySound(e), e.before = u.wallet.balance
  PROVE  Settles(u, Moved(u, t, r, w, e), t)
  <1> DEFINE wallet == [balance |-> e.after, version |-> u.wallet.version + 1]
             entries == Append(u.entries, e)
             row == [status |-> "PROCESSED", failure |-> None,
                     balance |-> e.after, refTx |-> r]
             writes == [u.writes EXCEPT ![t] = row]
             new == <<Event("Processed", t, 0),
                      Event("BalanceChanged", t, u.wallet.version + 1)>>
             events == [u.events EXCEPT ![w] = @ \o new]
  <1>1. wallet \in WalletType /\ wallet.balance = e.after
    BY DEF UowType, WalletType, EntryType
  <1>2. entries \in Seq(EntryType)
    BY DEF UowType
  <1>3. writes \in [Request -> RowType]
    <2>1. row \in RowType
      BY DEF RowType, EntryType
    <2> QED
      BY <2>1 DEF UowType
  <1>4. events \in [Wallet -> Seq(EventType)]
    <2>1. /\ Event("Processed", t, 0) \in EventType
          /\ Event("BalanceChanged", t, u.wallet.version + 1) \in EventType
      BY DEF Event, EventType, UowType, WalletType
    <2>2. new \in Seq(EventType)
      BY <2>1
    <2> QED
      BY <2>2, AppendEvents DEF UowType
  <1>5. Moved(u, t, r, w, e)
          = [u EXCEPT !.wallet = wallet, !.entries = entries,
                      !.writes = writes, !.events = events]
    BY DEF Moved, UowType
  <1>6. writes[t] # NoRow /\ \A s \in Request \ {t} : writes[s] = u.writes[s]
    BY DEF UowType, NoRow
  <1> HIDE DEF wallet, writes, events
  <1> QED
    BY <1>1, <1>2, <1>3, <1>4, <1>5, <1>6, ZenonT(30) DEF UowType, Settles, Moves

\* What ApplyToWallet writes to the ledger, when it moves money at all.
LEMMA LedgerEntrySound ==
  ASSUME NEW t \in Request, NEW direction \in Direction, NEW amount \in Nat,
         NEW before \in Nat, NEW currency, NEW walletCurrency,
         ApplyRejection(before, walletCurrency, direction, amount, currency) = None
  PROVE  LET e == LedgerEntry(t, direction, amount, before)
         IN e \in EntryType /\ EntrySound(e) /\ e.before = before
  BY NoneAssumption
     DEF ApplyRejection, LedgerEntry, EntryType, EntrySound, Direction, FailureCode

\* ApplyToWallet rejects a row or moves its money.
LEMMA ApplyToWalletSettles ==
  ASSUME NEW u \in UowType, NEW t \in Request, NEW r \in Request \cup {None}, NEW w,
         Submitted(t), r # None => Submitted(r)
  PROVE  Settles(u, ApplyToWallet(u, t, r, w), t)
  <1> DEFINE money == IF r = None THEN input[t] ELSE input[r]
             direction == DirectionOf(input[t].kind, IF r = None THEN None ELSE input[r].kind)
             why == ApplyRejection(u.wallet.balance, WalletCurrency[w],
                                   direction, money.amount, money.currency)
             e == LedgerEntry(t, direction, money.amount, u.wallet.balance)
             code == IF r # None /\ why = "INSUFFICIENT_FUNDS"
                     THEN "REVERSAL_WOULD_MAKE_BALANCE_NEGATIVE" ELSE why
  <1>1. money.amount \in Nat
    BY ConstantsAssumption DEF Submitted
  <1>2. direction \in Direction
    BY DEF DirectionOf, OriginalDirection, Direction
  <1>3. u.wallet.balance \in Nat
    BY DEF UowType, WalletType
  <1>4. why # None => code \in FailureCode
    BY DEF ApplyRejection, FailureCode
  <1>5. ApplyToWallet(u, t, r, w)
          = IF why = None THEN Moved(u, t, r, w, e) ELSE Rejected(u, t, code)
    BY DEF ApplyToWallet
  <1> HIDE DEF money, direction, code
  <1>6. CASE why = None
    <2>1. e \in EntryType /\ EntrySound(e) /\ e.before = u.wallet.balance
      BY <1>1, <1>2, <1>3, <1>6, LedgerEntrySound
    <2> QED
      BY <1>5, <1>6, <2>1, MovedSettles
  <1>7. CASE why # None
    BY <1>4, <1>5, <1>7, RejectedSettles
  <1> QED
    BY <1>6, <1>7

\* So does a reversal, by the opposite of what it reverses.
LEMMA ReverseSettles ==
  ASSUME NEW u \in UowType, NEW t \in Request, NEW r \in Request, NEW w, NEW reversed,
         Submitted(t), Submitted(r)
  PROVE  Settles(u, Reverse(u, t, r, w, reversed), t)
  <1> DEFINE why == ReversalRejection(input[t], input[r], input[r].wallet, reversed)
  <1>1. why # None => why \in FailureCode
    BY DEF ReversalRejection, FailureCode
  <1>2. Reverse(u, t, r, w, reversed)
          = IF why = None THEN ApplyToWallet(u, t, r, w) ELSE Rejected(u, t, why)
    BY DEF Reverse
  <1> HIDE DEF why
  <1> QED
    BY <1>1, <1>2, ApplyToWalletSettles, RejectedSettles

-----------------------------------------------------------------------------
(* The parts of an action keep the parts of the invariant. *)

\* The types of the tables depend on the tables alone.
LEMMA DatabaseKept ==
  ASSUME TypeInv, UNCHANGED Database, input' = input
  PROVE  DatabaseOK'
  BY DEF TypeInv, DatabaseOK, Database, Known, Submitted

\* A unit of work that stays the same keeps its type.
LEMMA UowKept ==
  ASSUME TypeInv, UNCHANGED uow, input' = input
  PROVE  UowOK'
  BY DEF TypeInv, UowOK, Known, Submitted

\* Locks that stay the same keep their types.
LEMMA LocksKept ==
  ASSUME TypeInv, UNCHANGED Locks
  PROVE  LocksOK'
  BY DEF TypeInv, LocksOK, Locks

\* Staging a unit of work of the right type keeps the types.
LEMMA StageKeeps ==
  ASSUME TypeInv, NEW p \in Process, NEW t \in Request, NEW u, Stage(p, u),
         Settles(uow[p], u, t), t = p \/ Known(t), input' = input
  PROVE  /\ UowOK'
         /\ uow'[p].writes[t] # NoRow
         /\ \A q \in Process \ {p} : uow'[q] = uow[q]
  <1>1. uow' \in [Process -> UowType] /\ uow'[p] = u /\ \A q \in Process \ {p} : uow'[q] = uow[q]
    BY DEF TypeInv, UowOK, Stage, Settles
  <1>2. \A s \in Request : s \in u.todo \/ (u.writes[s] # NoRow /\ s # p) => Known(s)
    BY DEF Settles, TypeInv, UowOK
  <1> QED
    BY <1>1, <1>2 DEF TypeInv, UowOK, Known, Submitted, Settles

\* Giving locks back keeps the types of the locks.
LEMMA ReleaseKeeps ==
  ASSUME TypeInv, NEW p \in Process, Release(p), input' = input
  PROVE  /\ LocksOK'
         /\ UowOK'
         /\ \A q \in Process \ {p} : uow'[q] = uow[q]
  <1>1. LocksOK'
    BY DEF Release, TypeInv, LocksOK
  <1>2. /\ uow' \in [Process -> UowType]
        /\ uow'[p] = EmptyUow
        /\ \A q \in Process \ {p} : uow'[q] = uow[q]
    BY EmptyUowType DEF Release, TypeInv, UowOK
  <1>3. \A t \in Request : EmptyUow.writes[t] = NoRow /\ t \notin EmptyUow.todo
    BY DEF EmptyUow
  <1> QED
    BY <1>1, <1>2, <1>3 DEF TypeInv, UowOK, Known, Submitted

\* Taking locks keeps their types.
LEMMA LockKeeps ==
  ASSUME TypeInv, NEW p \in Process, NEW w \in Wallet, NEW label, LockWallet(p, w, label),
         input' = input, rowLock' = rowLock
  PROVE  /\ LocksOK'
         /\ UowOK'
         /\ \A q \in Process \ {p} : uow'[q] = uow[q]
  <1> DEFINE u == [uow[p] EXCEPT !.wallet = wallets[w]]
  <1>1. LocksOK'
    BY DEF LockWallet, TypeInv, LocksOK
  <1>2. u \in UowType /\ u.writes = uow[p].writes /\ u.todo = uow[p].todo
    BY DEF TypeInv, UowOK, DatabaseOK, UowType
  <1>3. uow' = [uow EXCEPT ![p] = u]
    BY DEF LockWallet
  <1> HIDE DEF u
  <1> QED
    BY <1>1, <1>2, <1>3 DEF TypeInv, UowOK, Known, Submitted

\* Committing a unit of work keeps the types of the tables.
LEMMA ApplyKeeps ==
  ASSUME TypeInv, NEW p \in Process, Apply(p), p \in Request => Known(p), input' = input
  PROVE  DatabaseOK'
  <1>1. uow[p] \in UowType
    BY DEF TypeInv, UowOK
  <1>2. wallets' \in [Wallet -> WalletType]
    BY <1>1 DEF Apply, TypeInv, DatabaseOK, UowType
  <1>3. ledger' \in [Wallet -> Seq(EntryType)]
    <2>1. \A w \in Wallet : ledger[w] \o uow[p].entries \in Seq(EntryType)
      BY <1>1 DEF TypeInv, DatabaseOK, UowType
    <2> QED
      BY <2>1 DEF Apply, TypeInv, DatabaseOK
  <1>4. /\ rows' \in [Request -> RowType]
        /\ \A t \in Request : rows'[t] # NoRow => Known(t)'
    <2>1. rows' = [t \in Request |-> IF uow[p].writes[t] = NoRow THEN rows[t]
                                                                 ELSE uow[p].writes[t]]
      BY DEF Apply
    <2>2. uow[p].writes \in [Request -> RowType]
      BY <1>1 DEF UowType
    <2>3. \A t \in Request : uow[p].writes[t] # NoRow => Known(t)
      BY DEF TypeInv, UowOK
    <2> QED
      BY <2>1, <2>2, <2>3 DEF TypeInv, DatabaseOK, Known, Submitted
  <1>5. outbox' \in [Wallet -> Seq(EventType)]
    <2>1. \A w \in Wallet : outbox[w] \o uow[p].events[w] \in Seq(EventType)
      BY <1>1 DEF TypeInv, DatabaseOK, UowType
    <2> QED
      BY <2>1 DEF Apply
  <1> QED
    BY <1>2, <1>3, <1>4, <1>5 DEF DatabaseOK

\* What an action may do to the wallet locks as process p moves to a label: nothing
\* (and then p holds none if the label is a quiet one), release those of p, or take the one of its own wallet.
LocksMove(p, label) ==
  \/ walletLock' = walletLock /\ (label \in Quiet => Holding(p) = {})
  \/ Release(p)
  \/ /\ label \notin Quiet
     /\ \E w \in Wallet : /\ LockWallet(p, w, label)
                          /\ p \in Request => input[p].wallet = w

\* A process moves on, keeping what it works on.
LEMMA GoKeeps ==
  ASSUME TypeInv, NEW p \in Process, NEW label \in Label, Go(p, label), pc[p] # "idle",
         input' = input, target' = target, LocksMove(p, label),
         \A q \in Process \ {p} : uow'[q] = uow[q],
         p \in Request => label # "idle",
         p \in Request /\ label \in Staging => uow'[p].writes[p] # NoRow,
         p \in Request /\ label \in Checked => Known(p)
  PROVE  ControlOK'
  <1>1. /\ pc' \in [Process -> Label]
        /\ pc'[p] = label
        /\ \A q \in Process \ {p} : pc'[q] = pc[q]
    BY DEF Go, TypeInv, ControlOK
  <1>2. \A q \in Request : /\ IF pc'[q] = "idle" THEN input'[q] = None ELSE Submitted(q)'
                           /\ pc'[q] \in Staging => uow'[q].writes[q] # NoRow
                           /\ pc'[q] \in Checked => Known(q)'
    BY <1>1 DEF TypeInv, ControlOK, Known, Submitted, Process
  <1>3. \A k \in Worker : pc'[k] # "idle" => target'[k] \in Request /\ (Known(target[k]))'
    BY <1>1 DEF TypeInv, ControlOK, Known, Submitted, Process
  <1>4. \A w \in Wallet : \A q \in Process :
          walletLock'[w] = q => pc'[q] \notin Quiet /\ (q \in Request => input'[q].wallet = w)
    <2>1. CASE walletLock' = walletLock /\ (label \in Quiet => Holding(p) = {})
      BY <1>1, <2>1 DEF TypeInv, ControlOK, Holding
    <2>2. CASE Release(p)
      <3>1. None \notin Process
        BY ConstantsAssumption DEF Process
      <3>2. \A w \in Wallet : walletLock'[w] # p /\ walletLock'[w] \in {None, walletLock[w]}
        BY <2>2, <3>1 DEF Release
      <3> QED
        BY <1>1, <3>1, <3>2 DEF TypeInv, ControlOK
    <2>3. CASE /\ label \notin Quiet
               /\ \E w \in Wallet : /\ LockWallet(p, w, label)
                                    /\ p \in Request => input[p].wallet = w
      BY <1>1, <2>3 DEF TypeInv, LocksOK, ControlOK, LockWallet
    <2> QED
      BY <2>1, <2>2, <2>3 DEF LocksMove
  <1> QED
    BY <1>1, <1>2, <1>3, <1>4 DEF ControlOK

\* The answer about a row is an answer.
LEMMA ResultType ==
  ASSUME TypeInv, NEW t \in Request, rows[t].status # "NONE", NEW replay \in BOOLEAN
  PROVE  Result(t, replay) \in AnswerType
  <1>1. rows[t] \in RowType
    BY DEF TypeInv, DatabaseOK
  <1> QED
    BY <1>1 DEF RowType, AnswerType, Result

\* The answer of a failed transaction is an answer.
LEMMA FailedType ==
  ASSUME NEW status \in {"NONE", "CONFLICT", "NOT_FOUND", "ERROR"}
  PROVE  Failed(status) \in AnswerType
  BY DEF Failed, AnswerType

\* The answer about a row that was already there is an answer.
LEMMA ReplayType ==
  ASSUME TypeInv, NEW p \in Request, NEW t \in Stored
  PROVE  ReplayOrConflict(p, t) \in AnswerType
  BY ResultType, FailedType DEF ReplayOrConflict, Stored

\* Answering keeps the types of the answers.
LEMMA ReturnKeeps ==
  ASSUME TypeInv, NEW p \in Request, NEW a \in AnswerType, Return(p, a), pc[p] # "idle",
         input' = input, target' = target, LocksMove(p, "done"),
         \A q \in Process \ {p} : uow'[q] = uow[q]
  PROVE  InputsOK' /\ ControlOK'
  <1>1. p \in Process /\ "done" \in Label /\ "done" \notin Staging \cup Checked
    BY DEF Process, Label, Staging, Checked
  <1>2. ControlOK'
    BY <1>1, GoKeeps DEF Return
  <1> QED
    BY <1>2 DEF Return, TypeInv, InputsOK

\* A row that was read carries a submission.
LEMMA StoredKnown ==
  ASSUME TypeInv, NEW t \in Stored
  PROVE  t \in Request /\ Known(t) /\ Submitted(t)
  BY DEF Stored, TypeInv, DatabaseOK, NoRow, Known

\* Whatever a request or a worker decides settles the row it works on.
LEMMA DecideSettles ==
  ASSUME TypeInv, NEW p \in Request, Decide(p)
  PROVE  \E u : Stage(p, u) /\ Settles(uow[p], u, p)
  <1>1. uow[p] \in UowType /\ Submitted(p)
    BY DEF Decide, TypeInv, UowOK, ControlOK, Process
  <1>2. CASE Stage(p, Rejected(uow[p], p, "PLAYER_MISMATCH"))
    BY <1>1, <1>2, RejectedSettles DEF FailureCode
  <1>3. CASE Stage(p, Rejected(uow[p], p, "REFERENCE_NOT_FOUND"))
    BY <1>1, <1>3, RejectedSettles DEF FailureCode
  <1>4. CASE Stage(p, PendingReference(uow[p], p))
    BY <1>1, <1>4, PendingSettles
  <1>5. CASE \E r \in ProcessedReference(input[p].ref) :
               Stage(p, Reverse(uow[p], p, r, input[p].wallet, AlreadyReversed(input[p].ref)))
    BY <1>1, <1>5, StoredKnown, ReverseSettles DEF ProcessedReference, FindByExt
  <1>6. CASE Stage(p, Settled(uow[p], p, input[p].wallet))
    BY <1>1, <1>6, SettledSettles
  <1>7. CASE Stage(p, ApplyToWallet(uow[p], p, None, input[p].wallet))
    BY <1>1, <1>7, ApplyToWalletSettles
  <1> QED
    BY <1>2, <1>3, <1>4, <1>5, <1>6, <1>7 DEF Decide

\* So does what it decides about a row picked up to be retried.
LEMMA RetrySettles ==
  ASSUME TypeInv, NEW k \in Worker, Retry(k)
  PROVE  \E u : Stage(k, u) /\ Settles(uow[k], u, target[k])
  <1> DEFINE t == target[k]
  <1>1. uow[k] \in UowType /\ t \in Request /\ Submitted(t)
    BY DEF Retry, TypeInv, UowOK, ControlOK, Process, Known
  <1>2. CASE Stage(k, Rejected(uow[k], t, "REFERENCE_NOT_FOUND"))
    BY <1>1, <1>2, RejectedSettles DEF FailureCode
  <1>3. CASE \E r \in ProcessedReference(input[t].ref) :
               Stage(k, Reverse(uow[k], t, r, input[t].wallet, AlreadyReversed(input[t].ref)))
    BY <1>1, <1>3, StoredKnown, ReverseSettles DEF ProcessedReference, FindByExt
  <1> QED
    BY <1>2, <1>3 DEF Retry

-----------------------------------------------------------------------------
(* Every action keeps the invariant. *)

\* The initial state has the types.
LEMMA InitTypeInv == Init => TypeInv
  <1> SUFFICES ASSUME Init PROVE TypeInv
    OBVIOUS
  <1> USE DEF Init
  <1>1. ledger \in [Wallet -> Seq(EntryType)]
    <2>1. \A w \in Wallet : Opening[w] > 0 =>
            <<LedgerEntry(OpeningTx, "CREDIT", Opening[w], 0)>> \in Seq(EntryType)
      BY ConstantsAssumption DEF LedgerEntry, EntryType, Direction
    <2> QED
      BY <2>1
  <1>2. wallets \in [Wallet -> WalletType]
    BY ConstantsAssumption DEF WalletType
  <1>3. DatabaseOK
    BY <1>1, <1>2, NoRowType DEF DatabaseOK
  <1>4. UowOK
    BY EmptyUowType DEF UowOK, EmptyUow
  <1>5. InputsOK /\ LocksOK
    BY FailedType DEF InputsOK, LocksOK
  <1>6. ControlOK
    BY ConstantsAssumption DEF ControlOK, Label, Process, Staging, Checked
  <1> QED
    BY <1>3, <1>4, <1>5, <1>6 DEF TypeInv

\* A submission that arrives keeps the types.
LEMMA ArriveTypeInv ==
  ASSUME TypeInv, NEW p \in Request, Arrive(p)
  PROVE  TypeInv'
  <1>1. PICK i \in Inputs : input' = [input EXCEPT ![p] = i]
    BY DEF Arrive
  <1>2. /\ input' \in [Request -> Inputs \cup {None}]
        /\ input'[p] \in Inputs
        /\ \A t \in Request \ {p} : input'[t] = input[t]
    BY <1>1 DEF TypeInv, InputsOK
  <1>3. /\ pc' = [pc EXCEPT ![p] = "checkKey"]
        /\ UNCHANGED <<target, uow, wallets, ledger, rows, outbox, walletLock, rowLock, answer>>
    BY DEF Arrive, Go, Database, Locks
  <1>4. /\ p \in Process /\ p \notin Worker
    BY ConstantsAssumption DEF Process
  <1>5. InputsOK' /\ LocksOK'
    BY <1>2, <1>3 DEF TypeInv, InputsOK, LocksOK
  <1>6. ~Known(p) /\ \A t \in Request : Known(t) => Known(t)'
    BY <1>2, ConstantsAssumption DEF TypeInv, ControlOK, Arrive, Known, Submitted
  <1>7. DatabaseOK' /\ UowOK'
    BY <1>3, <1>6 DEF TypeInv, DatabaseOK, UowOK
  <1>8. ControlOK'
    <2>1. pc' \in [Process -> Label] /\ pc'[p] = "checkKey"
      BY <1>3, <1>4 DEF TypeInv, ControlOK, Label
    <2>2. \A q \in Process \ {p} : pc'[q] = pc[q]
      BY <1>3 DEF TypeInv, ControlOK
    <2>3. \A w \in Wallet : walletLock[w] # p
      BY <1>4 DEF TypeInv, ControlOK, Arrive, Quiet
    <2>4. \A q \in Request : /\ IF pc'[q] = "idle" THEN input'[q] = None ELSE Submitted(q)'
                             /\ pc'[q] \in Staging => uow'[q].writes[q] # NoRow
                             /\ pc'[q] \in Checked => Known(q)'
      BY <1>2, <1>3, <1>6, <2>1, <2>2
         DEF TypeInv, ControlOK, Submitted, Staging, Checked, Process
    <2>5. \A k \in Worker : pc'[k] # "idle" => target'[k] \in Request /\ (Known(target[k]))'
      BY <1>3, <1>4, <1>6, <2>2 DEF TypeInv, ControlOK, Process, Known, Submitted
    <2>6. \A w \in Wallet : \A q \in Process :
            walletLock'[w] = q => pc'[q] \notin Quiet /\ (q \in Request => input'[q].wallet = w)
      BY <1>2, <1>3, <2>2, <2>3 DEF TypeInv, ControlOK
    <2> QED
      BY <2>1, <2>4, <2>5, <2>6 DEF ControlOK
  <1> QED
    BY <1>5, <1>7, <1>8 DEF TypeInv

\* Every step of a request keeps the types.
LEMMA ExecuteStepTypeInv ==
  ASSUME TypeInv, NEW p \in Request, ExecuteStep(p)
  PROVE  TypeInv'
  <1> USE DEF TypeInv
  <1>a. p \in Process /\ uow[p] \in UowType
    BY DEF UowOK, Process
  <1>1. CASE RejectKind(p)
    <2>1. /\ Stage(p, Rejected(uow[p], p, "INVALID_KIND"))
          /\ Go(p, "insert")
          /\ pc[p] = "checkKey"
          /\ UNCHANGED <<input, target, wallets, ledger, rows, outbox, walletLock, rowLock, answer>>
      BY <1>1 DEF RejectKind, Database, Locks
    <2>2. Settles(uow[p], Rejected(uow[p], p, "INVALID_KIND"), p)
      BY <1>a, RejectedSettles DEF FailureCode
    <2>3. /\ UowOK'
          /\ uow'[p].writes[p] # NoRow
          /\ \A q \in Process \ {p} : uow'[q] = uow[q]
      BY <1>a, <2>1, <2>2, StageKeeps
    <2>4. ControlOK'
      BY <1>a, <2>1, <2>3, GoKeeps DEF LocksMove, Quiet, Label, Checked
    <2> QED
      BY <2>1, <2>3, <2>4, DatabaseKept, LocksKept DEF InputsOK, Database, Locks
  <1>2. CASE CheckKey(p)
    <2>1. /\ pc[p] = "checkKey"
          /\ UNCHANGED <<input, target, uow, wallets, ledger, rows, outbox, walletLock, rowLock>>
      BY <1>2 DEF CheckKey, Database, Locks
    <2>2. LocksMove(p, "done") /\ LocksMove(p, "checkExt")
      BY <1>a, <2>1 DEF LocksMove, Quiet, Holding, ControlOK
    <2>3. InputsOK' /\ ControlOK'
      <3>1. CASE \E t \in FindByKey(input[p].key) : Return(p, ReplayOrConflict(p, t))
        BY <2>1, <2>2, <3>1, ReplayType, ReturnKeeps DEF FindByKey
      <3>2. CASE Go(p, "checkExt") /\ UNCHANGED answer
        BY <1>a, <2>1, <2>2, <3>2, GoKeeps DEF InputsOK, Label, Staging, Checked
      <3> QED
        BY <1>2, <3>1, <3>2 DEF CheckKey
    <2> QED
      BY <2>1, <2>3, DatabaseKept, UowKept, LocksKept DEF Database, Locks
  <1>3. CASE CheckExt(p)
    <2>1. /\ pc[p] = "checkExt"
          /\ UNCHANGED <<input, target, uow, wallets, ledger, rows, outbox, walletLock, rowLock>>
      BY <1>3 DEF CheckExt, Database, Locks
    <2>2. LocksMove(p, "done") /\ LocksMove(p, "lockWallet")
      BY <1>a, <2>1 DEF LocksMove, Quiet, Holding, ControlOK
    <2>3. InputsOK' /\ ControlOK'
      <3>1. CASE \E t \in FindByExt(input[p].ext) : Return(p, ReplayOrConflict(p, t))
        BY <2>1, <2>2, <3>1, ReplayType, ReturnKeeps DEF FindByExt
      <3>2. CASE Go(p, "lockWallet") /\ UNCHANGED answer
        BY <1>a, <2>1, <2>2, <3>2, GoKeeps DEF InputsOK, Label, Staging, Checked
      <3> QED
        BY <1>3, <3>1, <3>2 DEF CheckExt
    <2> QED
      BY <2>1, <2>3, DatabaseKept, UowKept, LocksKept DEF Database, Locks
  <1>4. CASE WalletNotFound(p)
    <2>1. /\ pc[p] = "lockWallet"
          /\ Return(p, Failed("NOT_FOUND"))
          /\ UNCHANGED <<input, target, uow, wallets, ledger, rows, outbox, walletLock, rowLock>>
      BY <1>4 DEF WalletNotFound, Database, Locks
    <2>2. LocksMove(p, "done")
      BY <1>a, <2>1 DEF LocksMove, Quiet, Holding, ControlOK
    <2>3. InputsOK' /\ ControlOK'
      BY <2>1, <2>2, FailedType, ReturnKeeps
    <2> QED
      BY <2>1, <2>3, DatabaseKept, UowKept, LocksKept DEF Database, Locks
  <1>5. CASE LockSubmittedWallet(p)
    <2>1. /\ pc[p] = "lockWallet"
          /\ input[p].wallet \in Wallet
          /\ LockWallet(p, input[p].wallet, "decide")
          /\ UNCHANGED <<input, target, wallets, ledger, rows, outbox, rowLock, answer>>
      BY <1>5 DEF LockSubmittedWallet, Database
    <2>2. LocksOK' /\ UowOK' /\ \A q \in Process \ {p} : uow'[q] = uow[q]
      BY <1>a, <2>1, LockKeeps
    <2>3. Known(p) /\ LocksMove(p, "decide") /\ Go(p, "decide")
      BY <2>1 DEF Known, ControlOK, LocksMove, LockWallet, Quiet
    <2>4. ControlOK'
      BY <1>a, <2>1, <2>2, <2>3, GoKeeps DEF Label, Staging
    <2> QED
      BY <2>1, <2>2, <2>4, DatabaseKept DEF InputsOK, Database
  <1>6. CASE Decide(p)
    <2>1. /\ pc[p] = "decide"
          /\ Go(p, "insert")
          /\ UNCHANGED <<input, target, wallets, ledger, rows, outbox, walletLock, rowLock, answer>>
      BY <1>6 DEF Decide, Database, Locks
    <2>2. Submitted(p)
      BY <2>1 DEF ControlOK
    <2>3. \E u : Stage(p, u) /\ Settles(uow[p], u, p)
      BY <1>6, DecideSettles
    <2>4. /\ UowOK'
          /\ uow'[p].writes[p] # NoRow
          /\ \A q \in Process \ {p} : uow'[q] = uow[q]
      BY <1>a, <2>1, <2>3, StageKeeps
    <2>5. ControlOK'
      BY <1>a, <2>1, <2>4, GoKeeps DEF LocksMove, Quiet, Label, Checked
    <2> QED
      BY <2>1, <2>4, <2>5, DatabaseKept, LocksKept DEF InputsOK, Database, Locks
  <1>7. CASE Insert(p)
    <2>1. pc[p] = "insert" /\ UNCHANGED <<input, target, answer>>
      BY <1>7 DEF Insert
    <2>2. CASE Rollback(p) /\ Go(p, "lost")
      <3>1. Release(p) /\ LocksMove(p, "lost") /\ UNCHANGED Database
        BY <2>2 DEF Rollback, LocksMove
      <3>2. LocksOK' /\ UowOK' /\ \A q \in Process \ {p} : uow'[q] = uow[q]
        BY <1>a, <2>1, <3>1, ReleaseKeeps
      <3>3. ControlOK'
        BY <1>a, <2>1, <2>2, <3>1, <3>2, GoKeeps DEF Label, Staging, Checked
      <3> QED
        BY <2>1, <3>1, <3>2, <3>3, DatabaseKept DEF InputsOK
    <2>3. CASE /\ Go(p, IF Holding(p) = {} THEN "fk"
                        ELSE IF uow[p].writes[p].status = "PROCESSED" THEN "find" ELSE "commit")
               /\ UNCHANGED <<uow, Database, Locks>>
      <3> DEFINE label == IF Holding(p) = {} THEN "fk"
                          ELSE IF uow[p].writes[p].status = "PROCESSED" THEN "find" ELSE "commit"
      <3>1. label \in Label /\ label # "idle"
        BY DEF Label
      <3>2. uow'[p].writes[p] # NoRow
        BY <2>1, <2>3 DEF ControlOK, Staging
      <3>3. label \in Checked => Known(p)
        BY <1>a, <2>1 DEF Checked, Holding, ControlOK, Known
      <3>4. LocksMove(p, label)
        BY <2>3 DEF LocksMove, Quiet, Locks
      <3> HIDE DEF label
      <3>5. ControlOK'
        BY <1>a, <2>1, <2>3, <3>1, <3>2, <3>3, <3>4, GoKeeps DEF label
      <3> QED
        BY <2>1, <2>3, <3>5, DatabaseKept, UowKept, LocksKept DEF InputsOK
    <2> QED
      BY <1>7, <2>2, <2>3 DEF Insert
  <1>8. CASE CheckForeignKey(p)
    <2>1. pc[p] = "fk" /\ UNCHANGED <<input, target>>
      BY <1>8 DEF CheckForeignKey
    <2>2. CASE Rollback(p) /\ Return(p, Failed("ERROR"))
      <3>1. Release(p) /\ LocksMove(p, "done") /\ UNCHANGED Database
        BY <2>2 DEF Rollback, LocksMove
      <3>2. LocksOK' /\ UowOK' /\ \A q \in Process \ {p} : uow'[q] = uow[q]
        BY <1>a, <2>1, <3>1, ReleaseKeeps
      <3>3. InputsOK' /\ ControlOK'
        BY <2>1, <2>2, <3>1, <3>2, FailedType, ReturnKeeps
      <3> QED
        BY <2>1, <3>1, <3>2, <3>3, DatabaseKept
    <2>3. CASE /\ input[p].wallet \in Wallet
               /\ Go(p, "commit")
               /\ UNCHANGED <<uow, Database, Locks, answer>>
      <3>1. uow'[p].writes[p] # NoRow /\ Known(p)
        BY <2>1, <2>3 DEF ControlOK, Staging, Known
      <3>2. LocksMove(p, "commit")
        BY <2>3 DEF LocksMove, Quiet, Locks
      <3>3. ControlOK'
        BY <1>a, <2>1, <2>3, <3>1, <3>2, GoKeeps DEF Label
      <3> QED
        BY <2>1, <2>3, <3>3, DatabaseKept, UowKept, LocksKept DEF InputsOK
    <2> QED
      BY <1>8, <2>2, <2>3 DEF CheckForeignKey
  <1>9. CASE LostRace(p)
    <2>1. /\ pc[p] = "lost"
          /\ UNCHANGED <<input, target, uow, wallets, ledger, rows, outbox, walletLock, rowLock>>
      BY <1>9 DEF LostRace, Database, Locks
    <2>2. LocksMove(p, "done")
      BY <1>a, <2>1 DEF LocksMove, Quiet, Holding, ControlOK
    <2>3. Winners(p) \subseteq Stored
      BY DEF Winners, FindByKey, FindByExt
    <2>4. \E a \in AnswerType : Return(p, a)
      BY <1>9, <2>3, ReplayType, FailedType DEF LostRace
    <2>5. InputsOK' /\ ControlOK'
      BY <2>1, <2>2, <2>4, ReturnKeeps
    <2> QED
      BY <2>1, <2>5, DatabaseKept, UowKept, LocksKept DEF Database, Locks
  <1>10. CASE FindPending(p)
    <2> DEFINE todo == PendingFor(input[p].ext)
               u == [uow[p] EXCEPT !.todo = todo, !.reversed = AlreadyReversed(input[p].ext)]
    <2>1. /\ pc[p] = "find"
          /\ uow' = [uow EXCEPT ![p] = u]
          /\ UNCHANGED <<input, target, wallets, ledger, rows, outbox, walletLock, rowLock, answer>>
      BY <1>10 DEF FindPending, Database, Locks
    <2>2. todo \subseteq Request /\ \A t \in todo : Known(t)
      BY StoredKnown DEF PendingFor
    <2>3. AlreadyReversed(input[p].ext) \in BOOLEAN
      BY DEF AlreadyReversed
    <2>4. u \in UowType /\ u.todo = todo /\ u.writes = uow[p].writes
      BY <1>a, <2>2, <2>3 DEF UowType
    <2>5. \E label \in {"commit", "resolve"} : Go(p, label)
      BY <1>10 DEF FindPending
    <2> HIDE DEF u, todo
    <2>6. UowOK' /\ uow'[p] = u /\ \A q \in Process \ {p} : uow'[q] = uow[q]
      BY <1>a, <2>1, <2>2, <2>4 DEF UowOK, Known, Submitted
    <2>7. uow'[p].writes[p] # NoRow /\ Known(p)
      BY <2>1, <2>4, <2>6 DEF ControlOK, Staging, Checked
    <2>8. ControlOK'
      BY <1>a, <2>1, <2>5, <2>6, <2>7, GoKeeps DEF LocksMove, Quiet, Label
    <2> QED
      BY <2>1, <2>6, <2>8, DatabaseKept, LocksKept DEF InputsOK, Database, Locks
  <1>11. CASE \E t \in Request : ResolvePending(p, t)
    <2> PICK t \in Request : ResolvePending(p, t)
      BY <1>11
    <2> DEFINE u == Reverse(uow[p], t, p, input[p].wallet, uow[p].reversed)
               v == [u EXCEPT !.todo = uow[p].todo \ {t},
                              !.reversed = @ \/ u.writes[t].status = "PROCESSED"]
    <2>1. /\ pc[p] = "resolve"
          /\ t \in uow[p].todo
          /\ uow' = [uow EXCEPT ![p] = v]
          /\ rowLock' = [rowLock EXCEPT ![t] = p]
          /\ UNCHANGED <<input, target, wallets, ledger, rows, outbox, walletLock, answer>>
      BY DEF ResolvePending, Stage, Database
    <2>2. Known(t) /\ Known(p) /\ Submitted(t) /\ Submitted(p)
      BY <1>a, <2>1 DEF UowOK, ControlOK, Checked, Known
    <2>3. Settles(uow[p], u, t)
      BY <1>a, <2>2, ReverseSettles
    <2>4. /\ v \in UowType
          /\ v.todo \subseteq uow[p].todo
          /\ \A s \in Request \ {t} : v.writes[s] = uow[p].writes[s]
          /\ v.writes[t] # NoRow
      BY <2>3 DEF Settles, UowType
    <2>5. \E label \in {"commit", "resolve"} : Go(p, label)
      BY DEF ResolvePending
    <2> HIDE DEF u, v
    <2>6. UowOK' /\ uow'[p] = v /\ \A q \in Process \ {p} : uow'[q] = uow[q]
      BY <1>a, <2>1, <2>2, <2>4 DEF UowOK, Known, Submitted
    <2>7. uow'[p].writes[p] # NoRow
      BY <2>1, <2>4, <2>6 DEF ControlOK, Staging
    <2>8. LocksOK'
      BY <1>a, <2>1 DEF LocksOK
    <2>9. ControlOK'
      BY <1>a, <2>1, <2>2, <2>5, <2>6, <2>7, GoKeeps DEF LocksMove, Quiet, Label
    <2> QED
      BY <2>1, <2>6, <2>8, <2>9, DatabaseKept DEF InputsOK, Database
  <1>12. CASE Commit(p)
    <2>1. /\ pc[p] = "commit"
          /\ Apply(p) /\ Release(p) /\ Return(p, FirstAnswer(p))
          /\ UNCHANGED <<input, target>>
      BY <1>12 DEF Commit
    <2>2. uow[p].writes[p] # NoRow /\ Known(p)
      BY <2>1 DEF ControlOK, Staging, Checked
    <2>3. FirstAnswer(p) \in AnswerType
      <3>1. uow[p].writes[p] \in RowType /\ uow[p].wallet.balance \in Nat
        BY <1>a DEF UowType, WalletType
      <3>2. uow[p].writes[p].status # "NONE"
        BY <2>2, <3>1 DEF RowType, NoRow, TypeInv
      <3> QED
        BY <3>1, <3>2 DEF FirstAnswer, AnswerType, RowType
    <2>4. DatabaseOK'
      BY <1>a, <2>1, <2>2, ApplyKeeps
    <2>5. LocksOK' /\ UowOK' /\ \A q \in Process \ {p} : uow'[q] = uow[q]
      BY <1>a, <2>1, ReleaseKeeps
    <2>6. InputsOK' /\ ControlOK'
      BY <2>1, <2>3, <2>5, ReturnKeeps DEF LocksMove
    <2> QED
      BY <2>4, <2>5, <2>6
  <1> QED
    BY <1>1, <1>2, <1>3, <1>4, <1>5, <1>6, <1>7, <1>8, <1>9, <1>10, <1>11, <1>12
       DEF ExecuteStep

\* A request that fails keeps the types.
LEMMA AbortRequestTypeInv ==
  ASSUME TypeInv, NEW p \in Request, AbortRequest(p)
  PROVE  TypeInv'
  <1>1. /\ p \in Process /\ pc[p] # "idle"
        /\ Release(p) /\ Return(p, Failed("ERROR")) /\ LocksMove(p, "done")
        /\ UNCHANGED <<input, target>> /\ UNCHANGED Database
    BY DEF AbortRequest, Rollback, Process, LocksMove
  <1>2. LocksOK' /\ UowOK' /\ \A q \in Process \ {p} : uow'[q] = uow[q]
    BY <1>1, ReleaseKeeps
  <1>3. InputsOK' /\ ControlOK'
    BY <1>1, <1>2, FailedType, ReturnKeeps
  <1> QED
    BY <1>1, <1>2, <1>3, DatabaseKept DEF TypeInv

\* A worker that picks a row to retry keeps the types.
LEMMA PickTypeInv ==
  ASSUME TypeInv, NEW k \in Worker, Pick(k)
  PROVE  TypeInv'
  <1>1. PICK t \in Stored : target' = [target EXCEPT ![k] = t]
    BY DEF Pick
  <1>2. t \in Request /\ Known(t)
    BY StoredKnown
  <1>3. k \in Process /\ k \notin Request
    BY ConstantsAssumption DEF Process
  <1>4. /\ pc[k] = "idle" /\ pc' = [pc EXCEPT ![k] = "lockWallet"]
        /\ UNCHANGED <<input, uow, wallets, ledger, rows, outbox, walletLock, rowLock, answer>>
    BY DEF Pick, Go, Database, Locks
  <1>5. InputsOK'
    BY <1>1, <1>2, <1>4 DEF TypeInv, InputsOK
  <1>6. ControlOK'
    <2>1. pc' \in [Process -> Label] /\ pc'[k] = "lockWallet"
      BY <1>3, <1>4 DEF TypeInv, ControlOK, Label
    <2>2. \A q \in Process \ {k} : pc'[q] = pc[q]
      BY <1>4 DEF TypeInv, ControlOK
    <2>3. \A q \in Worker : pc'[q] # "idle" => target'[q] \in Request /\ (Known(target[q]))'
      BY <1>1, <1>2, <1>4, <2>2 DEF TypeInv, InputsOK, ControlOK, Process, Known, Submitted
    <2>4. \A q \in Request : /\ IF pc'[q] = "idle" THEN input'[q] = None ELSE Submitted(q)'
                             /\ pc'[q] \in Staging => uow'[q].writes[q] # NoRow
                             /\ pc'[q] \in Checked => Known(q)'
      BY <1>3, <1>4, <2>2 DEF TypeInv, ControlOK, Process, Known, Submitted
    <2>5. \A w \in Wallet : walletLock[w] # k
      BY <1>3, <1>4 DEF TypeInv, ControlOK, Quiet
    <2>6. \A w \in Wallet : \A q \in Process :
            walletLock'[w] = q => pc'[q] \notin Quiet /\ (q \in Request => input'[q].wallet = w)
      BY <1>4, <2>2, <2>5 DEF TypeInv, ControlOK
    <2> QED
      BY <2>1, <2>3, <2>4, <2>6 DEF ControlOK
  <1> QED
    BY <1>4, <1>5, <1>6, DatabaseKept, UowKept, LocksKept DEF TypeInv, Database, Locks

\* Every step of a worker keeps the types.
LEMMA RetryStepTypeInv ==
  ASSUME TypeInv, NEW k \in Worker, RetryStep(k)
  PROVE  TypeInv'
  <1> USE DEF TypeInv
  <1>a. k \in Process /\ k \notin Request /\ uow[k] \in UowType
    BY ConstantsAssumption DEF UowOK, Process
  <1>b. pc[k] # "idle" /\ UNCHANGED <<input, target, answer>>
    BY DEF RetryStep, WorkerLockWallet, WorkerLockRow, PutOff, Retry, WorkerCommit
  <1>c. target[k] \in Request /\ Known(target[k]) /\ Submitted(target[k])
    BY <1>b DEF ControlOK, Known
  <1>d. InputsOK'
    BY <1>b DEF InputsOK
  <1>e. ASSUME Release(k), Go(k, "idle"), UNCHANGED Database
        PROVE  TypeInv'
    <2>1. LocksOK' /\ UowOK' /\ \A q \in Process \ {k} : uow'[q] = uow[q]
      BY <1>a, <1>b, <1>e, ReleaseKeeps
    <2>2. ControlOK'
      BY <1>a, <1>b, <1>e, <2>1, GoKeeps DEF LocksMove, Label
    <2> QED
      BY <1>b, <1>d, <1>e, <2>1, <2>2, DatabaseKept
  <1>1. CASE WorkerLockWallet(k)
    <2>1. /\ LockWallet(k, input[target[k]].wallet, "lockRow")
          /\ UNCHANGED <<wallets, ledger, rows, outbox, rowLock>>
      BY <1>1 DEF WorkerLockWallet, WalletOf, Database
    <2>2. LocksOK' /\ UowOK' /\ \A q \in Process \ {k} : uow'[q] = uow[q]
      BY <1>a, <1>b, <1>c, <2>1, LockKeeps DEF Known
    <2>3. LocksMove(k, "lockRow") /\ Go(k, "lockRow")
      BY <1>a, <1>c, <2>1 DEF LocksMove, Known, Quiet, LockWallet
    <2>4. ControlOK'
      BY <1>a, <1>b, <2>2, <2>3, GoKeeps DEF Label
    <2> QED
      BY <1>b, <1>d, <2>1, <2>2, <2>4, DatabaseKept DEF Database
  <1>2. CASE WorkerLockRow(k)
    <2>1. UNCHANGED Database
      BY <1>2 DEF WorkerLockRow
    <2>2. CASE /\ rowLock' = [rowLock EXCEPT ![target[k]] = k]
               /\ Go(k, "decide")
               /\ UNCHANGED <<uow, walletLock>>
      <3>1. LocksOK'
        BY <1>a, <1>c, <2>2 DEF LocksOK
      <3>2. ControlOK'
        BY <1>a, <1>b, <2>2, GoKeeps DEF LocksMove, Quiet, Label
      <3> QED
        BY <1>b, <1>d, <2>1, <2>2, <3>1, <3>2, DatabaseKept, UowKept
    <2>3. CASE Release(k) /\ Go(k, "idle")
      BY <1>e, <2>1, <2>3
    <2> QED
      BY <1>2, <2>2, <2>3 DEF WorkerLockRow
  <1>3. CASE PutOff(k)
    BY <1>3, <1>e DEF PutOff, Rollback
  <1>4. CASE Retry(k)
    <2> DEFINE t == target[k]
    <2>1. Go(k, "commit") /\ UNCHANGED <<wallets, ledger, rows, outbox, walletLock, rowLock>>
      BY <1>4 DEF Retry, Database, Locks
    <2>2. \E u : Stage(k, u) /\ Settles(uow[k], u, t)
      BY <1>4, RetrySettles
    <2>3. UowOK' /\ \A q \in Process \ {k} : uow'[q] = uow[q]
      BY <1>a, <1>b, <1>c, <2>2, StageKeeps
    <2>4. ControlOK'
      BY <1>a, <1>b, <2>1, <2>3, GoKeeps DEF LocksMove, Quiet, Label
    <2> QED
      BY <1>b, <1>d, <2>1, <2>3, <2>4, DatabaseKept, LocksKept DEF Database, Locks
  <1>5. CASE WorkerCommit(k)
    <2>1. Apply(k) /\ Release(k) /\ Go(k, "idle")
      BY <1>5 DEF WorkerCommit
    <2>2. DatabaseOK'
      BY <1>a, <1>b, <2>1, ApplyKeeps
    <2>3. LocksOK' /\ UowOK' /\ \A q \in Process \ {k} : uow'[q] = uow[q]
      BY <1>a, <1>b, <2>1, ReleaseKeeps
    <2>4. ControlOK'
      BY <1>a, <1>b, <2>1, <2>3, GoKeeps DEF LocksMove, Label
    <2> QED
      BY <1>d, <2>2, <2>3, <2>4
  <1> QED
    BY <1>1, <1>2, <1>3, <1>4, <1>5 DEF RetryStep

\* A worker that fails keeps the types.
LEMMA AbortWorkerTypeInv ==
  ASSUME TypeInv, NEW k \in Worker, AbortWorker(k)
  PROVE  TypeInv'
  <1>1. /\ k \in Process /\ k \notin Request /\ pc[k] # "idle"
        /\ Release(k) /\ Go(k, "idle") /\ LocksMove(k, "idle")
        /\ UNCHANGED <<input, target, answer>> /\ UNCHANGED Database
    BY ConstantsAssumption DEF AbortWorker, Rollback, Process, LocksMove
  <1>2. LocksOK' /\ UowOK' /\ \A q \in Process \ {k} : uow'[q] = uow[q]
    BY <1>1, ReleaseKeeps
  <1>3. ControlOK'
    BY <1>1, <1>2, GoKeeps DEF Label
  <1>4. InputsOK'
    BY <1>1 DEF TypeInv, InputsOK
  <1> QED
    BY <1>1, <1>2, <1>3, <1>4, DatabaseKept DEF TypeInv

\* Every step of the system keeps the types.
LEMMA NextTypeInv == TypeInv /\ [Next]_vars => TypeInv'
  <1> SUFFICES ASSUME TypeInv, [Next]_vars PROVE TypeInv'
    OBVIOUS
  <1>1. CASE \E p \in Request : Arrive(p) \/ ExecuteStep(p) \/ AbortRequest(p)
    BY <1>1, ArriveTypeInv, ExecuteStepTypeInv, AbortRequestTypeInv
  <1>2. CASE \E k \in Worker : Pick(k) \/ RetryStep(k) \/ AbortWorker(k)
    BY <1>2, PickTypeInv, RetryStepTypeInv, AbortWorkerTypeInv
  <1>3. CASE UNCHANGED vars
    <2>1. UNCHANGED Database /\ UNCHANGED Locks /\ UNCHANGED <<input, target, pc, uow, answer>>
      BY <1>3 DEF vars, Database, Locks
    <2>2. InputsOK' /\ ControlOK'
      BY <2>1 DEF TypeInv, InputsOK, ControlOK, Known, Submitted, Locks
    <2> QED
      BY <2>1, <2>2, DatabaseKept, UowKept, LocksKept DEF TypeInv
  <1> QED
    BY <1>1, <1>2, <1>3 DEF Next

\* TypeInv is stronger than TypeOK.
LEMMA TypeInvImpliesTypeOK == TypeInv => TypeOK
  BY DEF TypeInv, TypeOK, InputsOK, DatabaseOK, UowOK, LocksOK, ControlOK, Submitted

\* TypeInv is an invariant of the specification.
LEMMA TypeInvHolds == Spec => []TypeInv
  BY InitTypeInv, NextTypeInv, PTL DEF Spec

\* Every behaviour keeps the types, so no balance a process computes or commits is
\* ever negative, and every answer carries what its status promises.
THEOREM TypeCorrect == Spec => []TypeOK
  BY TypeInvHolds, TypeInvImpliesTypeOK, PTL

-----------------------------------------------------------------------------
(* The ledgers. *)

\* LedgerSound is about committed tables only.  What makes it inductive is that the
\* holder of a wallet's lock sees the balance its own entries would leave behind.
HolderInSync ==
  \A w \in Wallet : \A p \in Process :
    walletLock[w] = p => Chained(ledger[w] \o uow[p].entries, uow[p].wallet.balance)

\* Nobody decides about a wallet, or has entries to append to it, without its lock.
Deciding == {"lockRow", "decide", "find", "resolve"}
Holds(p) == WalletOf(p) \in Wallet /\ walletLock[WalletOf(p)] = p
LockHeld ==
  \A p \in Process : pc[p] \in Deciding \/ uow[p].entries # <<>> => Holds(p)

LedgerInv == LedgerSound /\ HolderInSync /\ LockHeld

-----------------------------------------------------------------------------
\* A chain that ends at b, extended by a sound entry that starts at b, is a chain.
LEMMA ChainGrows ==
  ASSUME NEW s \in Seq(EntryType), NEW b, Chained(s, b),
         NEW e \in EntryType, EntrySound(e), e.before = b
  PROVE  Chained(Append(s, e), e.after)
  <1> DEFINE t == Append(s, e)
  <1>1. /\ Len(t) = Len(s) + 1 /\ t # <<>>
        /\ t[Len(s) + 1] = e
        /\ \A n \in 1..Len(s) : t[n] = s[n]
        /\ Len(s) \in Nat
    OBVIOUS
  <1>2. b = IF s = <<>> THEN 0 ELSE s[Len(s)].after
    BY DEF Chained
  <1>3. s = <<>> <=> Len(s) = 0
    OBVIOUS
  <1> HIDE DEF t
  <1>4. ASSUME NEW n \in 1..Len(t)
        PROVE  /\ EntrySound(t[n])
               /\ t[n].before = IF n = 1 THEN 0 ELSE t[n - 1].after
    <2>1. CASE n \in 1..Len(s)
      <3>1. t[n] = s[n] /\ (n # 1 => t[n - 1] = s[n - 1])
        BY <1>1, <2>1
      <3> QED
        BY <2>1, <3>1 DEF Chained
    <2>2. CASE n = Len(s) + 1
      <3>1. t[n] = e
        BY <1>1, <2>2
      <3>2. CASE s = <<>>
        BY <1>2, <1>3, <2>2, <3>1, <3>2
      <3>3. CASE s # <<>>
        <4>1. n # 1 /\ n - 1 = Len(s) /\ Len(s) \in 1..Len(s)
          BY <1>1, <1>3, <2>2, <3>3
        <4> QED
          BY <1>1, <1>2, <3>1, <3>3, <4>1
      <3> QED
        BY <3>2, <3>3
    <2> QED
      BY <1>1, <2>1, <2>2
  <1> QED
    BY <1>1, <1>4 DEF Chained, t

\* Settling a row keeps the staged entries a continuation of the ledger.
LEMMA MovesKeepChain ==
  ASSUME NEW l \in Seq(EntryType), NEW u \in UowType, NEW v \in UowType, Moves(u, v),
         Chained(l \o u.entries, u.wallet.balance)
  PROVE  Chained(l \o v.entries, v.wallet.balance)
  <1>1. CASE v.wallet = u.wallet /\ v.entries = u.entries
    BY <1>1
  <1>2. CASE \E e \in EntryType : /\ EntrySound(e)
                                  /\ e.before = u.wallet.balance
                                  /\ v.wallet.balance = e.after
                                  /\ v.entries = Append(u.entries, e)
    <2> PICK e \in EntryType : /\ EntrySound(e)
                               /\ e.before = u.wallet.balance
                               /\ v.wallet.balance = e.after
                               /\ v.entries = Append(u.entries, e)
      BY <1>2
    <2>1. u.entries \in Seq(EntryType)
      BY DEF UowType
    <2>2. l \o Append(u.entries, e) = Append(l \o u.entries, e)
      BY <2>1
    <2>3. l \o u.entries \in Seq(EntryType)
      BY <2>1
    <2> QED
      BY <2>2, <2>3, ChainGrows
  <1> QED
    BY <1>1, <1>2 DEF Moves

\* A ledger with nothing staged is the ledger.
LEMMA ConcatNothing ==
  ASSUME NEW s \in Seq(EntryType)
  PROVE  s \o <<>> = s
  OBVIOUS

-----------------------------------------------------------------------------
(* The four things a step of process p can do to ledgers, balances and locks. *)

\* It leaves alone where the others are, what they have staged, and whose money they move.
Others(p) ==
  \A q \in Process \ {p} :
    /\ uow'[q] = uow[q] /\ pc'[q] = pc[q]
    /\ pc[q] # "idle" => WalletOf(q)' = WalletOf(q)
Tables == <<wallets, ledger>>

\* A process that is not in a transaction has staged no entries.
LEMMA QuietHasNothing ==
  ASSUME TypeInv, LedgerInv, NEW p \in Process, pc[p] \in Quiet
  PROVE  ~Holds(p) /\ uow[p].entries = <<>>
  BY DEF LedgerInv, LockHeld, Holds, TypeInv, ControlOK

\* It works on its unit of work.
LEMMA WorkKeeps ==
  ASSUME TypeInv, TypeInv', LedgerInv, NEW p \in Process, Others(p),
         UNCHANGED Tables, walletLock' = walletLock, Moves(uow[p], uow'[p]),
         pc'[p] \in Deciding \/ uow'[p].entries # <<>> => Holds(p)'
  PROVE  LedgerInv'
  <1>1. LedgerSound'
    BY DEF LedgerInv, LedgerSound, Tables
  <1>2. LockHeld'
    <2> SUFFICES ASSUME NEW q \in Process, pc'[q] \in Deciding \/ uow'[q].entries # <<>>, q # p
                 PROVE  Holds(q)'
      BY DEF LockHeld
    <2>1. Holds(q)
      BY DEF Others, LedgerInv, LockHeld
    <2>2. pc[q] # "idle"
      BY <2>1 DEF Holds, TypeInv, ControlOK, Quiet
    <2> QED
      BY <2>1, <2>2 DEF Others, Holds
  <1>3. HolderInSync'
    <2> SUFFICES ASSUME NEW w \in Wallet, NEW q \in Process, walletLock[w] = q
                 PROVE  Chained(ledger[w] \o uow'[q].entries, uow'[q].wallet.balance)
      BY DEF HolderInSync, Tables
    <2>1. Chained(ledger[w] \o uow[q].entries, uow[q].wallet.balance)
      BY DEF LedgerInv, HolderInSync
    <2>2. CASE q = p
      <3>1. ledger[w] \in Seq(EntryType) /\ uow[p] \in UowType /\ uow'[p] \in UowType
        BY DEF TypeInv, DatabaseOK, UowOK
      <3> QED
        BY <2>1, <2>2, <3>1, MovesKeepChain
    <2>3. CASE q # p
      BY <2>1, <2>3 DEF Others
    <2> QED
      BY <2>2, <2>3
  <1> QED
    BY <1>1, <1>2, <1>3 DEF LedgerInv

\* It takes its wallet's lock and reads the wallet.
LEMMA LockKeepsLedger ==
  ASSUME TypeInv, LedgerInv, NEW p \in Process, NEW label, WalletOf(p) \in Wallet,
         pc[p] = "lockWallet", LockWallet(p, WalletOf(p), label), UNCHANGED Tables,
         input' = input, target' = target
  PROVE  LedgerInv'
  <1> DEFINE w == WalletOf(p)
  <1>1. /\ walletLock' = [walletLock EXCEPT ![w] = p]
        /\ walletLock[w] = None
        /\ uow'[p] = [uow[p] EXCEPT !.wallet = wallets[w]]
        /\ \A q \in Process \ {p} : uow'[q] = uow[q] /\ pc'[q] = pc[q]
        /\ \A q \in Process : WalletOf(q)' = WalletOf(q)
    BY DEF LockWallet, WalletFree, Go, TypeInv, UowOK, ControlOK, WalletOf
  <1> HIDE DEF w
  <1>2. uow[p].entries = <<>> /\ uow'[p].entries = <<>> /\ uow'[p].wallet = wallets[w]
    BY <1>1, QuietHasNothing DEF Quiet, TypeInv, UowOK, UowType
  <1>3. \A v \in Wallet : walletLock[v] # p
    BY DEF TypeInv, ControlOK, Quiet
  <1>4. LedgerSound'
    BY DEF LedgerInv, LedgerSound, Tables
  <1>5. LockHeld'
    <2> SUFFICES ASSUME NEW q \in Process, pc'[q] \in Deciding \/ uow'[q].entries # <<>>
                 PROVE  Holds(q)'
      BY DEF LockHeld
    <2>1. CASE q = p
      BY <1>1, <2>1 DEF Holds, w, TypeInv, LocksOK
    <2>2. CASE q # p
      <3>1. Holds(q) /\ q # None
        BY <1>1, <2>2, ConstantsAssumption DEF LedgerInv, LockHeld, Process
      <3> QED
        BY <1>1, <3>1 DEF Holds, TypeInv, LocksOK
    <2> QED
      BY <2>1, <2>2
  <1>6. HolderInSync'
    <2> SUFFICES ASSUME NEW v \in Wallet, NEW q \in Process, walletLock'[v] = q
                 PROVE  Chained(ledger[v] \o uow'[q].entries, uow'[q].wallet.balance)
      BY DEF HolderInSync, Tables
    <2>1. CASE v = w
      <3>1. q = p
        BY <1>1, <2>1 DEF TypeInv, LocksOK
      <3>2. ledger[w] \o <<>> = ledger[w]
        BY <2>1, ConcatNothing DEF TypeInv, DatabaseOK
      <3> QED
        BY <1>2, <2>1, <3>1, <3>2 DEF LedgerInv, LedgerSound
    <2>2. CASE v # w
      BY <1>1, <1>3, <2>2 DEF LedgerInv, HolderInSync, TypeInv, LocksOK
    <2> QED
      BY <2>1, <2>2
  <1> QED
    BY <1>4, <1>5, <1>6 DEF LedgerInv

\* It gives its locks back, having committed or not.
LEMMA ReleaseKeepsSync ==
  ASSUME TypeInv, LedgerInv, NEW p \in Process, Release(p), Others(p), pc'[p] \notin Deciding,
         \A w \in Wallet : walletLock[w] # p => ledger'[w] = ledger[w]
  PROVE  HolderInSync' /\ LockHeld'
  <1>1. /\ uow'[p] = EmptyUow
        /\ \A w \in Wallet : walletLock'[w] # p /\ walletLock'[w] \in {None, walletLock[w]}
        /\ \A w \in Wallet : walletLock[w] # p => walletLock'[w] = walletLock[w]
    BY ConstantsAssumption DEF Release, Process, TypeInv, UowOK
  <1>2. LockHeld'
    <2> SUFFICES ASSUME NEW q \in Process, pc'[q] \in Deciding \/ uow'[q].entries # <<>>
                 PROVE  Holds(q)'
      BY DEF LockHeld
    <2>1. q # p
      BY <1>1 DEF EmptyUow
    <2>2. Holds(q) /\ pc[q] # "idle"
      BY <2>1, QuietHasNothing DEF Others, LedgerInv, LockHeld, Quiet
    <2> QED
      BY <1>1, <2>1, <2>2 DEF Others, Holds
  <1>3. HolderInSync'
    <2> SUFFICES ASSUME NEW w \in Wallet, NEW q \in Process, walletLock'[w] = q
                 PROVE  Chained(ledger'[w] \o uow'[q].entries, uow'[q].wallet.balance)
      BY DEF HolderInSync
    <2>1. q # p /\ walletLock[w] = q /\ ledger'[w] = ledger[w] /\ uow'[q] = uow[q]
      BY <1>1, ConstantsAssumption DEF Process, Others
    <2> QED
      BY <2>1 DEF LedgerInv, HolderInSync
  <1> QED
    BY <1>2, <1>3

\* A rollback leaves the tables alone and gives the locks back.
LEMMA RollbackKeepsLedger ==
  ASSUME TypeInv, LedgerInv, NEW p \in Process, Release(p), Others(p), pc'[p] \notin Deciding,
         UNCHANGED Tables
  PROVE  LedgerInv'
  <1>1. LedgerSound'
    BY DEF LedgerInv, LedgerSound, Tables
  <1>2. HolderInSync' /\ LockHeld'
    BY ReleaseKeepsSync DEF Tables
  <1> QED
    BY <1>1, <1>2 DEF LedgerInv

\* A commit appends the staged entries and writes the balance they lead to.
LEMMA CommitKeepsLedger ==
  ASSUME TypeInv, LedgerInv, NEW p \in Process, Apply(p), Release(p), Others(p),
         pc'[p] \notin Deciding
  PROVE  LedgerInv'
  <1>1. ASSUME NEW w \in Wallet, ~(w = WalletOf(p) /\ uow[p].entries # <<>>)
        PROVE  ledger'[w] = ledger[w] /\ wallets'[w] = wallets[w]
    BY <1>1, ConcatNothing DEF Apply, TypeInv, DatabaseOK
  <1>2. ASSUME NEW w \in Wallet, w = WalletOf(p), uow[p].entries # <<>>
        PROVE  walletLock[w] = p /\ Chained(ledger'[w], wallets'[w].balance)
    <2>1. walletLock[w] = p
      BY <1>2 DEF LedgerInv, LockHeld, Holds
    <2>2. Chained(ledger[w] \o uow[p].entries, uow[p].wallet.balance)
      BY <2>1 DEF LedgerInv, HolderInSync
    <2> QED
      BY <1>2, <2>1, <2>2 DEF Apply
  <1>3. LedgerSound'
    BY <1>1, <1>2 DEF LedgerInv, LedgerSound
  <1>4. HolderInSync' /\ LockHeld'
    BY <1>1, <1>2, ReleaseKeepsSync
  <1> QED
    BY <1>3, <1>4 DEF LedgerInv

-----------------------------------------------------------------------------
(* Every step is one of them. *)

\* A step of p through Go is a step of nobody else.
LEMMA GoOthers ==
  ASSUME TypeInv, NEW p \in Process, NEW label, Go(p, label),
         \A q \in Process \ {p} : uow'[q] = uow[q],
         input' = input, target' = target
  PROVE  Others(p) /\ pc'[p] = label /\ WalletOf(p)' = WalletOf(p)
  BY DEF Others, Go, TypeInv, ControlOK, WalletOf

\* A step that leaves the unit of work alone.
LEMMA MoveOnKeepsLedger ==
  ASSUME TypeInv, TypeInv', LedgerInv, NEW p \in Process, NEW label, Go(p, label),
         UNCHANGED uow, UNCHANGED Tables, walletLock' = walletLock,
         input' = input, target' = target, label \in Deciding => Holds(p)
  PROVE  LedgerInv'
  <1>1. Others(p) /\ pc'[p] = label /\ WalletOf(p)' = WalletOf(p)
    BY GoOthers
  <1>2. Moves(uow[p], uow'[p])
    BY DEF Moves
  <1>3. uow'[p].entries # <<>> => Holds(p)
    BY DEF LedgerInv, LockHeld
  <1> QED
    BY <1>1, <1>2, <1>3, WorkKeeps DEF Holds

\* A step that settles a row, or begins to look for rows to settle.
LEMMA SettlingKeepsLedger ==
  ASSUME TypeInv, TypeInv', LedgerInv, NEW p \in Process, NEW label, Go(p, label),
         UNCHANGED Tables, walletLock' = walletLock, input' = input, target' = target,
         NEW u, Stage(p, u), Moves(uow[p], u), pc[p] \in Deciding
  PROVE  LedgerInv'
  <1>1. uow'[p] = u /\ \A q \in Process \ {p} : uow'[q] = uow[q]
    BY DEF Stage, TypeInv, UowOK
  <1>2. Others(p) /\ pc'[p] = label /\ WalletOf(p)' = WalletOf(p)
    BY <1>1, GoOthers
  <1>3. Holds(p)'
    BY <1>2 DEF LedgerInv, LockHeld, Holds
  <1> QED
    BY <1>1, <1>2, <1>3, WorkKeeps

\* A step that ends a transaction, committed or not.
LEMMA EndingKeepsLedger ==
  ASSUME TypeInv, LedgerInv, NEW p \in Process, NEW label, Go(p, label), Release(p),
         label \notin Deciding, UNCHANGED Tables \/ Apply(p), input' = input, target' = target
  PROVE  LedgerInv'
  <1>1. Others(p) /\ pc'[p] = label
    BY GoOthers DEF Release, TypeInv, UowOK
  <1> QED
    BY <1>1, RollbackKeepsLedger, CommitKeepsLedger

\* Wallets start with the ledger that opened them, and nothing is locked.
LEMMA InitLedgerInv == Init => LedgerInv
  <1> SUFFICES ASSUME Init PROVE LedgerInv
    OBVIOUS
  <1>1. ASSUME NEW w \in Wallet
        PROVE  Chained(ledger[w], wallets[w].balance)
    <2>1. Opening[w] \in Nat /\ wallets[w].balance = Opening[w]
      BY ConstantsAssumption DEF Init
    <2>2. CASE Opening[w] > 0
      <3>1. ledger[w] = <<LedgerEntry(OpeningTx, "CREDIT", Opening[w], 0)>>
        BY <2>2 DEF Init
      <3>2. Len(ledger[w]) = 1
        BY <3>1
      <3> QED
        BY <2>1, <3>1, <3>2 DEF Chained, LedgerEntry, EntrySound
    <2>3. CASE ~(Opening[w] > 0)
      <3>1. ledger[w] = <<>> /\ Opening[w] = 0
        BY <2>1, <2>3 DEF Init
      <3> QED
        BY <2>1, <3>1 DEF Chained
    <2> QED
      BY <2>2, <2>3
  <1>2. LedgerSound
    BY <1>1 DEF LedgerSound
  <1>3. HolderInSync
    BY ConstantsAssumption DEF Init, HolderInSync, Process
  <1>4. LockHeld
    BY DEF Init, LockHeld, EmptyUow, Deciding
  <1> QED
    BY <1>2, <1>3, <1>4 DEF LedgerInv

\* Every step of a request keeps the ledgers sound.
LEMMA ExecuteStepLedgerInv ==
  ASSUME TypeInv, TypeInv', LedgerInv, NEW p \in Request, ExecuteStep(p)
  PROVE  LedgerInv'
  <1>a. p \in Process /\ uow[p] \in UowType /\ WalletOf(p) = input[p].wallet
    BY ConstantsAssumption DEF Process, TypeInv, UowOK, WalletOf
  <1>b. input' = input /\ target' = target
    BY DEF ExecuteStep, RejectKind, CheckKey, CheckExt, WalletNotFound, LockSubmittedWallet,
           Decide, Insert, CheckForeignKey, LostRace, FindPending, ResolvePending, Commit
  <1>1. CASE RejectKind(p)
    <2> DEFINE u == Rejected(uow[p], p, "INVALID_KIND")
    <2>1. /\ Stage(p, u) /\ Go(p, "insert") /\ pc[p] \in Quiet
          /\ UNCHANGED <<wallets, ledger, walletLock>>
      BY <1>1 DEF RejectKind, Database, Locks, Quiet
    <2>2. u.wallet = uow[p].wallet /\ u.entries = <<>>
      BY <1>a, <2>1, QuietHasNothing DEF Rejected, UowType
    <2>3. Moves(uow[p], u)
      BY <1>a, <2>1, <2>2, QuietHasNothing DEF Moves
    <2> HIDE DEF u
    <2>4. uow'[p] = u /\ \A q \in Process \ {p} : uow'[q] = uow[q]
      BY <1>a, <2>1 DEF Stage, TypeInv, UowOK
    <2>5. Others(p) /\ pc'[p] = "insert"
      BY <1>a, <1>b, <2>1, <2>4, GoOthers
    <2> QED
      BY <1>a, <2>1, <2>2, <2>3, <2>4, <2>5, WorkKeeps DEF Tables, Deciding
  <1>2. CASE CheckKey(p) \/ CheckExt(p) \/ WalletNotFound(p) \/ LostRace(p)
    <2>1. \E label : label \notin Deciding /\ Go(p, label)
      BY <1>2 DEF CheckKey, CheckExt, WalletNotFound, LostRace, Return, Deciding
    <2>2. UNCHANGED <<uow, wallets, ledger, walletLock>>
      BY <1>2 DEF CheckKey, CheckExt, WalletNotFound, LostRace, Database, Locks
    <2> QED
      BY <1>a, <1>b, <2>1, <2>2, MoveOnKeepsLedger DEF Tables
  <1>3. CASE LockSubmittedWallet(p)
    BY <1>a, <1>b, <1>3, LockKeepsLedger DEF LockSubmittedWallet, Database, Tables
  <1>4. CASE Decide(p)
    <2>1. PICK u : Stage(p, u) /\ Settles(uow[p], u, p)
      BY <1>4, DecideSettles
    <2>2. pc[p] = "decide" /\ Go(p, "insert") /\ UNCHANGED <<wallets, ledger, walletLock>>
      BY <1>4 DEF Decide, Database, Locks
    <2> QED
      BY <1>a, <1>b, <2>1, <2>2, SettlingKeepsLedger DEF Settles, Tables, Deciding
  <1>5. CASE Insert(p)
    <2>1. CASE Rollback(p) /\ Go(p, "lost")
      BY <1>a, <1>b, <2>1, EndingKeepsLedger DEF Rollback, Database, Tables, Deciding
    <2>2. CASE /\ Go(p, IF Holding(p) = {} THEN "fk"
                        ELSE IF uow[p].writes[p].status = "PROCESSED" THEN "find" ELSE "commit")
               /\ UNCHANGED <<uow, Database, Locks>>
      <3> DEFINE label == IF Holding(p) = {} THEN "fk"
                          ELSE IF uow[p].writes[p].status = "PROCESSED" THEN "find" ELSE "commit"
      <3>1. label \in Deciding => Holds(p)
        BY <1>a DEF Deciding, Holding, Holds, TypeInv, ControlOK
      <3> HIDE DEF label
      <3>2. Go(p, label)
        BY <2>2 DEF label
      <3> QED
        BY <1>a, <1>b, <2>2, <3>1, <3>2, MoveOnKeepsLedger DEF Database, Locks, Tables
    <2> QED
      BY <1>5, <2>1, <2>2 DEF Insert
  <1>6. CASE CheckForeignKey(p)
    <2>1. CASE Rollback(p) /\ Return(p, Failed("ERROR"))
      BY <1>a, <1>b, <2>1, EndingKeepsLedger DEF Rollback, Return, Database, Tables, Deciding
    <2>2. CASE Go(p, "commit") /\ UNCHANGED <<uow, Database, Locks, answer>>
      BY <1>a, <1>b, <2>2, MoveOnKeepsLedger DEF Database, Locks, Tables, Deciding
    <2> QED
      BY <1>6, <2>1, <2>2 DEF CheckForeignKey
  <1>7. CASE FindPending(p)
    <2> DEFINE u == [uow[p] EXCEPT !.todo = PendingFor(input[p].ext),
                                   !.reversed = AlreadyReversed(input[p].ext)]
    <2>1. Stage(p, u) /\ pc[p] \in Deciding
      BY <1>7 DEF FindPending, Stage, Deciding
    <2>2. Moves(uow[p], u)
      BY <1>a DEF Moves, UowType
    <2>3. UNCHANGED <<wallets, ledger, walletLock>>
      BY <1>7 DEF FindPending, Database, Locks
    <2>4. \E label : Go(p, label)
      BY <1>7 DEF FindPending
    <2> HIDE DEF u
    <2> QED
      BY <1>a, <1>b, <2>1, <2>2, <2>3, <2>4, SettlingKeepsLedger DEF Tables
  <1>8. CASE \E t \in Request : ResolvePending(p, t)
    <2> PICK t \in Request : ResolvePending(p, t)
      BY <1>8
    <2> DEFINE u == Reverse(uow[p], t, p, input[p].wallet, uow[p].reversed)
               v == [u EXCEPT !.todo = uow[p].todo \ {t},
                              !.reversed = @ \/ u.writes[t].status = "PROCESSED"]
    <2>1. Stage(p, v) /\ pc[p] = "resolve" /\ t \in uow[p].todo
      BY DEF ResolvePending
    <2>2. Submitted(t) /\ Submitted(p)
      BY <1>a, <2>1 DEF TypeInv, UowOK, ControlOK, Known
    <2>3. Settles(uow[p], u, t)
      BY <1>a, <2>2, ReverseSettles
    <2>4. Moves(uow[p], v)
      <3>1. u \in UowType /\ Moves(uow[p], u)
        BY <2>3 DEF Settles
      <3>2. v.wallet = u.wallet /\ v.entries = u.entries
        BY <3>1 DEF UowType
      <3> HIDE DEF u, v
      <3> QED
        BY <3>1, <3>2 DEF Moves
    <2>5. UNCHANGED <<wallets, ledger, walletLock>>
      BY DEF ResolvePending, Database
    <2>6. \E label : Go(p, label)
      BY DEF ResolvePending
    <2> HIDE DEF u, v
    <2> QED
      BY <1>a, <1>b, <2>1, <2>4, <2>5, <2>6, SettlingKeepsLedger DEF Tables, Deciding
  <1>9. CASE Commit(p)
    BY <1>a, <1>b, <1>9, EndingKeepsLedger DEF Commit, Return, Deciding
  <1> QED
    BY <1>1, <1>2, <1>3, <1>4, <1>5, <1>6, <1>7, <1>8, <1>9 DEF ExecuteStep

\* Every step of a worker keeps the ledgers sound.
LEMMA RetryStepLedgerInv ==
  ASSUME TypeInv, TypeInv', LedgerInv, NEW k \in Worker, RetryStep(k)
  PROVE  LedgerInv'
  <1>a. k \in Process
    BY DEF Process
  <1>b. input' = input /\ target' = target
    BY DEF RetryStep, WorkerLockWallet, WorkerLockRow, PutOff, Retry, WorkerCommit
  <1>1. CASE WorkerLockWallet(k)
    <2>1. WalletOf(k) \in Wallet
      BY <1>1 DEF WorkerLockWallet, TypeInv, ControlOK, Known, WalletOf
    <2> QED
      BY <1>a, <1>b, <1>1, <2>1, LockKeepsLedger DEF WorkerLockWallet, Database, Tables
  <1>2. CASE WorkerLockRow(k)
    <2>1. UNCHANGED Tables /\ Holds(k)
      BY <1>a, <1>2 DEF WorkerLockRow, Database, Tables, LedgerInv, LockHeld, Deciding
    <2>2. CASE Go(k, "decide") /\ UNCHANGED <<uow, walletLock>>
      BY <1>a, <1>b, <2>1, <2>2, MoveOnKeepsLedger
    <2>3. CASE Release(k) /\ Go(k, "idle")
      BY <1>a, <1>b, <2>1, <2>3, EndingKeepsLedger DEF Deciding
    <2> QED
      BY <1>2, <2>2, <2>3 DEF WorkerLockRow
  <1>3. CASE PutOff(k)
    BY <1>a, <1>b, <1>3, EndingKeepsLedger DEF PutOff, Rollback, Database, Tables, Deciding
  <1>4. CASE Retry(k)
    <2>1. PICK u : Stage(k, u) /\ Settles(uow[k], u, target[k])
      BY <1>4, RetrySettles
    <2>2. pc[k] = "decide" /\ Go(k, "commit") /\ UNCHANGED <<wallets, ledger, walletLock>>
      BY <1>4 DEF Retry, Database, Locks
    <2> QED
      BY <1>a, <1>b, <2>1, <2>2, SettlingKeepsLedger DEF Settles, Tables, Deciding
  <1>5. CASE WorkerCommit(k)
    BY <1>a, <1>b, <1>5, EndingKeepsLedger DEF WorkerCommit, Deciding
  <1> QED
    BY <1>1, <1>2, <1>3, <1>4, <1>5 DEF RetryStep

\* A process that has only just got something to work on.
LEMMA BeginKeepsLedger ==
  ASSUME TypeInv, TypeInv', LedgerInv, NEW p \in Process, pc[p] = "idle", Others(p),
         pc'[p] \notin Deciding, UNCHANGED <<uow, wallets, ledger, walletLock>>
  PROVE  LedgerInv'
  <1>1. uow'[p].entries = <<>>
    BY QuietHasNothing DEF Quiet
  <1> QED
    BY <1>1, WorkKeeps DEF Moves, Tables

\* Every step of the system keeps the ledgers sound.
LEMMA NextLedgerInv == TypeInv /\ TypeInv' /\ LedgerInv /\ [Next]_vars => LedgerInv'
  <1> SUFFICES ASSUME TypeInv, TypeInv', LedgerInv, [Next]_vars PROVE LedgerInv'
    OBVIOUS
  <1>1. ASSUME NEW p \in Process, NEW label, Go(p, label), Rollback(p), label \notin Deciding,
               input' = input, target' = target
        PROVE  LedgerInv'
    BY <1>1, EndingKeepsLedger DEF Rollback, Database, Tables
  <1>2. ASSUME NEW p \in Request, Arrive(p) \/ ExecuteStep(p) \/ AbortRequest(p)
        PROVE  LedgerInv'
    <2>1. CASE Arrive(p)
      <3>1. /\ p \in Process /\ p \notin Worker /\ pc[p] = "idle"
            /\ pc' = [pc EXCEPT ![p] = "checkKey"]
            /\ UNCHANGED <<target, uow, wallets, ledger, walletLock>>
        BY <2>1, ConstantsAssumption DEF Arrive, Go, Process, Database, Locks
      <3>2. input[p] = None /\ \A t \in Request \ {p} : input'[t] = input[t]
        BY <2>1 DEF Arrive, TypeInv, InputsOK, ControlOK
      <3>3. \A k \in Worker : pc[k] # "idle" => target[k] \in Request \ {p}
        BY <3>2, ConstantsAssumption DEF TypeInv, ControlOK, Known, Submitted
      <3>4. Others(p)
        BY <3>1, <3>2, <3>3 DEF Others, WalletOf, Process, TypeInv, ControlOK
      <3>5. pc'[p] \notin Deciding
        BY <3>1 DEF Deciding, TypeInv, ControlOK
      <3> QED
        BY <3>1, <3>4, <3>5, BeginKeepsLedger
    <2>2. CASE AbortRequest(p)
      BY <1>1, <2>2 DEF AbortRequest, Return, Process, Deciding
    <2> QED
      BY <1>2, <2>1, <2>2, ExecuteStepLedgerInv
  <1>3. ASSUME NEW k \in Worker, Pick(k) \/ RetryStep(k) \/ AbortWorker(k)
        PROVE  LedgerInv'
    <2>1. CASE Pick(k)
      <3>1. /\ k \in Process /\ pc[k] = "idle"
            /\ pc' = [pc EXCEPT ![k] = "lockWallet"]
            /\ UNCHANGED <<input, uow, wallets, ledger, walletLock>>
        BY <2>1 DEF Pick, Go, Process, Database, Locks
      <3>2. \A q \in Worker \ {k} : target'[q] = target[q]
        BY <2>1 DEF Pick, TypeInv, InputsOK
      <3>3. Others(k)
        BY <3>1, <3>2, ConstantsAssumption DEF Others, WalletOf, Process, TypeInv, ControlOK
      <3>4. pc'[k] \notin Deciding
        BY <3>1 DEF Deciding, TypeInv, ControlOK
      <3> QED
        BY <3>1, <3>3, <3>4, BeginKeepsLedger
    <2>2. CASE AbortWorker(k)
      BY <1>1, <2>2 DEF AbortWorker, Process, Deciding
    <2> QED
      BY <1>3, <2>1, <2>2, RetryStepLedgerInv
  <1>4. CASE UNCHANGED vars
    BY <1>4 DEF vars, LedgerInv, LedgerSound, HolderInSync, LockHeld, Holds, WalletOf
  <1> QED
    BY <1>2, <1>3, <1>4 DEF Next

LEMMA LedgerInvHolds == Spec => []LedgerInv
  BY TypeInvHolds, InitLedgerInv, NextLedgerInv, PTL DEF Spec

\* However many requests and workers interleave on a wallet, its committed ledger is
\* an unbroken, never negative chain that ends at its committed balance.
THEOREM LedgerIsSound == Spec => []LedgerSound
  <1>1. LedgerInv => LedgerSound
    BY DEF LedgerInv
  <1> QED
    BY <1>1, LedgerInvHolds, PTL

-----------------------------------------------------------------------------
(* The ledger sums to the balance.  The sum is a recursion along the       *)
(* entries, known by its value at each of them: where the first one that   *)
(* differs would be, it does not.                                          *)

\* What an entry adds to its wallet: sumLedgerEntries adds credits and subtracts debits.
Signed(e) == IF e.direction = "CREDIT" THEN e.amount ELSE -e.amount

SumOfLedger(entries) ==
  LET sums[n \in 0..Len(entries)] ==
        IF n = 0 THEN 0 ELSE sums[n - 1] + Signed(entries[n])
  IN  sums[Len(entries)]

LEMMA Least ==
  ASSUME NEW T \in SUBSET Nat, T # {}
  PROVE  \E m \in T : \A n \in T : m <= n
  <1>1. PICK m \in T : \A n \in T : ~(<<n, m>> \in OpToRel(<, Nat))
    BY NatLessThanWellFounded, WFMin
  <1>2. ASSUME NEW n \in T
        PROVE  m <= n
    <2>1. ~(<<n, m>> \in OpToRel(<, Nat))
      BY <1>1
    <2>2. ~(n < m)
      BY <2>1 DEF OpToRel
    <2>3. QED
      BY <2>2
  <1>3. QED
    BY <1>2

LEMMA ChainAddsUp ==
  ASSUME NEW entries \in Seq(EntryType), NEW balance, Chained(entries, balance)
  PROVE  SumOfLedger(entries) = balance
  <1> DEFINE upTo(n) == IF n = 0 THEN 0 ELSE entries[n].after
             P(g) == g = [n \in 0..Len(entries) |->
                            IF n = 0 THEN 0 ELSE g[n - 1] + Signed(entries[n])]
             sums == CHOOSE g : P(g)
  <1>1. Len(entries) \in Nat /\ \A n \in 1..Len(entries) : entries[n] \in EntryType
    OBVIOUS
  <1>2. \A n \in 1..Len(entries) : upTo(n) = upTo(n - 1) + Signed(entries[n])
    <2>1. TAKE n \in 1..Len(entries)
    <2>2. /\ entries[n].before \in Nat /\ entries[n].amount \in Nat
          /\ entries[n].direction \in {"DEBIT", "CREDIT"}
      BY <1>1 DEF EntryType, Direction
    <2>3. entries[n].after = entries[n].before + Signed(entries[n])
      BY <2>2 DEF Chained, EntrySound, Signed
    <2>4. entries[n].before = upTo(n - 1)
      BY <1>1 DEF Chained
    <2>5. QED
      BY <1>1, <2>3, <2>4
  <1>3. \E g : P(g)
    <2> DEFINE g == [n \in 0..Len(entries) |-> upTo(n)]
    <2>1. \A n \in 1..Len(entries) : n - 1 \in 0..Len(entries)
      BY <1>1
    <2>2. P(g)
      BY <1>2, <2>1
    <2> QED
      BY <2>2
  <1>4. P(sums)
    BY <1>3
  <1> HIDE DEF sums
  <1> DEFINE T == {n \in 0..Len(entries) : sums[n] # upTo(n)}
  <1>5. ASSUME T # {}
        PROVE  FALSE
    <2>1. PICK m \in T : \A n \in T : m <= n
      <3>1. T \in SUBSET Nat
        BY <1>1
      <3> HIDE DEF T
      <3>2. QED
        BY <1>5, <3>1, Least
    <2>2. m # 0
      BY <1>1, <1>4
    <2>3. m \in 1..Len(entries) /\ m - 1 \in 0..Len(entries) /\ ~(m <= m - 1)
      BY <1>1, <2>2
    <2>4. sums[m - 1] = upTo(m - 1)
      BY <2>1, <2>3
    <2>5. sums[m] = sums[m - 1] + Signed(entries[m])
      BY <1>4, <2>2, <2>3
    <2>6. QED
      BY <1>2, <2>3, <2>4, <2>5
  <1>6. sums[Len(entries)] = upTo(Len(entries))
    BY <1>1, <1>5
  <1>7. SumOfLedger(entries) = sums[Len(entries)]
    BY DEF SumOfLedger, sums
  <1>8. upTo(Len(entries)) = balance
    BY <1>1 DEF Chained
  <1> QED
    BY <1>6, <1>7, <1>8

\* In every committed state the credits of a wallet's ledger less its debits are its
\* stored balance: a reconciliation that reads both in one state finds no difference
\* (sumLedgerEntries and ReconcileWalletUseCase).
THEOREM LedgerSumsToBalance ==
  Spec => [](\A w \in Wallet : SumOfLedger(ledger[w]) = wallets[w].balance)
  <1>1. ASSUME TypeInv, LedgerSound, NEW w \in Wallet
        PROVE  SumOfLedger(ledger[w]) = wallets[w].balance
    <2>1. ledger[w] \in Seq(EntryType)
      BY <1>1 DEF TypeInv, DatabaseOK
    <2>2. Chained(ledger[w], wallets[w].balance)
      BY <1>1 DEF LedgerSound
    <2>3. QED
      BY <2>1, <2>2, ChainAddsUp
  <1>2. TypeInv /\ LedgerSound => \A w \in Wallet : SumOfLedger(ledger[w]) = wallets[w].balance
    BY <1>1
  <1>3. QED
    BY <1>2, TypeInvHolds, LedgerIsSound, PTL

-----------------------------------------------------------------------------
(***************************************************************************)
(* Nothing is stored twice and nothing is reversed twice, and requests and *)
(* workers never wait for each other in a circle.                          *)
(***************************************************************************)

-----------------------------------------------------------------------------
(* What a step does to everybody else. *)

\* The rows process p has written and not committed.
Staged(p) == {t \in Request : uow[p].writes[t] # NoRow}

\* A step of p leaves alone where the others are, what they work on, what they have
\* staged, been answered and locked, and changes the tables only by a commit.
StepOf(p) ==
  /\ p \in Process
  /\ p \in Request => pc[p] # "done"
  /\ \A q \in Process \ {p} : uow'[q] = uow[q] /\ pc'[q] = pc[q]
  /\ \A t \in Request : pc[t] # "idle" => input'[t] = input[t]
  /\ \A k \in Worker \ {p} : target'[k] = target[k]
  /\ pc[p] # "idle" => target' = target
  /\ \A q \in Request \ {p} : answer'[q] = answer[q]
  /\ \A q \in Process \ {p} : /\ \A w \in Wallet : walletLock'[w] = q <=> walletLock[w] = q
                              /\ \A t \in Request : rowLock'[t] = q <=> rowLock[t] = q
  /\ \/ UNCHANGED Database
     \/ pc[p] = "commit" /\ Apply(p) /\ uow'[p] = EmptyUow

\* Giving locks back does nothing to those of others.
LEMMA ReleaseFrame ==
  ASSUME TypeInv, NEW p \in Process, Release(p)
  PROVE  /\ uow'[p] = EmptyUow
         /\ \A q \in Process \ {p} : uow'[q] = uow[q]
         /\ \A q \in Process \ {p} : /\ \A w \in Wallet : walletLock'[w] = q <=> walletLock[w] = q
                                     /\ \A t \in Request : rowLock'[t] = q <=> rowLock[t] = q
  BY ConstantsAssumption DEF Release, Process, TypeInv, UowOK, LocksOK

\* Neither does taking a free wallet.
LEMMA LockFrame ==
  ASSUME TypeInv, NEW p \in Process, NEW w \in Wallet, NEW label, LockWallet(p, w, label)
  PROVE  /\ \A q \in Process \ {p} : uow'[q] = uow[q] /\ pc'[q] = pc[q]
         /\ \A q \in Process \ {p} : \A v \in Wallet : walletLock'[v] = q <=> walletLock[v] = q
         /\ uow'[p] = [uow[p] EXCEPT !.wallet = wallets[w]]
         /\ walletLock'[w] = p
         /\ pc'[p] = label
  BY ConstantsAssumption
     DEF LockWallet, WalletFree, Go, Process, TypeInv, UowOK, LocksOK, ControlOK

\* Every step is a step of one process.
LEMMA ExecuteStepOf ==
  ASSUME TypeInv, NEW p \in Request, ExecuteStep(p)
  PROVE  StepOf(p)
  <1>a. p \in Process /\ uow \in [Process -> UowType] /\ pc \in [Process -> Label]
        /\ answer \in [Request -> AnswerType]
    BY DEF Process, TypeInv, UowOK, ControlOK, InputsOK
  <1>b. /\ input' = input /\ target' = target /\ pc[p] # "done"
    BY DEF ExecuteStep, RejectKind, CheckKey, CheckExt, WalletNotFound, LockSubmittedWallet,
           Decide, Insert, CheckForeignKey, LostRace, FindPending, ResolvePending, Commit
  <1>c. ASSUME UNCHANGED Database, UNCHANGED Locks, NEW label, Go(p, label),
               \A q \in Process \ {p} : uow'[q] = uow[q],
               \A q \in Request \ {p} : answer'[q] = answer[q]
        PROVE  StepOf(p)
    BY <1>a, <1>b, <1>c DEF StepOf, Go, Database, Locks
  <1>d. ASSUME NEW a, Return(p, a)
        PROVE  /\ Go(p, "done")
               /\ \A q \in Request \ {p} : answer'[q] = answer[q]
    BY <1>a, <1>d DEF Return
  <1>e. ASSUME Release(p), NEW label, Go(p, label), UNCHANGED Database \/ (pc[p] = "commit" /\ Apply(p)),
               \A q \in Request \ {p} : answer'[q] = answer[q]
        PROVE  StepOf(p)
    BY <1>a, <1>b, <1>e, ReleaseFrame DEF StepOf, Go, Database
  <1>1. CASE RejectKind(p)
    BY <1>a, <1>1, <1>c DEF RejectKind, Stage
  <1>2. CASE CheckKey(p)
    BY <1>a, <1>2, <1>c, <1>d DEF CheckKey
  <1>3. CASE CheckExt(p)
    BY <1>a, <1>3, <1>c, <1>d DEF CheckExt
  <1>4. CASE WalletNotFound(p) \/ LostRace(p)
    BY <1>a, <1>4, <1>c, <1>d DEF WalletNotFound, LostRace
  <1>5. CASE LockSubmittedWallet(p)
    BY <1>a, <1>b, <1>5, LockFrame DEF LockSubmittedWallet, StepOf, Database
  <1>6. CASE Decide(p)
    <2>1. PICK u : Stage(p, u) /\ Settles(uow[p], u, p)
      BY <1>6, DecideSettles
    <2> QED
      BY <1>a, <1>6, <1>c, <2>1 DEF Decide, Stage
  <1>7. CASE Insert(p)
    <2>1. CASE Rollback(p) /\ Go(p, "lost")
      BY <1>7, <2>1, <1>e DEF Insert, Rollback
    <2>2. CASE \E label : Go(p, label) /\ UNCHANGED <<uow, Database, Locks>>
      BY <1>7, <2>2, <1>c DEF Insert
    <2> QED
      BY <1>7, <2>1, <2>2 DEF Insert
  <1>8. CASE CheckForeignKey(p)
    BY <1>8, <1>c, <1>d, <1>e DEF CheckForeignKey, Rollback
  <1>9. CASE FindPending(p)
    BY <1>a, <1>9, <1>c DEF FindPending
  <1>10. CASE \E t \in Request : ResolvePending(p, t)
    <2> PICK t \in Request : ResolvePending(p, t)
      BY <1>10
    <2>1. \A q \in Process \ {p} : uow'[q] = uow[q] /\ pc'[q] = pc[q]
      BY <1>a DEF ResolvePending, Stage, Go
    <2>2. rowLock[t] = None /\ rowLock' = [rowLock EXCEPT ![t] = p]
      BY DEF ResolvePending
    <2>3. \A q \in Process \ {p} : \A s \in Request : rowLock'[s] = q <=> rowLock[s] = q
      BY <1>a, <2>2, ConstantsAssumption DEF Process, TypeInv, LocksOK
    <2>4. UNCHANGED <<Database, walletLock, answer>>
      BY DEF ResolvePending
    <2> QED
      BY <1>a, <1>b, <2>1, <2>3, <2>4 DEF StepOf
  <1>11. CASE Commit(p)
    BY <1>a, <1>d, <1>e, <1>11 DEF Commit
  <1> QED
    BY <1>1, <1>2, <1>3, <1>4, <1>5, <1>6, <1>7, <1>8, <1>9, <1>10, <1>11 DEF ExecuteStep

\* Likewise the steps of workers, and arrivals and failures.
LEMMA NextStepOf ==
  ASSUME TypeInv, Next
  PROVE  \/ \E p \in Request : StepOf(p) /\ (Arrive(p) \/ ExecuteStep(p) \/ AbortRequest(p))
         \/ \E k \in Worker : StepOf(k) /\ (Pick(k) \/ RetryStep(k) \/ AbortWorker(k))
  <1> USE DEF Process
  <1>a. uow \in [Process -> UowType] /\ pc \in [Process -> Label]
        /\ answer \in [Request -> AnswerType]
        /\ input \in [Request -> Inputs \cup {None}]
        /\ target \in [Worker -> Request \cup {None}]
    BY DEF TypeInv, UowOK, ControlOK, InputsOK
  <1>b. \A k \in Worker : k \notin Request
    BY ConstantsAssumption
  <1>1. ASSUME NEW p \in Request, Arrive(p)
        PROVE  StepOf(p)
    BY <1>a, <1>1 DEF Arrive, StepOf, Go, Database, Locks
  <1>2. ASSUME NEW p \in Request, AbortRequest(p)
        PROVE  StepOf(p)
    BY <1>a, <1>2, ReleaseFrame DEF AbortRequest, Rollback, Return, StepOf, Go, Database
  <1>3. ASSUME NEW k \in Worker, Pick(k)
        PROVE  StepOf(k)
    BY <1>a, <1>b, <1>3 DEF Pick, StepOf, Go, Database, Locks
  <1>4. ASSUME NEW k \in Worker, Release(k), Go(k, "idle"),
               UNCHANGED Database \/ (pc[k] = "commit" /\ Apply(k)),
               UNCHANGED <<input, target, answer>>
        PROVE  StepOf(k)
    BY <1>a, <1>b, <1>4, ReleaseFrame DEF StepOf, Go, Database
  <1>5. ASSUME NEW k \in Worker, AbortWorker(k)
        PROVE  StepOf(k)
    BY <1>5, <1>4 DEF AbortWorker, Rollback
  <1>6. ASSUME NEW k \in Worker, RetryStep(k)
        PROVE  StepOf(k)
    <2>a. UNCHANGED <<input, target, answer>>
      BY <1>6 DEF RetryStep, WorkerLockWallet, WorkerLockRow, PutOff, Retry, WorkerCommit
    <2>b. pc[k] # "idle" => target[k] \in Request /\ input[target[k]].wallet \in Wallet
      BY DEF TypeInv, ControlOK, Known
    <2>1. CASE WorkerLockWallet(k)
      BY <1>b, <2>a, <2>b, <2>1, LockFrame DEF WorkerLockWallet, WalletOf, StepOf, Database
    <2>2. CASE WorkerLockRow(k)
      <3>1. CASE /\ rowLock' = [rowLock EXCEPT ![target[k]] = k]
                 /\ Go(k, "decide") /\ UNCHANGED <<uow, walletLock>>
        <4>1. \A q \in Process \ {k} : \A t \in Request : rowLock'[t] = q <=> rowLock[t] = q
          BY <2>2, <3>1, ConstantsAssumption DEF WorkerLockRow, TypeInv, LocksOK
        <4> QED
          BY <1>a, <1>b, <2>a, <2>2, <3>1, <4>1 DEF WorkerLockRow, StepOf, Go, Database
      <3>2. CASE Release(k) /\ Go(k, "idle")
        BY <2>a, <2>2, <3>2, <1>4 DEF WorkerLockRow
      <3> QED
        BY <2>2, <3>1, <3>2 DEF WorkerLockRow
    <2>3. CASE PutOff(k)
      BY <2>a, <2>3, <1>4 DEF PutOff, Rollback
    <2>4. CASE Retry(k)
      <3>1. PICK u : Stage(k, u)
        BY <2>4, RetrySettles
      <3> QED
        BY <1>a, <1>b, <2>a, <2>4, <3>1 DEF Retry, Stage, StepOf, Go, Database, Locks
    <2>5. CASE WorkerCommit(k)
      BY <2>a, <2>5, <1>4 DEF WorkerCommit
    <2> QED
      BY <1>6, <2>1, <2>2, <2>3, <2>4, <2>5 DEF RetryStep
  <1> QED
    BY <1>1, <1>2, <1>3, <1>5, <1>6, ExecuteStepOf DEF Next

-----------------------------------------------------------------------------
(* One transaction per key and per external identifier. *)

\* The row of a request is stored by its commit, and processes work on stored rows
\* besides the one a request inserts.
RowsKnown ==
  /\ \A t \in Stored : pc[t] = "done"
  /\ \A p \in Process : (Staged(p) \ {p}) \cup uow[p].todo \subseteq Stored
  /\ \A k \in Worker : pc[k] # "idle" => target[k] \in Stored

\* Of the rows that are stored or inserted no two collide: an insert waits for those in
\* flight, and is in the way of others from then on.
Unique ==
  \A s, t \in Stored \cup Inserting : Collide(input[s], input[t]) => s = t

\* What a process that lost the race lost it to, and what an answer rests on.
LostToStored ==
  \A p \in Request : pc[p] = "lost" => \E t \in Stored : Collide(input[p], input[t])
Backed(p) == answer[p].tx \in Stored /\ SamePayload(input[p], input[answer[p].tx])
AnswersBacked ==
  \A p \in Request : answer[p].tx # None => pc[p] = "done" /\ Backed(p)

SubmitInv == RowsKnown /\ Unique /\ LostToStored /\ AnswersBacked

\* A row is absent exactly when its status is NONE.
LEMMA StoredHaveRows ==
  ASSUME TypeInv
  PROVE  Stored = {t \in Request : rows[t] # NoRow}
  BY DEF Stored, TypeInv, DatabaseOK, RowType, NoRow

\* A commit stores what was staged.
LEMMA ApplyStores ==
  ASSUME TypeInv, TypeInv', NEW p \in Process, Apply(p)
  PROVE  Stored' = Stored \cup Staged(p)
  <1>1. Stored' = {t \in Request : rows'[t] # NoRow}
    <2>1. \A t \in Request : rows'[t] \in RowType
      BY DEF TypeInv, DatabaseOK
    <2>2. \A row \in RowType : row.status = "NONE" <=> row = NoRow
      BY DEF RowType, NoRow
    <2> QED
      BY <2>1, <2>2 DEF Stored
  <1> QED
    BY <1>1, StoredHaveRows DEF Apply, Staged

\* A step keeps the invariant if what it does to the process that takes it does.
LEMMA SubmitKept ==
  ASSUME TypeInv, TypeInv', SubmitInv, NEW p \in Process, StepOf(p),
         p \in Request => pc'[p] # "idle",
         p \in Worker /\ pc'[p] # "idle" => target'[p] \in Stored,
         (Staged(p)' \ {p}) \cup uow'[p].todo \subseteq Stored,
         UNCHANGED rows \/ (p \in Request => pc'[p] = "done"),
         p \in Inserting' => \/ p \in Inserting
                             \/ \A t \in Stored \cup (Inserting \ {p}) : ~Collide(input[p], input[t]),
         p \in Inserting' => input'[p] = input[p],
         p \in Request /\ pc'[p] = "lost" =>
           \E t \in Stored : Collide(input[p], input[t]) /\ input'[p] = input[p],
         p \in Request /\ answer'[p].tx # None => pc'[p] = "done" /\ Backed(p)'
  PROVE  SubmitInv'
  <1>a. \A t \in Stored : t \in Request /\ pc[t] = "done"
    BY DEF SubmitInv, RowsKnown, Stored
  <1>b. \A t \in Stored \cup Inserting : t \in Request /\ pc[t] # "idle" /\ input'[t] = input[t]
    BY <1>a DEF StepOf, Inserting
  <1>c. /\ Stored \subseteq Stored'
        /\ Stored' \subseteq Stored \cup (IF p \in Inserting THEN {p} ELSE {})
        /\ p \in Request /\ Stored' # Stored => pc'[p] = "done"
    <2>1. CASE UNCHANGED rows
      BY <2>1 DEF Stored
    <2>2. CASE ~UNCHANGED rows
      <3>1. pc[p] = "commit" /\ Apply(p) /\ (p \in Request => pc'[p] = "done")
        BY <2>2 DEF StepOf, Database
      <3>2. Stored' = Stored \cup Staged(p)
        BY <3>1, ApplyStores
      <3>3. p \in Request => p \in Inserting
        BY <3>1 DEF Inserting
      <3>4. p \notin Request => p \notin Staged(p)
        BY DEF Staged
      <3> QED
        BY <3>1, <3>2, <3>3, <3>4 DEF SubmitInv, RowsKnown
    <2> QED
      BY <2>1, <2>2
  <1>d. \A q \in Process \ {p} : uow'[q] = uow[q] /\ pc'[q] = pc[q] /\ Staged(q)' = Staged(q)
    BY DEF StepOf, Staged
  <1>e. Inserting' \ {p} = Inserting \ {p}
    BY <1>d DEF Inserting, Process
  <1>1. RowsKnown'
    <2>1. \A t \in Stored' : pc'[t] = "done"
      <3>1. \A t \in Stored : t # p => pc'[t] = "done"
        BY <1>a, <1>d DEF Process
      <3>2. p \notin Stored
        BY <1>a DEF StepOf
      <3> QED
        BY <1>a, <1>c, <3>1, <3>2 DEF Inserting
    <2>2. \A q \in Process : (Staged(q)' \ {q}) \cup uow'[q].todo \subseteq Stored'
      BY <1>c, <1>d DEF SubmitInv, RowsKnown
    <2>3. \A k \in Worker : pc'[k] # "idle" => target'[k] \in Stored'
      <3>1. \A k \in Worker \ {p} : pc'[k] # "idle" => target'[k] \in Stored'
        BY <1>c, <1>d DEF StepOf, SubmitInv, RowsKnown, Process
      <3> QED
        BY <1>c, <3>1
    <2> QED
      BY <2>1, <2>2, <2>3 DEF RowsKnown
  <1>2. Unique'
    <2> SUFFICES ASSUME NEW s \in (Stored \cup Inserting)', NEW t \in (Stored \cup Inserting)',
                        Collide(input'[s], input'[t]), s # t
                 PROVE  FALSE
      BY DEF Unique, Collide
    <2>1. \A x \in (Stored \cup Inserting)' : x \in Stored \cup Inserting \/ (x = p /\ p \in Inserting')
      BY <1>c, <1>e
    <2>2. input'[s] = input[s] /\ input'[t] = input[t]
      BY <1>b, <2>1
    <2>3. ~(s \in Stored \cup Inserting /\ t \in Stored \cup Inserting)
      BY <2>2 DEF SubmitInv, Unique
    <2> QED
      BY <2>1, <2>2, <2>3 DEF Collide
  <1>3. LostToStored'
    <2> SUFFICES ASSUME NEW q \in Request, pc'[q] = "lost"
                 PROVE  \E t \in Stored' : Collide(input'[q], input'[t])
      BY DEF LostToStored, Collide
    <2>1. CASE q = p
      BY <1>b, <1>c, <2>1
    <2>2. CASE q # p
      <3>1. pc[q] = "lost" /\ input'[q] = input[q]
        BY <1>d, <2>2 DEF Process, StepOf
      <3> QED
        BY <1>b, <1>c, <3>1 DEF SubmitInv, LostToStored
    <2> QED
      BY <2>1, <2>2
  <1>4. AnswersBacked'
    <2> SUFFICES ASSUME NEW q \in Request, answer'[q].tx # None
                 PROVE  pc'[q] = "done" /\ Backed(q)'
      BY DEF AnswersBacked
    <2>1. CASE q = p
      BY <2>1
    <2>2. CASE q # p
      <3>1. pc[q] = "done" /\ Backed(q) /\ answer'[q] = answer[q] /\ pc'[q] = "done" /\ input'[q] = input[q]
        BY <1>d, <2>2 DEF Process, StepOf, SubmitInv, AnswersBacked
      <3> QED
        BY <1>b, <1>c, <3>1 DEF Backed
    <2> QED
      BY <2>1, <2>2
  <1> QED
    BY <1>1, <1>2, <1>3, <1>4 DEF SubmitInv

\* An answer about a stored row rests on it.
LEMMA ReplayBacked ==
  ASSUME NEW p \in Request, NEW t \in Stored,
         ReplayOrConflict(p, t).tx # None
  PROVE  /\ ReplayOrConflict(p, t).tx = t
         /\ SamePayload(input[p], input[t])
  BY DEF ReplayOrConflict, Result, Failed

\* Every step of a request keeps the rows apart.
LEMMA ExecuteStepSubmitInv ==
  ASSUME TypeInv, TypeInv', SubmitInv, NEW p \in Request, StepOf(p), ExecuteStep(p)
  PROVE  SubmitInv'
  <1>a. /\ p \in Process /\ p \notin Worker /\ p \notin Stored
        /\ pc \in [Process -> Label] /\ uow \in [Process -> UowType]
        /\ answer \in [Request -> AnswerType]
    BY ConstantsAssumption
       DEF Process, StepOf, SubmitInv, RowsKnown, TypeInv, ControlOK, UowOK, InputsOK
  <1>b. input' = input /\ pc[p] \notin {"idle", "done"}
    BY DEF ExecuteStep, RejectKind, CheckKey, CheckExt, WalletNotFound, LockSubmittedWallet,
           Decide, Insert, CheckForeignKey, LostRace, FindPending, ResolvePending, Commit
  <1>c. answer[p].tx = None
    BY <1>b DEF SubmitInv, AnswersBacked
  <1>d. (Staged(p) \ {p}) \cup uow[p].todo \subseteq Stored
    BY <1>a DEF SubmitInv, RowsKnown
  \* The steps that change no row.
  <1>e. ASSUME rows' = rows, pc'[p] \notin {"idle", "lost"},
               (Staged(p)' \ {p}) \cup uow'[p].todo \subseteq Stored,
               p \in Inserting' => p \in Inserting,
               answer' = answer \/ (pc'[p] = "done" /\ (answer'[p].tx # None => Backed(p)'))
        PROVE  SubmitInv'
    BY <1>a, <1>b, <1>c, <1>e, SubmitKept
  <1>f. ASSUME rows' = rows, NEW t \in Stored, Return(p, ReplayOrConflict(p, t))
        PROVE  pc'[p] = "done" /\ (answer'[p].tx # None => Backed(p)')
    <2>1. pc'[p] = "done" /\ answer'[p] = ReplayOrConflict(p, t)
      BY <1>a, <1>f DEF Return, Go
    <2> QED
      BY <1>b, <1>f, <2>1, ReplayBacked DEF Backed, Stored
  <1>g. ASSUME NEW status, Return(p, Failed(status))
        PROVE  pc'[p] = "done" /\ answer'[p].tx = None
    BY <1>a, <1>g DEF Return, Go, Failed
  <1>h. ASSUME uow' = uow
        PROVE  (Staged(p)' \ {p}) \cup uow'[p].todo \subseteq Stored
    BY <1>d, <1>h DEF Staged
  <1>i. ASSUME uow'[p] = EmptyUow
        PROVE  (Staged(p)' \ {p}) \cup uow'[p].todo \subseteq Stored
    BY <1>i DEF Staged, EmptyUow
  <1>j. ASSUME NEW u, Stage(p, u), Settles(uow[p], u, p)
        PROVE  (Staged(p)' \ {p}) \cup uow'[p].todo \subseteq Stored
    BY <1>a, <1>d, <1>j DEF Staged, Settles, Stage
  <1>1. CASE RejectKind(p)
    <2>1. (Staged(p)' \ {p}) \cup uow'[p].todo \subseteq Stored
      BY <1>a, <1>1, <1>j, RejectedSettles DEF RejectKind, FailureCode
    <2>2. rows' = rows /\ pc'[p] = "insert" /\ answer' = answer
      BY <1>a, <1>1 DEF RejectKind, Go, Database
    <2> QED
      BY <1>e, <2>1, <2>2 DEF Inserting
  <1>2. CASE CheckKey(p)
    <2>1. rows' = rows /\ uow' = uow
      BY <1>2 DEF CheckKey, Database
    <2>2. CASE \E t \in FindByKey(input[p].key) : Return(p, ReplayOrConflict(p, t))
      BY <1>e, <1>f, <1>h, <2>1, <2>2 DEF FindByKey, Inserting
    <2>3. CASE Go(p, "checkExt") /\ UNCHANGED answer
      BY <1>a, <1>e, <1>h, <2>1, <2>3 DEF Go, Inserting
    <2> QED
      BY <1>2, <2>2, <2>3 DEF CheckKey
  <1>3. CASE CheckExt(p)
    <2>1. rows' = rows /\ uow' = uow
      BY <1>3 DEF CheckExt, Database
    <2>2. CASE \E t \in FindByExt(input[p].ext) : Return(p, ReplayOrConflict(p, t))
      BY <1>e, <1>f, <1>h, <2>1, <2>2 DEF FindByExt, Inserting
    <2>3. CASE Go(p, "lockWallet") /\ UNCHANGED answer
      BY <1>a, <1>e, <1>h, <2>1, <2>3 DEF Go, Inserting
    <2> QED
      BY <1>3, <2>2, <2>3 DEF CheckExt
  <1>4. CASE WalletNotFound(p)
    BY <1>4, <1>e, <1>g, <1>h DEF WalletNotFound, Database, Inserting
  <1>5. CASE LockSubmittedWallet(p)
    <2>1. pc'[p] = "decide" /\ uow'[p] = [uow[p] EXCEPT !.wallet = wallets[input[p].wallet]]
      BY <1>a, <1>5, LockFrame DEF LockSubmittedWallet
    <2>2. (Staged(p)' \ {p}) \cup uow'[p].todo \subseteq Stored
      BY <1>a, <1>d, <2>1 DEF Staged, UowType
    <2> QED
      BY <1>5, <1>e, <2>1, <2>2 DEF LockSubmittedWallet, Database, Inserting
  <1>6. CASE Decide(p)
    <2>1. (Staged(p)' \ {p}) \cup uow'[p].todo \subseteq Stored
      BY <1>6, <1>j, DecideSettles
    <2>2. rows' = rows /\ pc'[p] = "insert" /\ answer' = answer
      BY <1>a, <1>6 DEF Decide, Go, Database
    <2> QED
      BY <1>e, <2>1, <2>2 DEF Inserting
  <1>7. CASE Insert(p)
    <2>1. CASE /\ \E t \in Stored : Collide(input[p], input[t])
               /\ Rollback(p) /\ Go(p, "lost")
      <3>1. pc'[p] = "lost" /\ rows' = rows /\ answer' = answer /\ uow'[p] = EmptyUow
        BY <1>a, <1>7, <2>1, ReleaseFrame DEF Insert, Rollback, Go, Database
      <3> QED
        BY <1>a, <1>b, <1>c, <1>i, <2>1, <3>1, SubmitKept DEF Inserting
    <2>2. CASE /\ \A t \in Stored : ~Collide(input[p], input[t])
               /\ \E label : Go(p, label) /\ label \in {"fk", "find", "commit"}
               /\ UNCHANGED <<uow, Database, Locks>>
      <3>1. pc'[p] \notin {"idle", "lost"} /\ rows' = rows /\ answer' = answer /\ uow' = uow
        BY <1>a, <1>7, <2>2 DEF Insert, Go, Database
      <3>2. \A t \in Inserting \ {p} : ~Collide(input[p], input[t])
        BY <1>7 DEF Insert, InsertBlockers
      <3> QED
        BY <1>a, <1>b, <1>c, <1>h, <2>2, <3>1, <3>2, SubmitKept
    <2> QED
      BY <1>7, <2>1, <2>2 DEF Insert
  <1>8. CASE CheckForeignKey(p)
    <2>1. CASE Rollback(p) /\ Return(p, Failed("ERROR"))
      BY <1>a, <1>e, <1>g, <1>i, <2>1, ReleaseFrame DEF Rollback, Database, Inserting
    <2>2. CASE Go(p, "commit") /\ UNCHANGED <<uow, Database, Locks, answer>>
      BY <1>a, <1>8, <1>e, <1>h, <2>2 DEF CheckForeignKey, Go, Database, Inserting
    <2> QED
      BY <1>8, <2>1, <2>2 DEF CheckForeignKey
  <1>9. CASE LostRace(p)
    <2>1. rows' = rows /\ uow' = uow
      BY <1>9 DEF LostRace, Database
    <2>2. CASE Winners(p) = {}
      BY <1>9, <1>e, <1>g, <1>h, <2>1, <2>2 DEF LostRace, Inserting
    <2>3. CASE Winners(p) # {}
      <3>1. PICK t \in Winners(p) : Return(p, ReplayOrConflict(p, t))
        BY <1>9, <2>3 DEF LostRace
      <3>2. t \in Stored
        BY DEF Winners, FindByKey, FindByExt
      <3> QED
        BY <1>e, <1>f, <1>h, <2>1, <3>1, <3>2 DEF Inserting
    <2> QED
      BY <2>2, <2>3
  <1>10. CASE FindPending(p)
    <2> DEFINE todo == PendingFor(input[p].ext)
               u == [uow[p] EXCEPT !.todo = todo, !.reversed = AlreadyReversed(input[p].ext)]
    <2>1. uow'[p] = u /\ rows' = rows /\ answer' = answer /\ pc'[p] \in {"commit", "resolve"}
      BY <1>a, <1>10 DEF FindPending, Go, Database
    <2>2. todo \subseteq Stored
      BY DEF PendingFor
    <2>3. u.todo = todo /\ u.writes = uow[p].writes
      BY <1>a DEF UowType
    <2>4. (Staged(p)' \ {p}) \cup uow'[p].todo \subseteq Stored
      BY <1>d, <2>1, <2>2, <2>3 DEF Staged
    <2>5. p \in Inserting
      BY <1>10 DEF FindPending, Inserting
    <2> QED
      BY <1>e, <2>1, <2>4, <2>5
  <1>11. CASE \E t \in Request : ResolvePending(p, t)
    <2> PICK t \in Request : ResolvePending(p, t)
      BY <1>11
    <2> DEFINE u == Reverse(uow[p], t, p, input[p].wallet, uow[p].reversed)
               v == [u EXCEPT !.todo = uow[p].todo \ {t},
                              !.reversed = @ \/ u.writes[t].status = "PROCESSED"]
    <2>1. /\ t \in uow[p].todo /\ pc[p] = "resolve"
          /\ uow'[p] = v
          /\ rows' = rows /\ answer' = answer
          /\ pc'[p] \in {"commit", "resolve"}
      BY <1>a DEF ResolvePending, Stage, Go, Database
    <2>2. Settles(uow[p], u, t)
      BY <1>a, <2>1, ReverseSettles DEF TypeInv, UowOK, ControlOK, Known
    <2>3. /\ v.todo \subseteq uow[p].todo
          /\ \A s \in Request \ {t} : v.writes[s] = uow[p].writes[s]
      BY <2>2 DEF Settles, UowType
    <2> HIDE DEF v
    <2>4. (Staged(p)' \ {p}) \cup uow'[p].todo \subseteq Stored
      BY <1>d, <2>1, <2>3 DEF Staged
    <2>5. p \in Inserting
      BY <2>1 DEF Inserting
    <2> QED
      BY <1>e, <2>1, <2>4, <2>5
  <1>12. CASE Commit(p)
    <2>1. /\ pc'[p] = "done" /\ uow'[p] = EmptyUow
          /\ answer'[p].tx = p
      BY <1>a, <1>12, ReleaseFrame DEF Commit, Return, Go, FirstAnswer
    <2>2. p \in Stored'
      BY <1>a, <1>12, ApplyStores DEF Commit, Staged, TypeInv, ControlOK, Staging
    <2>3. Backed(p)'
      BY <2>1, <2>2 DEF Backed, SamePayload
    <2> QED
      BY <1>a, <1>b, <1>i, <2>1, <2>3, SubmitKept DEF Inserting
  <1> QED
    BY <1>1, <1>2, <1>3, <1>4, <1>5, <1>6, <1>7, <1>8, <1>9, <1>10, <1>11, <1>12
       DEF ExecuteStep

\* Every step of a worker keeps the rows apart.
LEMMA WorkerSubmitInv ==
  ASSUME TypeInv, TypeInv', SubmitInv, NEW k \in Worker, StepOf(k),
         Pick(k) \/ RetryStep(k) \/ AbortWorker(k)
  PROVE  SubmitInv'
  <1>a. /\ k \in Process /\ k \notin Request
        /\ pc \in [Process -> Label] /\ uow \in [Process -> UowType]
        /\ target \in [Worker -> Request \cup {None}]
    BY ConstantsAssumption DEF Process, TypeInv, ControlOK, UowOK, InputsOK
  <1>b. (Staged(k) \ {k}) \cup uow[k].todo \subseteq Stored
    BY <1>a DEF SubmitInv, RowsKnown
  <1>c. k \notin Inserting'
    BY <1>a DEF Inserting
  <1>d. ASSUME (Staged(k)' \ {k}) \cup uow'[k].todo \subseteq Stored,
               pc'[k] # "idle" => target'[k] \in Stored
        PROVE  SubmitInv'
    BY <1>a, <1>c, <1>d, SubmitKept
  <1>e. ASSUME uow'[k] = EmptyUow
        PROVE  (Staged(k)' \ {k}) \cup uow'[k].todo \subseteq Stored
    BY <1>e DEF Staged, EmptyUow
  <1>f. pc[k] # "idle" => target'[k] = target[k] /\ target[k] \in Stored
    BY DEF StepOf, SubmitInv, RowsKnown
  <1>1. CASE Pick(k)
    <2>1. target'[k] \in Stored /\ uow' = uow
      BY <1>a, <1>1 DEF Pick
    <2> QED
      BY <1>b, <1>d, <2>1 DEF Staged
  <1>2. CASE AbortWorker(k)
    BY <1>a, <1>2, <1>d, <1>e, <1>f, ReleaseFrame DEF AbortWorker, Rollback
  <1>3. CASE WorkerLockWallet(k)
    <2>1. uow'[k] = [uow[k] EXCEPT !.wallet = wallets[WalletOf(k)]] /\ pc[k] # "idle"
      BY <1>a, <1>3, LockFrame DEF WorkerLockWallet, WalletOf, TypeInv, ControlOK, Known
    <2>2. (Staged(k)' \ {k}) \cup uow'[k].todo \subseteq Stored
      BY <1>a, <1>b, <2>1 DEF Staged, UowType
    <2> QED
      BY <1>d, <1>f, <2>1, <2>2
  <1>4. CASE WorkerLockRow(k)
    <2>1. pc[k] # "idle" /\ (uow' = uow \/ uow'[k] = EmptyUow)
      BY <1>a, <1>4, ReleaseFrame DEF WorkerLockRow
    <2>2. (Staged(k)' \ {k}) \cup uow'[k].todo \subseteq Stored
      BY <1>b, <1>e, <2>1 DEF Staged
    <2> QED
      BY <1>d, <1>f, <2>1, <2>2
  <1>5. CASE PutOff(k)
    BY <1>a, <1>5, <1>d, <1>e, <1>f, ReleaseFrame DEF PutOff, Rollback
  <1>6. CASE Retry(k)
    <2>1. pc[k] # "idle"
      BY <1>6 DEF Retry
    <2>2. PICK u : Stage(k, u) /\ Settles(uow[k], u, target[k])
      BY <1>6, RetrySettles
    <2>3. (Staged(k)' \ {k}) \cup uow'[k].todo \subseteq Stored
      BY <1>a, <1>b, <1>f, <2>1, <2>2 DEF Staged, Settles, Stage
    <2> QED
      BY <1>d, <1>f, <2>1, <2>3
  <1>7. CASE WorkerCommit(k)
    BY <1>a, <1>7, <1>d, <1>e, <1>f, ReleaseFrame DEF WorkerCommit
  <1> QED
    BY <1>1, <1>2, <1>3, <1>4, <1>5, <1>6, <1>7 DEF RetryStep

\* Arrivals and failures keep the rows apart.
LEMMA RequestSubmitInv ==
  ASSUME TypeInv, TypeInv', SubmitInv, NEW p \in Request, StepOf(p),
         Arrive(p) \/ AbortRequest(p)
  PROVE  SubmitInv'
  <1>a. /\ p \in Process /\ p \notin Worker
        /\ pc \in [Process -> Label] /\ answer \in [Request -> AnswerType]
    BY ConstantsAssumption DEF Process, TypeInv, ControlOK, InputsOK
  <1>b. (Staged(p) \ {p}) \cup uow[p].todo \subseteq Stored
    BY <1>a DEF SubmitInv, RowsKnown
  <1>c. answer[p].tx = None
    BY <1>a DEF SubmitInv, AnswersBacked, StepOf
  <1>1. CASE Arrive(p)
    <2>1. pc'[p] = "checkKey" /\ uow' = uow /\ rows' = rows /\ answer' = answer
      BY <1>a, <1>1 DEF Arrive, Go, Database
    <2>2. (Staged(p)' \ {p}) \cup uow'[p].todo \subseteq Stored
      BY <1>b, <2>1 DEF Staged
    <2> QED
      BY <1>a, <1>c, <2>1, <2>2, SubmitKept DEF Inserting
  <1>2. CASE AbortRequest(p)
    <2>1. /\ pc'[p] = "done" /\ uow'[p] = EmptyUow /\ rows' = rows
          /\ answer'[p].tx = None
      BY <1>a, <1>2, ReleaseFrame DEF AbortRequest, Rollback, Return, Go, Failed, Database
    <2>2. (Staged(p)' \ {p}) \cup uow'[p].todo \subseteq Stored
      BY <2>1 DEF Staged, EmptyUow
    <2> QED
      BY <1>a, <2>1, <2>2, SubmitKept DEF Inserting
  <1> QED
    BY <1>1, <1>2

\* Nothing is stored, staged or answered at first.
LEMMA InitSubmitInv == Init => SubmitInv
  <1> SUFFICES ASSUME Init PROVE SubmitInv
    OBVIOUS
  <1>1. Stored = {} /\ Inserting = {}
    BY DEF Init, Stored, NoRow, Inserting, Process
  <1>2. RowsKnown
    BY <1>1 DEF Init, RowsKnown, Staged, EmptyUow, Process
  <1>3. LostToStored /\ AnswersBacked
    BY DEF Init, LostToStored, AnswersBacked, Failed, Process
  <1> QED
    BY <1>1, <1>2, <1>3 DEF SubmitInv, Unique

\* Every step of the system keeps the rows apart.
LEMMA NextSubmitInv == TypeInv /\ TypeInv' /\ SubmitInv /\ [Next]_vars => SubmitInv'
  <1> SUFFICES ASSUME TypeInv, TypeInv', SubmitInv, [Next]_vars PROVE SubmitInv'
    OBVIOUS
  <1>1. CASE Next
    BY <1>1, NextStepOf, ExecuteStepSubmitInv, RequestSubmitInv, WorkerSubmitInv
  <1>2. CASE UNCHANGED vars
    BY <1>2
       DEF vars, SubmitInv, RowsKnown, Unique, LostToStored, AnswersBacked, Backed, Staged,
           Stored, Inserting
  <1> QED
    BY <1>1, <1>2

\* The rows of the table and of the transactions in flight never collide.
LEMMA SubmitInvHolds == Spec => []SubmitInv
  BY TypeInvHolds, InitSubmitInv, NextSubmitInv, PTL DEF Spec

\* However many copies of a submission race, a transaction that loses the race to insert
\* finds the row that won it.
THEOREM LosersFindWinners == Spec => []LoserFindsWinner
  <1>1. SubmitInv => LoserFindsWinner
    BY DEF SubmitInv, LostToStored, LoserFindsWinner, Winners, FindByKey, FindByExt, Collide
  <1> QED
    BY <1>1, SubmitInvHolds, PTL

\* An answer that names a transaction names one stored with the caller's own payload,
\* and all answers about one external identifier name the same transaction.
THEOREM AnswersDoAgree == Spec => []AnswersAgree
  <1>1. ASSUME TypeInv, SubmitInv, NEW p \in Request, NEW q \in Request,
               answer[p].tx # None
        PROVE  /\ answer[p].tx \in Stored
               /\ SamePayload(input[p], input[answer[p].tx])
               /\ answer[q].tx # None /\ input[q].ext = input[p].ext
                    => answer[q].tx = answer[p].tx
    <2>1. Backed(p) /\ (answer[q].tx # None => Backed(q))
      BY <1>1 DEF SubmitInv, AnswersBacked
    <2>2. ASSUME NEW r \in Request, answer[r].tx # None
          PROVE  /\ answer[r].tx \in Stored
                 /\ input[answer[r].tx].ext = input[r].ext
      <3> DEFINE t == answer[r].tx
      <3>1. t \in Stored /\ SamePayload(input[r], input[t]) /\ pc[r] = "done"
        BY <1>1, <2>2 DEF SubmitInv, AnswersBacked, Backed
      <3>2. "ext" \in DOMAIN input[r] /\ "ext" \in DOMAIN input[t]
        BY <1>1, <3>1, StoredKnown, ConstantsAssumption
           DEF Fields, TypeInv, ControlOK, Submitted
      <3> HIDE DEF t
      <3>3. /\ [input[r] EXCEPT !.key = None].ext = input[r].ext
            /\ [input[t] EXCEPT !.key = None].ext = input[t].ext
        BY <3>2
      <3> QED
        BY <3>1, <3>3 DEF SamePayload, t
    <2> QED
      BY <1>1, <2>1, <2>2 DEF Backed, SubmitInv, Unique, Collide
  <1>2. TypeInv /\ SubmitInv => AnswersAgree
    BY <1>1 DEF AnswersAgree
  <1> QED
    BY <1>2, TypeInvHolds, SubmitInvHolds, PTL

-----------------------------------------------------------------------------
(* A transaction is reversed once, by a reversal that matches it. *)

\* The rows of others that process p has settled: those a request resolves after its own,
\* and the one a worker retries.
Foreign(p) == Staged(p) \ {p}

\* What reversal t must have in common with the transaction r it undoes.
Matches(t, r) ==
  /\ input[r].ext = input[t].ref
  /\ input[r].kind \in AllowedReferenceKinds(input[t].kind)
  /\ input[r].wallet = input[t].wallet
  /\ input[r].player = input[t].player
  /\ input[r].round = input[t].round
  /\ input[r].currency = input[t].currency
  /\ input[r].amount = input[t].amount

\* The reversals that are applied, and those that process p is about to apply.
Undone == {t \in Stored : rows[t].status = "PROCESSED" /\ input[t].kind \in Reversal}
Undoing(p) ==
  {t \in Request : uow[p].writes[t].status = "PROCESSED" /\ input[t].kind \in Reversal}

Announced(t) ==
  \E n \in DOMAIN outbox[input[t].wallet] :
    outbox[input[t].wallet][n] = Event("PendingReference", t, 0)

\* What a request has staged and has yet to do.  The rows it resolves are not locked
\* while they are in todo: those of its own wallet are protected by the wallet's lock,
\* those of another wallet can be rejected by a worker meanwhile but not processed, since
\* that takes the row of this request, which is not committed.
RequestRows(p) ==
  /\ uow[p].todo # {} => pc[p] = "resolve"
  /\ p \in Staged(p) => pc[p] \in Staging
  /\ Foreign(p) # {} => pc[p] \in {"resolve", "commit"}
  /\ pc[p] \in {"find", "resolve"} \/ Foreign(p) # {} =>
       uow[p].writes[p].status = "PROCESSED"
  /\ uow[p].writes[p].status = "PENDING_REFERENCE" => input[p].kind \in Reversal
  /\ \A t \in Foreign(p) \cup uow[p].todo :
       /\ input[t].kind \in Reversal
       /\ input[t].ref = input[p].ext
       /\ rows[t].status \in {"PENDING_REFERENCE", "REJECTED"}
       /\ input[t].wallet = input[p].wallet => rows[t].status = "PENDING_REFERENCE"

WorkerRows(k) ==
  /\ uow[k].todo = {}
  /\ \A t \in Staged(k) : pc[k] = "commit" /\ t = target[k]
  /\ pc[k] \in {"decide", "commit"} =>
       rowLock[target[k]] = k /\ rows[target[k]].status = "PENDING_REFERENCE"
  /\ pc[k] = "commit" => Holds(k)

\* A process has the locks of what it writes.
Guarded(p) ==
  /\ \A t \in Foreign(p) :
       rowLock[t] = p /\ uow[p].writes[t].status # "PENDING_REFERENCE"
  /\ \A t \in Request :
       uow[p].writes[t].status \in {"PROCESSED", "PENDING_REFERENCE"} =>
         Holds(p) /\ input[t].wallet = WalletOf(p)

\* The reversals a process is about to apply undo what was not undone.
Undoes(p) ==
  /\ \A t \in Undoing(p) :
       LET r == uow[p].writes[t].refTx
       IN /\ r \in Request /\ Matches(t, r)
          /\ rows[r].status = "PROCESSED" \/ (r = p /\ t # p)
  /\ \A t \in Undoing(p) : \A s \in Undone : input[s].ref # input[t].ref
  /\ \A s, t \in Undoing(p) : input[s].ref = input[t].ref => s = t
  /\ Undoing(p) \ {p} # {} /\ p \in Request => uow[p].reversed

\* A request that leaves itself waiting has seen no reference that could resolve it, and
\* one that is processed has seen everything that waits for it in its wallet.
Wakes(p) ==
  /\ uow[p].writes[p].status = "PENDING_REFERENCE" =>
       /\ \E n \in DOMAIN uow[p].events[input[p].wallet] :
            uow[p].events[input[p].wallet][n] = Event("PendingReference", p, 0)
       /\ \A r \in ProcessedReference(input[p].ref) :
            input[r].wallet = input[p].wallet => Announced(r)
  /\ pc[p] \in {"resolve", "commit"} /\ uow[p].writes[p].status = "PROCESSED" =>
       \A t \in PendingFor(input[p].ext) :
         input[t].wallet = input[p].wallet => t \in uow[p].todo \cup Staged(p)

ProcessOK(p) ==
  /\ p \in Request => RequestRows(p) /\ Wakes(p)
  /\ p \in Worker => WorkerRows(p)
  /\ Guarded(p)
  /\ Undoes(p)

StoredOK ==
  /\ \A t \in Stored : rows[t].status = "PENDING_REFERENCE" =>
                         input[t].kind \in Reversal /\ Announced(t)
  /\ \A t \in Undone : /\ rows[t].refTx \in Stored
                       /\ rows[rows[t].refTx].status = "PROCESSED"
                       /\ Matches(t, rows[t].refTx)
  /\ \A s, t \in Undone : input[s].ref = input[t].ref => s = t
  /\ NoLostWakeup

ReversalInv == StoredOK /\ \A p \in Process : ProcessOK(p)

\* Only an absent row has status NONE.
LEMMA AbsentRow ==
  /\ \A row \in RowType : row.status = "NONE" <=> row = NoRow
  /\ NoRow.status = "NONE"
  BY DEF RowType, NoRow

\* What a step leaves alone: the submissions of rows, stored and inserted, and the locks
\* and wallets of the others.
LEMMA StepKeeps ==
  ASSUME TypeInv, SubmitInv, NEW p \in Process, StepOf(p)
  PROVE  /\ \A t \in Stored \cup Inserting : input'[t] = input[t]
         /\ \A q \in Process \ {p} : pc[q] # "idle" =>
              WalletOf(q)' = WalletOf(q) /\ Holds(q)' = Holds(q)
  <1>1. \A t \in Stored \cup Inserting : input'[t] = input[t]
    BY DEF StepOf, SubmitInv, RowsKnown, Stored, Inserting
  <1>2. ASSUME NEW q \in Process \ {p}, pc[q] # "idle"
        PROVE  WalletOf(q)' = WalletOf(q) /\ Holds(q)' = Holds(q)
    <2>1. WalletOf(q)' = WalletOf(q)
      <3>1. CASE q \in Worker
        BY <1>1, <1>2, <3>1 DEF StepOf, WalletOf, SubmitInv, RowsKnown
      <3>2. CASE q \notin Worker
        BY <1>2, <3>2 DEF StepOf, WalletOf, Process
      <3> QED
        BY <3>1, <3>2
    <2> QED
      BY <2>1 DEF StepOf, Holds
  <1> QED
    BY <1>1, <1>2

\* The holder of a wallet's lock is one.
LEMMA OneHolder ==
  ASSUME NEW p \in Process, NEW q \in Process, Holds(p), Holds(q), WalletOf(p) = WalletOf(q)
  PROVE  p = q
  BY DEF Holds

\* A stored row is changed only by the commit of a process that has its lock, and it was
\* a reversal that waits, or one that was rejected in another wallet.
LEMMA RowsChange ==
  ASSUME TypeInv, SubmitInv, ReversalInv, NEW p \in Process, StepOf(p),
         NEW t \in Request, rows'[t] # rows[t]
  PROVE  /\ pc[p] = "commit" /\ Apply(p) /\ t \in Staged(p)
         /\ rows'[t] = uow[p].writes[t]
         /\ \/ t = p /\ p \in Inserting /\ t \notin Stored
            \/ /\ t \in Foreign(p) /\ t \in Stored
               /\ rowLock[t] = p
               /\ input[t].kind \in Reversal
               /\ rows[t].status \in {"PENDING_REFERENCE", "REJECTED"}
               /\ rows[t].status = "REJECTED" =>
                    p \in Request /\ input[t].wallet # input[p].wallet
               /\ uow[p].writes[t].status \in {"PROCESSED", "REJECTED"}
  <1>1. pc[p] = "commit" /\ Apply(p)
    BY DEF StepOf, Database
  <1>2. t \in Staged(p) /\ rows'[t] = uow[p].writes[t]
    BY <1>1 DEF Apply, Staged
  <1>3. CASE t = p
    BY <1>1, <1>2, <1>3 DEF SubmitInv, RowsKnown, Inserting, Stored
  <1>4. CASE t # p
    <2>1. t \in Foreign(p) /\ t \in Stored
      BY <1>2, <1>4 DEF Foreign, SubmitInv, RowsKnown
    <2>2. rowLock[t] = p /\ uow[p].writes[t].status # "PENDING_REFERENCE"
      BY <2>1 DEF ReversalInv, ProcessOK, Guarded
    <2>3. uow[p].writes[t] \in RowType /\ uow[p].writes[t].status # "NONE"
      BY <1>2, AbsentRow DEF Staged, TypeInv, UowOK, UowType
    <2>4. uow[p].writes[t].status \in {"PROCESSED", "REJECTED"}
      BY <2>2, <2>3 DEF RowType
    <2>5. CASE p \in Request
      BY <1>1, <1>2, <2>1, <2>2, <2>4, <2>5 DEF ReversalInv, ProcessOK, RequestRows
    <2>6. CASE p \in Worker
      <3>1. rows[t].status = "PENDING_REFERENCE"
        BY <1>1, <1>2, <2>6 DEF ReversalInv, ProcessOK, WorkerRows
      <3> QED
        BY <1>1, <1>2, <2>1, <2>2, <2>4, <3>1 DEF ReversalInv, StoredOK
    <2> QED
      BY <2>5, <2>6 DEF Process
  <1> QED
    BY <1>3, <1>4

\* A processed row never changes again.
LEMMA ProcessedIsFinal ==
  ASSUME TypeInv, SubmitInv, ReversalInv, NEW p \in Process, StepOf(p),
         NEW t \in Request, rows[t].status = "PROCESSED"
  PROVE  rows'[t] = rows[t]
  BY RowsChange DEF Stored

\* Every row a process has staged has a submission that stays.
LEMMA StagedKnown ==
  ASSUME TypeInv, SubmitInv, ReversalInv, NEW q \in Process, NEW t \in Staged(q)
  PROVE  t \in Request /\ pc[t] # "idle"
  <1>1. CASE t = q
    BY <1>1 DEF ReversalInv, ProcessOK, RequestRows, Staging, Staged
  <1>2. CASE t # q
    BY <1>2 DEF SubmitInv, RowsKnown, Stored, Staged
  <1> QED
    BY <1>1, <1>2

\* What a process is about to undo it has staged, and the undone is stored or inserted.
LEMMA UndoingKnown ==
  ASSUME TypeInv, SubmitInv, ReversalInv, NEW q \in Process, NEW t \in Undoing(q)
  PROVE  LET r == uow[q].writes[t].refTx
         IN /\ t \in Staged(q) /\ pc[t] # "idle"
            /\ r \in Stored \cup Inserting
            /\ Matches(t, r)
            /\ Holds(q) /\ input[t].wallet = WalletOf(q)
  <1> DEFINE r == uow[q].writes[t].refTx
  <1>1. t \in Staged(q)
    BY AbsentRow DEF Undoing, Staged
  <1>2. /\ r \in Request /\ Matches(t, r)
        /\ rows[r].status = "PROCESSED" \/ (r = q /\ t # q)
    BY DEF ReversalInv, ProcessOK, Undoes
  <1>3. r = q /\ t # q => q \in Inserting
    <2>1. r = q /\ t # q => Foreign(q) # {} /\ q \in Request
      BY <1>1, <1>2 DEF Foreign
    <2> QED
      BY <2>1 DEF ReversalInv, ProcessOK, RequestRows, Inserting
  <1>4. Holds(q) /\ input[t].wallet = WalletOf(q)
    BY DEF Undoing, ReversalInv, ProcessOK, Guarded
  <1> QED
    BY <1>1, <1>2, <1>3, <1>4, StagedKnown DEF Stored

\* A row is undone by a step only if the step commits it.
LEMMA UndoneGrows ==
  ASSUME TypeInv, SubmitInv, ReversalInv, NEW p \in Process, StepOf(p), NEW t \in Undone'
  PROVE  \/ t \in Undone /\ rows'[t] = rows[t]
         \/ /\ t \in Undoing(p) /\ rows'[t] = uow[p].writes[t]
            /\ pc[p] = "commit" /\ Apply(p)
  <1>1. t \in Request /\ rows'[t].status = "PROCESSED" /\ input'[t].kind \in Reversal
    BY DEF Undone, Stored
  <1>2. CASE rows'[t] = rows[t]
    BY <1>1, <1>2, StepKeeps DEF Undone, Stored
  <1>3. CASE rows'[t] # rows[t]
    <2>1. /\ pc[p] = "commit" /\ Apply(p) /\ t \in Staged(p)
          /\ rows'[t] = uow[p].writes[t]
      BY <1>1, <1>3, RowsChange
    <2>2. input'[t] = input[t]
      BY <2>1, StagedKnown DEF StepOf
    <2> QED
      BY <1>1, <2>1, <2>2 DEF Undoing
  <1> QED
    BY <1>2, <1>3

\* A request that still has rows of its wallet to resolve is not disturbed.
LEMMA RequestRowsKept ==
  ASSUME TypeInv, SubmitInv, ReversalInv, NEW p \in Process, StepOf(p),
         NEW q \in Request, q # p
  PROVE  RequestRows(q)'
  <1>a. q \in Process /\ uow'[q] = uow[q] /\ pc'[q] = pc[q]
        /\ Staged(q)' = Staged(q) /\ Foreign(q)' = Foreign(q)
    BY DEF Process, StepOf, Staged, Foreign
  <1>b. RequestRows(q) /\ Guarded(q)
    BY <1>a DEF ReversalInv, ProcessOK
  <1>c. pc[q] # "idle" => input'[q] = input[q]
    BY DEF StepOf
  <1>1. ASSUME NEW t \in Foreign(q) \cup uow[q].todo
        PROVE  /\ input'[t].kind \in Reversal
               /\ input'[t].ref = input'[q].ext
               /\ rows'[t].status \in {"PENDING_REFERENCE", "REJECTED"}
               /\ input'[t].wallet = input'[q].wallet => rows'[t].status = "PENDING_REFERENCE"
    <2>1. t \in Stored /\ input'[t] = input[t]
      BY <1>a, StepKeeps DEF SubmitInv, RowsKnown, Foreign
    <2>2. pc[q] \in {"resolve", "commit"} /\ uow[q].writes[q].status = "PROCESSED"
      BY <1>b DEF RequestRows
    <2>3. CASE rows'[t] = rows[t]
      BY <1>b, <1>c, <2>1, <2>2, <2>3 DEF RequestRows
    <2>4. CASE rows'[t] # rows[t]
      <3>1. /\ t \in Foreign(p) /\ rowLock[t] = p
            /\ pc[p] = "commit"
            /\ rows'[t] = uow[p].writes[t]
            /\ uow[p].writes[t].status \in {"PROCESSED", "REJECTED"}
        BY <2>1, <2>4, RowsChange DEF Stored
      <3>2. t \in uow[q].todo
        BY <1>a, <1>b, <3>1 DEF Guarded
      <3>3. input[t].ref = input[q].ext /\ q \in Inserting /\ Holds(q)
        BY <1>b, <2>2, <3>2 DEF RequestRows, Guarded, Inserting
      \* Another request with the same waiters would have the same identifier.
      <3>4. p \notin Request
        <4> SUFFICES ASSUME p \in Request PROVE FALSE
          OBVIOUS
        <4>1. input[t].ref = input[p].ext /\ p \in Inserting
          BY <3>1 DEF ReversalInv, ProcessOK, RequestRows, Inserting
        <4> QED
          BY <3>3, <4>1 DEF SubmitInv, Unique, Collide
      \* A worker would have found the row of this request committed.
      <3>5. uow[p].writes[t].status # "PROCESSED"
        <4> SUFFICES ASSUME uow[p].writes[t].status = "PROCESSED" PROVE FALSE
          OBVIOUS
        <4>1. t \in Undoing(p)
          BY <1>b, <2>1, <3>2 DEF Undoing, Stored, RequestRows
        <4> DEFINE r == uow[p].writes[t].refTx
        <4>2. r \in Request /\ Matches(t, r) /\ rows[r].status = "PROCESSED"
          BY <3>4, <4>1 DEF ReversalInv, ProcessOK, Undoes
        <4>3. r \in Stored /\ input[r].ext = input[q].ext
          BY <3>3, <4>2 DEF Stored, Matches
        <4>4. r = q
          BY <3>3, <4>3 DEF SubmitInv, Unique, Collide
        <4> QED
          BY <2>2, <4>3, <4>4 DEF SubmitInv, RowsKnown
      <3>6. input[t].wallet # input[q].wallet
        <4>1. t = target[p] /\ Holds(p) /\ p \in Worker
          BY <3>1, <3>4 DEF ReversalInv, ProcessOK, WorkerRows, Process, Foreign
        <4>2. WalletOf(p) = input[t].wallet /\ WalletOf(q) = input[q].wallet
          BY <3>4, <4>1, ConstantsAssumption DEF WalletOf
        <4> QED
          BY <1>a, <3>3, <4>1, <4>2, OneHolder
      <3> QED
        BY <1>b, <1>c, <2>1, <2>2, <3>1, <3>2, <3>5, <3>6 DEF RequestRows
    <2> QED
      BY <2>3, <2>4
  <1>2. uow[q].writes[q].status = "PENDING_REFERENCE" => input'[q].kind \in Reversal
    <2>1. uow[q].writes[q].status = "PENDING_REFERENCE" => q \in Staged(q)
      BY AbsentRow DEF Staged
    <2> QED
      BY <1>a, <1>b, <1>c, <2>1, StagedKnown DEF RequestRows
  <1> QED
    BY <1>a, <1>b, <1>1, <1>2 DEF RequestRows

\* Nor is a worker, which has locked the row it retries.
LEMMA WorkerRowsKept ==
  ASSUME TypeInv, SubmitInv, ReversalInv, NEW p \in Process, StepOf(p),
         NEW k \in Worker, k # p
  PROVE  WorkerRows(k)'
  <1>a. k \in Process /\ uow'[k] = uow[k] /\ pc'[k] = pc[k] /\ target'[k] = target[k]
        /\ Staged(k)' = Staged(k)
    BY DEF Process, StepOf, Staged
  <1>b. WorkerRows(k)
    BY <1>a DEF ReversalInv, ProcessOK
  <1>1. ASSUME pc[k] \in {"decide", "commit"}
        PROVE  rowLock'[target[k]] = k /\ rows'[target[k]] = rows[target[k]]
    <2>1. target[k] \in Stored /\ rowLock[target[k]] = k
      BY <1>a, <1>b, <1>1 DEF WorkerRows, SubmitInv, RowsKnown
    <2> QED
      BY <1>a, <2>1, RowsChange DEF StepOf, Stored
  <1>2. pc[k] = "commit" => Holds(k)'
    BY <1>a, <1>b, StepKeeps DEF WorkerRows
  <1> QED
    BY <1>a, <1>b, <1>1, <1>2 DEF WorkerRows

\* The locks of the others stay theirs.
LEMMA GuardedKept ==
  ASSUME TypeInv, SubmitInv, ReversalInv, NEW p \in Process, StepOf(p),
         NEW q \in Process, q # p
  PROVE  Guarded(q)'
  <1>a. uow'[q] = uow[q] /\ pc'[q] = pc[q] /\ Foreign(q)' = Foreign(q)
    BY DEF StepOf, Staged, Foreign
  <1>b. Guarded(q)
    BY DEF ReversalInv, ProcessOK
  <1>1. ASSUME NEW t \in Request, uow[q].writes[t].status \in {"PROCESSED", "PENDING_REFERENCE"}
        PROVE  Holds(q)' /\ input'[t].wallet = WalletOf(q)'
    <2>1. t \in Staged(q)
      BY <1>1, AbsentRow DEF Staged
    <2>2. input'[t] = input[t]
      BY <2>1, StagedKnown DEF StepOf
    <2>3. pc[q] # "idle"
      BY <1>1, <1>b DEF Guarded, Holds, TypeInv, ControlOK, Quiet
    <2> QED
      BY <1>1, <1>b, <2>2, <2>3, StepKeeps DEF Guarded
  <1>2. \A t \in Foreign(q) : rowLock'[t] = q
    BY <1>b DEF Guarded, StepOf, Foreign, Staged
  <1> QED
    BY <1>a, <1>b, <1>1, <1>2 DEF Guarded

\* Two processes never undo the same transaction: both would hold the lock of its wallet.
LEMMA UndoesKept ==
  ASSUME TypeInv, SubmitInv, ReversalInv, NEW p \in Process, StepOf(p),
         NEW q \in Process, q # p
  PROVE  Undoes(q)'
  <1>a. uow'[q] = uow[q]
    BY DEF StepOf
  <1>b. Undoes(q)
    BY DEF ReversalInv, ProcessOK
  <1>c. ASSUME NEW t \in Staged(q)
        PROVE  input'[t] = input[t]
    BY StagedKnown DEF StepOf
  <1>d. Undoing(q)' = Undoing(q)
    <2>1. \A t \in Request : uow[q].writes[t].status = "PROCESSED" => t \in Staged(q)
      BY AbsentRow DEF Staged
    <2> QED
      BY <1>a, <1>c, <2>1 DEF Undoing
  <1>1. ASSUME NEW t \in Undoing(q)
        PROVE  LET r == uow[q].writes[t].refTx
               IN /\ r \in Request /\ Matches(t, r)'
                  /\ rows'[r].status = "PROCESSED" \/ (r = q /\ t # q)
    <2> DEFINE r == uow[q].writes[t].refTx
    <2>1. t \in Staged(q) /\ r \in Stored \cup Inserting /\ Matches(t, r)
      BY UndoingKnown
    <2>2. input'[t] = input[t] /\ input'[r] = input[r]
      BY <1>c, <2>1, StepKeeps
    <2>3. r \in Request /\ (rows[r].status = "PROCESSED" \/ (r = q /\ t # q))
      BY <1>b DEF Undoes
    <2> HIDE DEF r
    <2>4. rows'[r].status = "PROCESSED" \/ (r = q /\ t # q)
      BY <2>3, ProcessedIsFinal
    <2> QED
      BY <1>a, <2>1, <2>2, <2>3, <2>4 DEF Matches, r
  <1>2. ASSUME NEW t \in Undoing(q), NEW s \in Undone'
        PROVE  input'[s].ref # input'[t].ref
    <2>1. input'[t] = input[t]
      BY <1>c, UndoingKnown
    <2>2. CASE s \in Undone
      BY <1>b, <2>1, <2>2, StepKeeps DEF Undoes, Undone
    <2>3. CASE s \in Undoing(p)
      <3> DEFINE x == uow[p].writes[s].refTx
                 y == uow[q].writes[t].refTx
      <3>1. /\ x \in Stored \cup Inserting /\ Matches(s, x) /\ pc[s] # "idle" /\ s \in Request
            /\ Holds(p) /\ input[s].wallet = WalletOf(p)
        BY <2>3, UndoingKnown DEF Staged
      <3>2. /\ y \in Stored \cup Inserting /\ Matches(t, y)
            /\ Holds(q) /\ input[t].wallet = WalletOf(q)
        BY UndoingKnown
      <3>3. input'[s] = input[s]
        BY <3>1 DEF StepOf
      <3> HIDE DEF x, y
      <3>4. input[s].ref = input[t].ref => x = y
        BY <3>1, <3>2 DEF Matches, SubmitInv, Unique, Collide
      <3>5. input[s].ref = input[t].ref => WalletOf(p) = WalletOf(q)
        BY <3>1, <3>2, <3>4 DEF Matches
      <3> QED
        BY <2>1, <3>1, <3>2, <3>3, <3>5, OneHolder
    <2> QED
      BY <2>2, <2>3, UndoneGrows
  <1>3. \A s, t \in Undoing(q) : input'[s].ref = input'[t].ref => s = t
    <2>1. \A t \in Undoing(q) : input'[t] = input[t]
      BY <1>c, UndoingKnown
    <2> QED
      BY <1>b, <2>1 DEF Undoes
  <1> QED
    BY <1>a, <1>b, <1>d, <1>1, <1>2, <1>3 DEF Undoes

\* What was announced stays announced, and a commit announces what was staged.
LEMMA AnnouncedStays ==
  ASSUME TypeInv, SubmitInv, NEW p \in Process, StepOf(p), NEW t \in Stored, Announced(t)
  PROVE  Announced(t)'
  <1> DEFINE w == input[t].wallet
  <1>1. w \in Wallet /\ input'[t] = input[t]
    BY StepKeeps DEF Stored, TypeInv, DatabaseOK, Known, NoRow
  <1>2. PICK n \in DOMAIN outbox[w] : outbox[w][n] = Event("PendingReference", t, 0)
    BY DEF Announced
  <1> HIDE DEF w
  <1>3. n \in DOMAIN outbox'[w] /\ outbox'[w][n] = outbox[w][n]
    <2>1. CASE outbox' = outbox
      BY <2>1
    <2>2. CASE outbox' # outbox
      <3>1. outbox'[w] = outbox[w] \o uow[p].events[w]
        BY <1>1, <2>2 DEF StepOf, Apply, Database
      <3>2. outbox[w] \in Seq(EventType) /\ uow[p].events[w] \in Seq(EventType)
        BY <1>1 DEF TypeInv, DatabaseOK, UowOK, UowType
      <3> DEFINE old == outbox[w]
                 es == uow[p].events[w]
      <3> HIDE DEF old, es
      <3>3. old \in Seq(EventType) /\ es \in Seq(EventType) /\ n \in DOMAIN old
        BY <3>2 DEF old, es
      <3>4. n \in DOMAIN (old \o es) /\ (old \o es)[n] = old[n]
        BY <3>3
      <3> QED
        BY <3>1, <3>4 DEF old, es
    <2> QED
      BY <2>1, <2>2
  <1> QED
    BY <1>1, <1>2, <1>3 DEF Announced, w

LEMMA CommitAnnounces ==
  ASSUME TypeInv, NEW p \in Process, Apply(p), NEW w \in Wallet,
         NEW n \in DOMAIN uow[p].events[w]
  PROVE  \E m \in DOMAIN outbox'[w] : outbox'[w][m] = uow[p].events[w][n]
  <1> DEFINE es == uow[p].events[w]
             old == outbox[w]
  <1>1. old \in Seq(EventType) /\ es \in Seq(EventType)
    BY DEF TypeInv, DatabaseOK, UowOK, UowType
  <1>2. outbox'[w] = old \o es
    BY DEF Apply
  <1> HIDE DEF es, old
  <1>3. n \in 1..Len(es)
    BY <1>1 DEF es
  <1>4. /\ Len(old) + n \in DOMAIN (old \o es)
        /\ (old \o es)[Len(old) + n] = es[n]
    BY <1>1, <1>3
  <1> QED
    BY <1>2, <1>4 DEF es

\* A row that becomes processed or pending does so in the wallet its process has locked,
\* so that no other process with that lock is disturbed.
LEMMA ChangeHasLock ==
  ASSUME TypeInv, SubmitInv, ReversalInv, NEW p \in Process, StepOf(p),
         NEW t \in Request, rows'[t] # rows[t],
         rows'[t].status \in {"PROCESSED", "PENDING_REFERENCE"},
         NEW q \in Process, q # p, Holds(q)
  PROVE  input'[t].wallet = input[t].wallet /\ input[t].wallet # WalletOf(q)
  <1>1. t \in Staged(p) /\ rows'[t] = uow[p].writes[t]
    BY RowsChange
  <1>2. Holds(p) /\ input[t].wallet = WalletOf(p)
    BY <1>1 DEF ReversalInv, ProcessOK, Guarded
  <1>3. input'[t] = input[t]
    BY <1>1, StagedKnown DEF StepOf
  <1> QED
    BY <1>2, <1>3, OneHolder

\* What a request has seen, or not, of the rows of its wallet stays so.
LEMMA WakesKept ==
  ASSUME TypeInv, SubmitInv, ReversalInv, NEW p \in Process, StepOf(p),
         NEW q \in Request, q # p
  PROVE  Wakes(q)'
  <1>a. q \in Process /\ q \notin Worker
        /\ uow'[q] = uow[q] /\ pc'[q] = pc[q] /\ Staged(q)' = Staged(q)
    BY ConstantsAssumption DEF Process, StepOf, Staged
  <1>b. Wakes(q)
    BY <1>a DEF ReversalInv, ProcessOK
  <1>c. ASSUME uow[q].writes[q].status \in {"PROCESSED", "PENDING_REFERENCE"}
        PROVE  /\ Holds(q) /\ WalletOf(q) = input[q].wallet
               /\ input'[q] = input[q]
    <2>1. Holds(q) /\ WalletOf(q) = input[q].wallet
      BY <1>a, <1>c DEF ReversalInv, ProcessOK, Guarded
    <2>2. q \in Staged(q)
      BY <1>c, AbsentRow DEF Staged
    <2> QED
      BY <1>a, <2>1, <2>2, StagedKnown DEF StepOf
  <1>1. ASSUME uow[q].writes[q].status = "PENDING_REFERENCE",
               NEW r \in ProcessedReference(input[q].ref)', input'[r].wallet = input[q].wallet
        PROVE  Announced(r)'
    <2>1. r \in Request /\ rows'[r].status = "PROCESSED" /\ input'[r].ext = input'[q].ref
      BY <1>1, <1>c DEF ProcessedReference, FindByExt, Stored
    <2>2. rows'[r] = rows[r]
      BY <1>a, <1>1, <1>c, <2>1, ChangeHasLock
    <2>3. r \in Stored /\ input'[r] = input[r]
      BY <2>1, <2>2, StepKeeps DEF Stored
    <2>4. r \in ProcessedReference(input[q].ref)
      BY <1>1, <1>c, <2>1, <2>2, <2>3 DEF ProcessedReference, FindByExt
    <2> QED
      BY <1>1, <1>b, <2>3, <2>4, AnnouncedStays DEF Wakes
  <1>2. ASSUME pc[q] \in {"resolve", "commit"}, uow[q].writes[q].status = "PROCESSED",
               NEW t \in PendingFor(input[q].ext)', input'[t].wallet = input[q].wallet
        PROVE  t \in uow[q].todo \cup Staged(q)
    <2>1. t \in Request /\ rows'[t].status = "PENDING_REFERENCE" /\ input'[t].ref = input'[q].ext
      BY <1>2, <1>c DEF PendingFor, Stored
    <2>2. rows'[t] = rows[t]
      BY <1>a, <1>2, <1>c, <2>1, ChangeHasLock
    <2>3. t \in Stored /\ input'[t] = input[t]
      BY <2>1, <2>2, StepKeeps DEF Stored
    <2>4. t \in PendingFor(input[q].ext)
      BY <1>2, <1>c, <2>1, <2>2, <2>3 DEF PendingFor
    <2> QED
      BY <1>2, <1>b, <2>3, <2>4 DEF Wakes
  <1> QED
    BY <1>a, <1>b, <1>c, <1>1, <1>2 DEF Wakes

\* A commit leaves the stored rows right.
LEMMA StoredOKKept ==
  ASSUME TypeInv, SubmitInv, ReversalInv, NEW p \in Process, StepOf(p)
  PROVE  StoredOK'
  <1>a. ProcessOK(p) /\ StoredOK
    BY DEF ReversalInv
  \* A row that has just become pending is that of the request that commits.
  <1>b. ASSUME NEW t \in Request, rows'[t].status = "PENDING_REFERENCE", rows'[t] # rows[t]
        PROVE  /\ t = p /\ p \in Request /\ pc[p] = "commit" /\ Apply(p)
               /\ uow[p].writes[p].status = "PENDING_REFERENCE"
               /\ input'[p] = input[p]
    BY <1>b, RowsChange DEF StepOf
  <1>1. ASSUME NEW t \in Stored', rows'[t].status = "PENDING_REFERENCE"
        PROVE  input'[t].kind \in Reversal /\ Announced(t)'
    <2>1. CASE rows'[t] = rows[t]
      <3>1. t \in Stored /\ input'[t] = input[t]
        BY <2>1, StepKeeps DEF Stored
      <3> QED
        BY <1>1, <1>a, <2>1, <3>1, AnnouncedStays DEF StoredOK
    <2>2. CASE rows'[t] # rows[t]
      <3>1. /\ t = p /\ p \in Request /\ Apply(p) /\ input'[p] = input[p]
            /\ uow[p].writes[p].status = "PENDING_REFERENCE"
        BY <1>1, <1>b, <2>2 DEF Stored
      <3>2. input[p].kind \in Reversal /\ Wakes(p)
        BY <1>a, <3>1 DEF ProcessOK, RequestRows
      <3>3. input[p].wallet \in Wallet
        BY <1>a, <3>1 DEF ProcessOK, Guarded, Holds
      <3> QED
        BY <3>1, <3>2, <3>3, CommitAnnounces DEF Wakes, Announced
    <2> QED
      BY <2>1, <2>2
  <1>2. ASSUME NEW t \in Undone'
        PROVE  LET r == rows'[t].refTx
               IN /\ r \in Stored' /\ rows'[r].status = "PROCESSED"
                  /\ Matches(t, rows[t].refTx)'
    <2> DEFINE r == rows'[t].refTx
    <2>1. CASE t \in Undone /\ rows'[t] = rows[t]
      <3>1. r \in Stored /\ rows[r].status = "PROCESSED" /\ Matches(t, r) /\ t \in Stored
        BY <1>a, <2>1 DEF StoredOK, Undone
      <3>2. input'[t] = input[t] /\ input'[r] = input[r]
        BY <3>1, StepKeeps
      <3>3. rows'[r] = rows[r]
        BY <3>1, ProcessedIsFinal DEF Stored
      <3> QED
        BY <3>1, <3>2, <3>3 DEF Matches, Stored
    <2>2. CASE /\ t \in Undoing(p) /\ rows'[t] = uow[p].writes[t]
               /\ pc[p] = "commit" /\ Apply(p)
      <3>1. /\ t \in Staged(p) /\ pc[t] # "idle" /\ t \in Request
            /\ r \in Stored \cup Inserting /\ Matches(t, r)
        BY <2>2, UndoingKnown DEF Staged
      <3>2. r \in Request /\ (rows[r].status = "PROCESSED" \/ (r = p /\ t # p))
        BY <1>a, <2>2 DEF ProcessOK, Undoes
      <3>3. input'[t] = input[t] /\ input'[r] = input[r]
        BY <3>1, StepKeeps DEF StepOf
      <3>4. rows'[r].status = "PROCESSED"
        <4>1. CASE rows[r].status = "PROCESSED"
          BY <3>2, <4>1, ProcessedIsFinal
        <4>2. CASE r = p /\ t # p
          <5>1. p \in Request /\ t \in Foreign(p)
            BY <3>1, <3>2, <4>2 DEF Foreign
          <5>2. uow[p].writes[p].status = "PROCESSED"
            BY <1>a, <5>1 DEF ProcessOK, RequestRows
          <5> QED
            BY <2>2, <4>2, <5>1, <5>2, AbsentRow DEF Apply
        <4> QED
          BY <3>2, <4>1, <4>2
      <3> QED
        BY <3>1, <3>2, <3>3, <3>4 DEF Matches, Stored
    <2> QED
      BY <2>1, <2>2, UndoneGrows
  <1>3. ASSUME NEW s \in Undone', NEW t \in Undone', input'[s].ref = input'[t].ref
        PROVE  s = t
    <2>1. \A x \in Undone' : input'[x] = input[x]
      <3>1. \A x \in Undoing(p) : pc[x] # "idle" /\ x \in Request
        BY UndoingKnown DEF Staged
      <3> QED
        BY <3>1, UndoneGrows, StepKeeps DEF StepOf, Undone
    <2>2. /\ s \in Undone \/ s \in Undoing(p)
          /\ t \in Undone \/ t \in Undoing(p)
      BY UndoneGrows
    <2> QED
      BY <1>3, <1>a, <2>1, <2>2 DEF StoredOK, ProcessOK, Undoes
  <1>4. ASSUME NEW t \in Stored', NEW r \in ProcessedReference(input[t].ref)',
               rows'[t].status = "PENDING_REFERENCE", input'[r].wallet = input'[t].wallet
        PROVE  Announced(r)'
    <2>1. /\ r \in Request /\ rows'[r].status = "PROCESSED"
          /\ input'[r].ext = input'[t].ref /\ t \in Request
      BY DEF ProcessedReference, FindByExt, Stored
    <2>2. CASE rows'[r] = rows[r] /\ rows'[t] = rows[t]
      <3>1. r \in Stored /\ t \in Stored /\ input'[r] = input[r] /\ input'[t] = input[t]
        BY <1>4, <2>1, <2>2, StepKeeps DEF Stored
      <3>2. r \in ProcessedReference(input[t].ref)
        BY <2>1, <2>2, <3>1 DEF ProcessedReference, FindByExt
      <3>3. Announced(r)
        BY <1>4, <1>a, <2>2, <3>1, <3>2 DEF StoredOK, NoLostWakeup, Announced
      <3> QED
        BY <3>1, <3>3, AnnouncedStays
    <2>3. CASE rows'[r] = rows[r] /\ rows'[t] # rows[t]
      <3>1. t = p /\ p \in Request /\ uow[p].writes[p].status = "PENDING_REFERENCE" /\ input'[p] = input[p]
        BY <1>4, <1>b, <2>1, <2>3
      <3>2. r \in Stored /\ input'[r] = input[r]
        BY <2>1, <2>3, StepKeeps DEF Stored
      <3>3. r \in ProcessedReference(input[p].ref)
        BY <2>1, <2>3, <3>1, <3>2 DEF ProcessedReference, FindByExt
      <3>4. Announced(r)
        BY <1>4, <1>a, <3>1, <3>2, <3>3 DEF ProcessOK, Wakes
      <3> QED
        BY <3>2, <3>4, AnnouncedStays
    <2>4. CASE rows'[r] # rows[r]
      <3>1. /\ pc[p] = "commit" /\ Apply(p) /\ r \in Staged(p) /\ rows'[r] = uow[p].writes[r]
            /\ r = p \/ (r \in Foreign(p) /\ r \in Stored)
        BY <2>1, <2>4, RowsChange
      <3>2. Holds(p) /\ input[r].wallet = WalletOf(p) /\ input'[r] = input[r]
        BY <1>a, <2>1, <3>1, StagedKnown DEF ProcessOK, Guarded, StepOf
      \* The reversal was pending before, and is not one that this commit resolves.
      <3>3. t \notin Staged(p) /\ rows'[t] = rows[t]
        <4>1. rows'[t] = rows[t]
          <5> SUFFICES ASSUME rows'[t] # rows[t] PROVE FALSE
            OBVIOUS
          <5>1. t = p /\ p \in Request /\ uow[p].writes[p].status = "PENDING_REFERENCE"
            BY <1>4, <1>b, <2>1
          <5>2. uow[p].writes[p].status = "PROCESSED"
            BY <1>a, <2>1, <3>1, <5>1 DEF ProcessOK, RequestRows
          <5> QED
            BY <5>1, <5>2
        <4>2. t \notin Staged(p)
          <5> SUFFICES ASSUME t \in Staged(p) PROVE FALSE
            OBVIOUS
          <5>1. uow[p].writes[t].status = "PENDING_REFERENCE"
            BY <1>4, <3>1 DEF Apply, Staged
          <5>2. t = p
            BY <1>a, <5>1 DEF ProcessOK, Guarded, Foreign
          <5> QED
            BY <1>a, <2>1, <3>1, <5>1, <5>2 DEF ProcessOK, RequestRows
        <4> QED
          BY <4>1, <4>2
      <3>4. t \in Stored /\ input'[t] = input[t] /\ rows[t].status = "PENDING_REFERENCE"
        BY <1>4, <2>1, <3>3, StepKeeps DEF Stored
      <3>5. CASE r = p
        <4>1. p \in Request /\ uow[p].writes[p].status = "PROCESSED"
          BY <2>1, <3>1, <3>5
        <4>2. t \in PendingFor(input[p].ext) /\ input[t].wallet = input[p].wallet
          BY <1>4, <2>1, <3>2, <3>4, <3>5 DEF PendingFor
        <4>3. uow[p].todo = {}
          BY <1>a, <3>1, <4>1 DEF ProcessOK, RequestRows
        <4> QED
          BY <1>a, <3>1, <3>3, <4>1, <4>2, <4>3 DEF ProcessOK, Wakes
      <3>6. CASE r \in Foreign(p) /\ r \in Stored
        <4>1. rows[r].status = "PENDING_REFERENCE"
          <5>1. CASE p \in Request
            BY <1>a, <3>2, <3>6, <5>1, ConstantsAssumption DEF ProcessOK, RequestRows, WalletOf
          <5>2. CASE p \in Worker
            BY <1>a, <3>1, <5>2 DEF ProcessOK, WorkerRows
          <5> QED
            BY <5>1, <5>2 DEF Process
        <4>2. Announced(r)
          BY <1>a, <3>6, <4>1 DEF StoredOK
        <4> QED
          BY <3>6, <4>2, AnnouncedStays
      <3> QED
        BY <3>1, <3>5, <3>6
    <2> QED
      BY <2>2, <2>3, <2>4
  <1>5. NoLostWakeup'
    BY <1>4 DEF NoLostWakeup, Announced
  <1> QED
    BY <1>1, <1>2, <1>3, <1>5 DEF StoredOK

-----------------------------------------------------------------------------
(* What a step does to the process that takes it. *)

\* A row that is rejected, or moves money, says so.
LEMMA RejectedOutcome ==
  ASSUME NEW u \in UowType, NEW t \in Request, NEW code
  PROVE  /\ Rejected(u, t, code).writes[t].status = "REJECTED"
         /\ Rejected(u, t, code).reversed = u.reversed
  BY DEF Rejected, NoRow, UowType

LEMMA SettledOutcome ==
  ASSUME NEW u \in UowType, NEW t \in Request, NEW w
  PROVE  Settled(u, t, w).writes[t].status = "PROCESSED"
  BY DEF Settled, NoRow, UowType

LEMMA MovedOutcome ==
  ASSUME NEW u \in UowType, NEW t \in Request, NEW r, NEW w, NEW e
  PROVE  /\ Moved(u, t, r, w, e).writes[t].status = "PROCESSED"
         /\ Moved(u, t, r, w, e).writes[t].refTx = r
         /\ Moved(u, t, r, w, e).reversed = u.reversed
  BY DEF Moved, UowType

LEMMA ApplyToWalletOutcome ==
  ASSUME NEW u \in UowType, NEW t \in Request, NEW r, NEW w
  PROVE  LET v == ApplyToWallet(u, t, r, w)
         IN /\ v.reversed = u.reversed
            /\ \/ v.writes[t].status = "REJECTED"
               \/ v.writes[t].status = "PROCESSED" /\ v.writes[t].refTx = r
  <1> DEFINE v == ApplyToWallet(u, t, r, w)
  <1>1. \/ \E code : v = Rejected(u, t, code)
        \/ \E e : v = Moved(u, t, r, w, e)
    BY DEF ApplyToWallet
  <1> HIDE DEF v
  <1>2. /\ v.reversed = u.reversed
        /\ \/ v.writes[t].status = "REJECTED"
           \/ v.writes[t].status = "PROCESSED" /\ v.writes[t].refTx = r
    BY <1>1, RejectedOutcome, MovedOutcome
  <1> QED
    BY <1>2 DEF v

\* A reversal that breaks no rule matches what it reverses, which was not reversed.
LEMMA AcceptedMatches ==
  ASSUME NEW t \in Request, NEW r \in Request, NEW reversed,
         input[r].ext = input[t].ref,
         ReversalRejection(input[t], input[r], input[r].wallet, reversed) = None
  PROVE  Matches(t, r) /\ ~reversed
  BY NoneAssumption DEF ReversalRejection, Matches, FailureCode

LEMMA ReverseOutcome ==
  ASSUME NEW u \in UowType, NEW t \in Request, NEW r \in Request, NEW w,
         NEW reversed, input[r].ext = input[t].ref,
         NEW v, v = Reverse(u, t, r, w, reversed)
  PROVE  /\ v.reversed = u.reversed
         /\ \/ v.writes[t].status = "REJECTED"
            \/ /\ v.writes[t].status = "PROCESSED" /\ v.writes[t].refTx = r
               /\ Matches(t, r) /\ ~reversed
  <1> DEFINE why == ReversalRejection(input[t], input[r], input[r].wallet, reversed)
  <1>1. v = IF why = None THEN ApplyToWallet(u, t, r, w) ELSE Rejected(u, t, why)
    BY DEF Reverse
  <1>2. why = None => Matches(t, r) /\ ~reversed
    BY AcceptedMatches
  <1> HIDE DEF why
  <1>3. /\ v.reversed = u.reversed
        /\ \/ v.writes[t].status = "REJECTED"
           \/ /\ v.writes[t].status = "PROCESSED" /\ v.writes[t].refTx = r
              /\ why = None
    BY <1>1, ApplyToWalletOutcome, RejectedOutcome
  <1> QED
    BY <1>2, <1>3

\* A process that has nothing staged and nothing to do disturbs nothing.
LEMMA ClearOK ==
  ASSUME NEW p \in Process, Staged(p)' = {}, uow'[p].todo = {},
         p \in Request => pc'[p] \notin {"find", "resolve"},
         p \in Worker => /\ pc'[p] # "commit"
                         /\ pc'[p] = "decide" =>
                              /\ rowLock'[target'[p]] = p
                              /\ rows'[target'[p]].status = "PENDING_REFERENCE"
  PROVE  ProcessOK(p)'
  <1>1. \A t \in Request : uow'[p].writes[t].status = "NONE"
    BY AbsentRow DEF Staged
  <1>2. Foreign(p)' = {} /\ Undoing(p)' = {}
    BY <1>1 DEF Foreign, Undoing
  <1>3. p \in Request => RequestRows(p)' /\ Wakes(p)'
    BY <1>1, <1>2 DEF RequestRows, Wakes
  <1>4. p \in Worker => WorkerRows(p)'
    BY DEF WorkerRows
  <1>5. Guarded(p)' /\ Undoes(p)'
    BY <1>1, <1>2 DEF Guarded, Undoes
  <1> QED
    BY <1>3, <1>4, <1>5 DEF ProcessOK

\* Nor does one that has given everything back.
LEMMA EndedOK ==
  ASSUME NEW p \in Process, uow'[p] = EmptyUow, pc'[p] \in {"idle", "lost", "done"}
  PROVE  ProcessOK(p)'
  BY ClearOK DEF Staged, EmptyUow

\* A request has staged nothing before it decides, and only its own row before it looks
\* for the reversals that wait for it.
LEMMA StagedAsFar ==
  ASSUME ReversalInv, NEW p \in Request
  PROVE  /\ pc[p] \notin Staging => Staged(p) = {}
         /\ pc[p] \notin {"resolve", "commit"} => Foreign(p) = {}
         /\ pc[p] # "resolve" => uow[p].todo = {}
  BY DEF ReversalInv, ProcessOK, RequestRows, Process, Foreign, Staging

\* A request that has inserted its row goes on with what it has staged.
LEMMA InsertedOK ==
  ASSUME TypeInv, SubmitInv, ReversalInv, NEW p \in Request,
         pc[p] \in {"insert", "fk"}, pc'[p] \in {"fk", "find", "commit"},
         UNCHANGED <<input, target, uow, rows, outbox, walletLock, rowLock>>,
         pc'[p] = "find" => uow[p].writes[p].status = "PROCESSED",
         pc'[p] = "commit" => uow[p].writes[p].status # "PROCESSED"
  PROVE  ProcessOK(p)'
  <1>a. /\ p \in Process /\ p \notin Worker /\ Foreign(p) = {} /\ uow[p].todo = {}
    BY StagedAsFar, ConstantsAssumption DEF Process
  <1>b. ProcessOK(p)
    BY <1>a DEF ReversalInv
  <1>1. Foreign(p)' = Foreign(p) /\ Undoing(p)' = Undoing(p) /\ Undone' = Undone
    BY DEF Foreign, Staged, Undoing, Undone, Stored
  <1>2. RequestRows(p)'
    BY <1>a, <1>b, <1>1 DEF ProcessOK, RequestRows, Staging
  <1>3. Guarded(p)' /\ Undoes(p)'
    <2>1. Guarded(p)'
      BY <1>a, <1>b, <1>1 DEF ProcessOK, Guarded, Holds, WalletOf
    <2>2. \A t, r : Matches(t, r)' <=> Matches(t, r)
      BY DEF Matches
    <2>3. Undoes(p)'
      BY <1>a, <1>b, <1>1, <2>2 DEF ProcessOK, Undoes
    <2> QED
      BY <2>1, <2>3
  <1>4. Wakes(p)'
    BY <1>a, <1>b DEF ProcessOK, Wakes, ProcessedReference, FindByExt, Stored, Announced
  <1> QED
    BY <1>a, <1>2, <1>3, <1>4 DEF ProcessOK

\* What a process may stage about row t: to leave its own waiting, when nothing it could
\* see resolves it, or to undo with it what nothing has undone.
StagesWell(p, v, t) ==
  /\ v.writes[t].status \in {"PROCESSED", "PENDING_REFERENCE"} => Holds(p)
  /\ v.writes[t].status = "PENDING_REFERENCE" =>
       /\ input[t].kind \in Reversal
       /\ \E n \in DOMAIN v.events[input[t].wallet] :
            v.events[input[t].wallet][n] = Event("PendingReference", t, 0)
       /\ ProcessedReference(input[t].ref) = {}
  /\ v.writes[t].status = "PROCESSED" /\ input[t].kind \in Reversal =>
       LET r == v.writes[t].refTx
       IN /\ r \in Request /\ Matches(t, r) /\ rows[r].status = "PROCESSED"
          /\ \A s \in Undone : input[s].ref # input[t].ref

\* What a process stages when it decides about one row, having staged nothing.
LEMMA DecidedOK ==
  ASSUME NEW p \in Process, NEW t \in Request, NEW v,
         Staged(p) = {}, uow[p].todo = {}, uow'[p] = v, Settles(uow[p], v, t),
         UNCHANGED <<input, target, rows, outbox, walletLock, rowLock>>,
         StagesWell(p, v, t), input[t].wallet = WalletOf(p),
         p \in Request => t = p /\ pc'[p] = "insert",
         p \in Worker => /\ t = target[p] /\ pc'[p] = "commit" /\ Holds(p)
                         /\ v.writes[t].status # "PENDING_REFERENCE"
                         /\ rowLock[t] = p /\ rows[t].status = "PENDING_REFERENCE"
  PROVE  ProcessOK(p)'
  <1>1. /\ v \in UowType /\ v.todo = {} /\ v.writes[t] # NoRow
        /\ \A s \in Request \ {t} : v.writes[s] = NoRow
    BY DEF Settles, Staged
  <1>2. Staged(p)' = {t} /\ \A s \in Request \ {t} : v.writes[s].status = "NONE"
    BY <1>1, AbsentRow DEF Staged
  <1>3. Undoing(p)' \subseteq {t} /\ Undone' = Undone
    BY <1>2 DEF Undoing, Undone, Stored
  <1>4. p \in Request => Foreign(p)' = {} /\ p \notin Worker
    BY <1>2, ConstantsAssumption DEF Foreign
  <1>5. p \in Request => RequestRows(p)'
    BY <1>1, <1>4 DEF RequestRows, Staging, StagesWell
  <1>6. p \in Request => Wakes(p)'
    BY DEF Wakes, StagesWell, ProcessedReference, FindByExt, Stored
  <1>7. p \in Worker => WorkerRows(p)'
    BY <1>1, <1>2 DEF WorkerRows, Holds, WalletOf
  <1>8. Guarded(p)'
    <2>1. Holds(p)' = Holds(p) /\ WalletOf(p)' = WalletOf(p)
      BY DEF Holds, WalletOf
    <2>2. \A s \in Foreign(p)' : s = t /\ p \in Worker
      BY <1>2, <1>4 DEF Foreign, Process
    <2> QED
      BY <1>2, <2>1, <2>2 DEF Guarded, StagesWell
  <1>9. Undoes(p)'
    <2>1. ASSUME t \in Undoing(p)'
          PROVE  LET r == v.writes[t].refTx
                 IN /\ r \in Request /\ Matches(t, r) /\ rows[r].status = "PROCESSED"
                    /\ \A s \in Undone : input[s].ref # input[t].ref
      BY <2>1 DEF Undoing, StagesWell
    <2>2. Undoing(p)' \ {p} # {} => p \notin Request
      BY <1>3
    <2> QED
      BY <1>3, <2>1, <2>2 DEF Undoes, Matches
  <1> QED
    BY <1>5, <1>6, <1>7, <1>8, <1>9 DEF ProcessOK

\* A reversal of a stored transaction, checked against the rows, is staged well.
LEMMA ReverseStagesWell ==
  ASSUME NEW p \in Process, NEW t \in Request, uow[p] \in UowType, Holds(p),
         NEW r \in ProcessedReference(input[t].ref)
  PROVE  LET v == Reverse(uow[p], t, r, input[t].wallet, AlreadyReversed(input[t].ref))
         IN StagesWell(p, v, t) /\ v.writes[t].status # "PENDING_REFERENCE"
  <1> DEFINE reversed == AlreadyReversed(input[t].ref)
             v == Reverse(uow[p], t, r, input[t].wallet, reversed)
  <1>1. /\ r \in Request /\ rows[r].status = "PROCESSED" /\ input[r].ext = input[t].ref
    BY DEF ProcessedReference, FindByExt, Stored
  <1>2. ~reversed => \A s \in Undone : input[s].ref # input[t].ref
    BY DEF AlreadyReversed, Undone
  <1>3. v = Reverse(uow[p], t, r, input[t].wallet, reversed)
    OBVIOUS
  <1> HIDE DEF v, reversed
  <1>4. \/ v.writes[t].status = "REJECTED"
        \/ /\ v.writes[t].status = "PROCESSED" /\ v.writes[t].refTx = r
           /\ Matches(t, r) /\ ~reversed
    BY <1>1, <1>3, ReverseOutcome
  <1>5. StagesWell(p, v, t) /\ v.writes[t].status # "PENDING_REFERENCE"
    BY <1>1, <1>2, <1>4 DEF StagesWell
  <1> QED
    BY <1>5 DEF v, reversed

\* A request decides well about its own row.
LEMMA DecideStagesWell ==
  ASSUME TypeInv, LedgerInv, NEW p \in Request, Decide(p)
  PROVE  \E v : Stage(p, v) /\ Settles(uow[p], v, p) /\ StagesWell(p, v, p)
  <1>a. /\ p \in Process /\ uow[p] \in UowType /\ Known(p) /\ Holds(p)
    BY DEF Decide, Process, TypeInv, UowOK, ControlOK, Checked, LedgerInv, LockHeld, Deciding
  <1>b. PICK v : Stage(p, v) /\ Settles(uow[p], v, p)
    BY DecideSettles
  <1>c. \A u : Stage(p, u) => u = v
    BY <1>a, <1>b DEF Stage, TypeInv, UowOK
  <1>1. CASE \E code : Stage(p, Rejected(uow[p], p, code))
    <2>1. v.writes[p].status = "REJECTED"
      BY <1>a, <1>c, <1>1, RejectedOutcome
    <2> QED
      BY <1>b, <2>1 DEF StagesWell
  <1>2. CASE /\ input[p].kind \in Reversal /\ ProcessedReference(input[p].ref) = {}
             /\ Stage(p, PendingReference(uow[p], p))
    <2> DEFINE w == input[p].wallet
               es == uow[p].events[w]
               e == Event("PendingReference", p, 0)
    <2>1. v = PendingReference(uow[p], p)
      BY <1>c, <1>2
    <2>2. v.writes[p].status = "PENDING_REFERENCE" /\ v.events[w] = Append(es, e)
      BY <1>a, <2>1 DEF PendingReference, NoRow, UowType, Known
    <2>3. es \in Seq(EventType)
      BY <1>a DEF UowType, Known
    <2> HIDE DEF es, e
    <2>4. Len(es) + 1 \in DOMAIN Append(es, e) /\ Append(es, e)[Len(es) + 1] = e
      BY <2>3
    <2>5. \E n \in DOMAIN v.events[w] : v.events[w][n] = e
      BY <2>2, <2>4
    <2> QED
      BY <1>a, <1>b, <1>2, <2>2, <2>5 DEF StagesWell, e
  <1>3. CASE \E r \in ProcessedReference(input[p].ref) :
               Stage(p, Reverse(uow[p], p, r, input[p].wallet, AlreadyReversed(input[p].ref)))
    BY <1>a, <1>b, <1>c, <1>3, ReverseStagesWell
  <1>4. CASE input[p].kind = "LOSS" /\ Stage(p, Settled(uow[p], p, input[p].wallet))
    <2>1. v.writes[p].status = "PROCESSED"
      BY <1>a, <1>c, <1>4, SettledOutcome
    <2> QED
      BY <1>a, <1>b, <1>4, <2>1 DEF StagesWell, Reversal
  <1>5. CASE input[p].kind \in {"BET", "WIN"} /\ Stage(p, ApplyToWallet(uow[p], p, None, input[p].wallet))
    <2>1. v.writes[p].status \in {"PROCESSED", "REJECTED"}
      BY <1>a, <1>c, <1>5, ApplyToWalletOutcome
    <2> QED
      BY <1>a, <1>b, <1>5, <2>1 DEF StagesWell, Reversal
  <1> QED
    BY <1>1, <1>2, <1>3, <1>4, <1>5 DEF Decide

\* A worker decides well about the row it retries.
LEMMA RetryStagesWell ==
  ASSUME TypeInv, LedgerInv, NEW k \in Worker, Retry(k)
  PROVE  \E v : /\ Stage(k, v) /\ Settles(uow[k], v, target[k])
                /\ StagesWell(k, v, target[k])
                /\ v.writes[target[k]].status # "PENDING_REFERENCE"
  <1> DEFINE t == target[k]
  <1>a. /\ k \in Process /\ uow[k] \in UowType /\ t \in Request /\ Holds(k)
    BY DEF Retry, Process, TypeInv, UowOK, ControlOK, LedgerInv, LockHeld, Deciding
  <1>b. PICK v : Stage(k, v) /\ Settles(uow[k], v, t)
    BY RetrySettles
  <1>c. \A u : Stage(k, u) => u = v
    BY <1>a, <1>b DEF Stage, TypeInv, UowOK
  <1>1. CASE Stage(k, Rejected(uow[k], t, "REFERENCE_NOT_FOUND"))
    <2>1. v.writes[t].status = "REJECTED"
      BY <1>a, <1>c, <1>1, RejectedOutcome
    <2> QED
      BY <1>b, <2>1 DEF StagesWell
  <1>2. CASE \E r \in ProcessedReference(input[t].ref) :
               Stage(k, Reverse(uow[k], t, r, input[t].wallet, AlreadyReversed(input[t].ref)))
    BY <1>a, <1>b, <1>c, <1>2, ReverseStagesWell
  <1> QED
    BY <1>1, <1>2 DEF Retry

\* A request that looks for what waits for it sees everything that does.
LEMMA FoundOK ==
  ASSUME TypeInv, SubmitInv, ReversalInv, NEW p \in Request, FindPending(p)
  PROVE  ProcessOK(p)'
  <1> DEFINE todo == PendingFor(input[p].ext)
  <1>a. /\ p \in Process /\ p \notin Worker /\ uow[p] \in UowType
        /\ pc[p] = "find" /\ Foreign(p) = {}
        /\ UNCHANGED <<input, target, rows, outbox, walletLock, rowLock>>
    BY StagedAsFar, ConstantsAssumption DEF FindPending, Process, TypeInv, UowOK, Database, Locks
  <1>b. ProcessOK(p)
    BY <1>a DEF ReversalInv
  <1>1. /\ uow'[p].todo = todo
        /\ uow'[p].writes = uow[p].writes /\ uow'[p].events = uow[p].events
        /\ pc'[p] = IF todo = {} THEN "commit" ELSE "resolve"
    BY <1>a DEF FindPending, Go, TypeInv, UowOK, ControlOK, UowType
  <1> HIDE DEF todo
  <1>2. Staged(p)' = Staged(p) /\ Foreign(p)' = {} /\ Undoing(p)' = Undoing(p) /\ Undone' = Undone
    BY <1>a, <1>1 DEF Foreign, Staged, Undoing, Undone, Stored
  <1>3. RequestRows(p)'
    <2>1. \A t \in todo : /\ input[t].kind \in Reversal
                          /\ input[t].ref = input[p].ext
                          /\ rows[t].status = "PENDING_REFERENCE"
      BY DEF todo, PendingFor, ReversalInv, StoredOK
    <2>2. uow[p].writes[p].status = "PROCESSED"
      BY <1>a, <1>b DEF ProcessOK, RequestRows
    <2> QED
      BY <1>a, <1>b, <1>1, <1>2, <2>1, <2>2 DEF ProcessOK, RequestRows, Staging
  <1>4. Guarded(p)'
    BY <1>a, <1>b, <1>1, <1>2 DEF ProcessOK, Guarded, Holds, WalletOf
  <1>5. Undoes(p)'
    <2>1. Undoing(p) \subseteq {p}
      BY <1>a, AbsentRow DEF Undoing, Foreign, Staged
    <2>2. \A t, r : Matches(t, r)' <=> Matches(t, r)
      BY <1>a DEF Matches
    <2> QED
      BY <1>a, <1>b, <1>1, <1>2, <2>1, <2>2 DEF ProcessOK, Undoes
  <1>6. Wakes(p)'
    <2>1. PendingFor(input[p].ext)' = todo
      BY <1>a DEF PendingFor, Stored, todo
    <2>2. uow[p].writes[p].status = "PROCESSED"
      BY <1>a, <1>b DEF ProcessOK, RequestRows
    <2> QED
      BY <1>a, <1>1, <2>1, <2>2 DEF Wakes
  <1> QED
    BY <1>a, <1>3, <1>4, <1>5, <1>6 DEF ProcessOK

\* One turn of the loop settles one reversal of this very transaction, which nobody else
\* can have undone: its row is not committed.
LEMMA ResolvedOK ==
  ASSUME TypeInv, SubmitInv, LedgerInv, ReversalInv, NEW p \in Request, NEW t \in Request,
         ResolvePending(p, t)
  PROVE  ProcessOK(p)'
  <1> DEFINE u == Reverse(uow[p], t, p, input[p].wallet, uow[p].reversed)
             v == [u EXCEPT !.todo = uow[p].todo \ {t},
                            !.reversed = @ \/ u.writes[t].status = "PROCESSED"]
  <1>a. /\ p \in Process /\ p \notin Worker /\ uow[p] \in UowType
        /\ pc[p] = "resolve" /\ t \in uow[p].todo
        /\ rowLock' = [rowLock EXCEPT ![t] = p]
        /\ UNCHANGED <<input, target, rows, outbox, walletLock>>
    BY ConstantsAssumption DEF ResolvePending, Process, TypeInv, UowOK, Database
  <1>b. ProcessOK(p)
    BY <1>a DEF ReversalInv
  <1>c. /\ t \in Stored /\ t # p /\ p \in Inserting
        /\ input[t].kind \in Reversal /\ input[t].ref = input[p].ext
        /\ uow[p].writes[p].status = "PROCESSED"
    BY <1>a, <1>b DEF ProcessOK, RequestRows, SubmitInv, RowsKnown, Inserting
  <1>1. /\ uow'[p] = v
        /\ pc'[p] = IF uow[p].todo \ {t} = {} THEN "commit" ELSE "resolve"
    BY <1>a DEF ResolvePending, Stage, Go, TypeInv, UowOK, ControlOK
  <1>2. Settles(uow[p], u, t)
    BY <1>a, ReverseSettles DEF TypeInv, UowOK, ControlOK, Known
  <1>d. u = Reverse(uow[p], t, p, input[p].wallet, uow[p].reversed)
    OBVIOUS
  <1> HIDE DEF u
  <1>3. /\ u.reversed = uow[p].reversed
        /\ \/ u.writes[t].status = "REJECTED"
           \/ /\ u.writes[t].status = "PROCESSED" /\ u.writes[t].refTx = p
              /\ Matches(t, p) /\ ~uow[p].reversed
    BY <1>a, <1>c, <1>d, ReverseOutcome
  <1>4. /\ v.todo = uow[p].todo \ {t}
        /\ v.writes = u.writes
        /\ v.reversed = (uow[p].reversed \/ u.writes[t].status = "PROCESSED")
    BY <1>2, <1>3 DEF Settles, UowType
  <1>5. /\ \A s \in Request \ {t} : v.writes[s] = uow[p].writes[s]
        /\ v.writes[t] # NoRow
        /\ v.writes[t].status # "PENDING_REFERENCE"
    BY <1>2, <1>3, <1>4 DEF Settles
  <1> HIDE DEF v
  <1>6. Staged(p)' = Staged(p) \cup {t} /\ Foreign(p)' = Foreign(p) \cup {t}
    BY <1>c, <1>1, <1>5 DEF Foreign, Staged
  <1>7. RequestRows(p)'
    BY <1>a, <1>b, <1>c, <1>1, <1>4, <1>5, <1>6 DEF ProcessOK, RequestRows, Staging
  <1>8. Guarded(p)'
    <2>1. Holds(p)' = Holds(p) /\ WalletOf(p)' = WalletOf(p) /\ WalletOf(p) = input[p].wallet
      BY <1>a DEF Holds, WalletOf
    <2>2. Holds(p)
      BY <1>a DEF LedgerInv, LockHeld, Deciding
    <2>3. v.writes[t].status = "PROCESSED" => input[t].wallet = input[p].wallet
      BY <1>3, <1>4 DEF Matches
    <2>4. \A s \in Foreign(p)' : rowLock'[s] = p /\ v.writes[s].status # "PENDING_REFERENCE"
      BY <1>a, <1>b, <1>5, <1>6
         DEF ProcessOK, Guarded, TypeInv, LocksOK, Foreign, Staged
    <2> QED
      BY <1>a, <1>b, <1>1, <1>5, <2>1, <2>2, <2>3, <2>4 DEF ProcessOK, Guarded
  <1>9. Undoes(p)'
    <2>1. /\ Undone' = Undone
          /\ Undoing(p)' \subseteq Undoing(p) \cup {t}
          /\ t \in Undoing(p)' => v.writes[t].status = "PROCESSED"
          /\ \A s \in Undoing(p)' \ {t} : v.writes[s] = uow[p].writes[s]
      BY <1>a, <1>1, <1>5 DEF Undone, Stored, Undoing
    <2>2. t \notin Undoing(p)
      <3>1. t \notin Staged(p)
        BY <1>a, <1>b, <1>c, ConstantsAssumption
           DEF ProcessOK, Guarded, Foreign, ResolvePending, Staged
      <3> QED
        BY <3>1, AbsentRow DEF Undoing, Staged
    \* Nothing stored has undone this transaction, which is not stored.
    <2>3. \A s \in Undone : input[s].ref # input[p].ext
      <3> SUFFICES ASSUME NEW s \in Undone, input[s].ref = input[p].ext PROVE FALSE
        OBVIOUS
      <3> DEFINE r == rows[s].refTx
      <3>1. r \in Stored /\ Matches(s, r)
        BY DEF ReversalInv, StoredOK
      <3> HIDE DEF r
      <3>2. r = p
        BY <1>c, <3>1 DEF Matches, SubmitInv, Unique, Collide
      <3> QED
        BY <1>a, <3>1, <3>2 DEF SubmitInv, RowsKnown
    \* Nor has this transaction itself, nor a reversal resolved before in this loop.
    <2>4. ASSUME t \in Undoing(p)', NEW s \in Undoing(p), input[s].ref = input[p].ext
          PROVE  FALSE
      <3>1. ~uow[p].reversed
        BY <1>3, <1>4, <2>1, <2>4
      <3>2. s = p
        BY <1>b, <3>1 DEF ProcessOK, Undoes
      <3> DEFINE r == uow[p].writes[p].refTx
      <3>3. r \in Request /\ Matches(p, r) /\ rows[r].status = "PROCESSED"
        BY <1>b, <2>4, <3>2 DEF ProcessOK, Undoes
      <3> HIDE DEF r
      <3>4. r \in Stored
        BY <3>3 DEF Stored
      <3>5. r = p
        BY <1>c, <2>4, <3>2, <3>3, <3>4 DEF Matches, SubmitInv, Unique, Collide
      <3> QED
        BY <1>a, <3>4, <3>5 DEF SubmitInv, RowsKnown
    <2>5. \A s, x \in Undoing(p)' : input[s].ref = input[x].ref => s = x
      BY <1>b, <1>c, <2>1, <2>4 DEF ProcessOK, Undoes
    <2>6. ASSUME NEW s \in Undoing(p)'
          PROVE  LET r == v.writes[s].refTx
                 IN /\ r \in Request /\ Matches(s, r)
                    /\ rows[r].status = "PROCESSED" \/ (r = p /\ s # p)
                    /\ \A x \in Undone : input[x].ref # input[s].ref
      <3>1. CASE s = t
        BY <1>3, <1>4, <1>c, <2>1, <2>3, <2>6, <3>1
      <3>2. CASE s # t
        BY <1>b, <2>1, <2>6, <3>2 DEF ProcessOK, Undoes
      <3> QED
        BY <3>1, <3>2
    <2>7. Undoing(p)' \ {p} # {} => v.reversed
      BY <1>b, <1>4, <2>1, ZenonT(30) DEF ProcessOK, Undoes
    <2> QED
      BY <1>a, <1>1, <2>1, <2>5, <2>6, <2>7 DEF Undoes, Matches
  <1>10. Wakes(p)'
    <2>1. PendingFor(input[p].ext)' = PendingFor(input[p].ext)
      BY <1>a DEF PendingFor, Stored
    <2>2. v.writes[p].status = "PROCESSED"
      BY <1>c, <1>5
    <2> QED
      BY <1>a, <1>b, <1>c, <1>1, <1>4, <1>6, <2>1, <2>2 DEF ProcessOK, Wakes
  <1> QED
    BY <1>a, <1>7, <1>8, <1>9, <1>10 DEF ProcessOK

\* Every step of a request leaves it in order.
LEMMA ExecuteStepOwnOK ==
  ASSUME TypeInv, SubmitInv, LedgerInv, ReversalInv, NEW p \in Request, ExecuteStep(p)
  PROVE  ProcessOK(p)'
  <1>a. /\ p \in Process /\ p \notin Worker
        /\ pc \in [Process -> Label] /\ uow \in [Process -> UowType]
    BY ConstantsAssumption DEF Process, TypeInv, ControlOK, UowOK
  \* The steps before anything is staged.
  <1>b. ASSUME pc[p] \notin Staging, uow'[p].writes = uow[p].writes, uow'[p].todo = uow[p].todo,
               pc'[p] \notin {"find", "resolve"}
        PROVE  ProcessOK(p)'
    <2>1. Staged(p)' = {} /\ uow'[p].todo = {}
      BY <1>b, StagedAsFar DEF Staged, Staging
    <2> QED
      BY <1>a, <1>b, <2>1, ClearOK
  <1>c. ASSUME Release(p), NEW label \in {"done", "lost"}, Go(p, label)
        PROVE  ProcessOK(p)'
    BY <1>a, <1>c, EndedOK, ReleaseFrame DEF Go
  <1>1. CASE RejectKind(p)
    <2> DEFINE v == Rejected(uow[p], p, "INVALID_KIND")
    <2>1. /\ pc[p] = "checkKey" /\ uow'[p] = v /\ pc'[p] = "insert"
          /\ UNCHANGED <<input, target, rows, outbox, walletLock, rowLock>>
      BY <1>a, <1>1 DEF RejectKind, Stage, Go, Database, Locks
    <2>2. Settles(uow[p], v, p)
      BY <1>a, RejectedSettles DEF FailureCode
    <2>3. v.writes[p].status = "REJECTED"
      BY <1>a, RejectedOutcome
    <2> HIDE DEF v
    <2>4. Staged(p) = {} /\ uow[p].todo = {}
      BY <2>1, StagedAsFar DEF Staging
    <2> QED
      BY <1>a, <2>1, <2>2, <2>3, <2>4, DecidedOK DEF StagesWell, WalletOf
  <1>2. CASE CheckKey(p) \/ CheckExt(p) \/ WalletNotFound(p) \/ LostRace(p)
    <2>1. pc[p] \notin Staging /\ uow' = uow
      BY <1>2 DEF CheckKey, CheckExt, WalletNotFound, LostRace, Staging
    <2>2. pc'[p] \in {"done", "checkExt", "lockWallet"}
      BY <1>a, <1>2 DEF CheckKey, CheckExt, WalletNotFound, LostRace, Return, Go
    <2> QED
      BY <1>b, <2>1, <2>2
  <1>3. CASE LockSubmittedWallet(p)
    <2>1. /\ pc[p] = "lockWallet" /\ pc'[p] = "decide"
          /\ uow'[p] = [uow[p] EXCEPT !.wallet = wallets[input[p].wallet]]
      BY <1>a, <1>3, LockFrame DEF LockSubmittedWallet
    <2>2. uow'[p].writes = uow[p].writes /\ uow'[p].todo = uow[p].todo
      BY <1>a, <2>1 DEF UowType
    <2> QED
      BY <1>b, <2>1, <2>2 DEF Staging
  <1>4. CASE Decide(p)
    <2>1. PICK v : Stage(p, v) /\ Settles(uow[p], v, p) /\ StagesWell(p, v, p)
      BY <1>4, DecideStagesWell
    <2>2. /\ pc[p] = "decide" /\ uow'[p] = v /\ pc'[p] = "insert"
          /\ UNCHANGED <<input, target, rows, outbox, walletLock, rowLock>>
      BY <1>a, <1>4, <2>1 DEF Decide, Stage, Go, Database, Locks
    <2>3. Staged(p) = {} /\ uow[p].todo = {}
      BY <2>2, StagedAsFar DEF Staging
    <2> QED
      BY <1>a, <2>1, <2>2, <2>3, DecidedOK DEF WalletOf
  <1>5. CASE Insert(p)
    <2>1. CASE Rollback(p) /\ Go(p, "lost")
      BY <1>c, <2>1 DEF Rollback
    <2>2. CASE /\ Go(p, IF Holding(p) = {} THEN "fk"
                        ELSE IF uow[p].writes[p].status = "PROCESSED" THEN "find" ELSE "commit")
               /\ UNCHANGED <<uow, Database, Locks>>
      <3>1. pc'[p] = IF Holding(p) = {} THEN "fk"
                     ELSE IF uow[p].writes[p].status = "PROCESSED" THEN "find" ELSE "commit"
        BY <1>a, <2>2 DEF Go
      <3>2. pc[p] = "insert" /\ UNCHANGED <<input, target, uow, rows, outbox, walletLock, rowLock>>
        BY <1>5, <2>2 DEF Insert, Database, Locks
      <3> QED
        BY <3>1, <3>2, InsertedOK
    <2> QED
      BY <1>5, <2>1, <2>2 DEF Insert
  <1>6. CASE CheckForeignKey(p)
    <2>1. CASE Rollback(p) /\ Return(p, Failed("ERROR"))
      BY <1>c, <2>1 DEF Rollback, Return
    <2>2. CASE Go(p, "commit") /\ UNCHANGED <<uow, Database, Locks>>
      <3>1. /\ pc[p] = "fk" /\ pc'[p] = "commit"
            /\ UNCHANGED <<input, target, uow, rows, outbox, walletLock, rowLock>>
        BY <1>a, <1>6, <2>2 DEF CheckForeignKey, Go, Database, Locks
      \* What is inserted without the wallet's lock moves no money.
      <3>2. uow[p].writes[p].status # "PROCESSED"
        BY <1>a, <3>1 DEF ReversalInv, ProcessOK, Guarded, Holds, TypeInv, ControlOK, Quiet
      <3> QED
        BY <3>1, <3>2, InsertedOK
    <2> QED
      BY <1>6, <2>1, <2>2 DEF CheckForeignKey
  <1>7. CASE FindPending(p)
    BY <1>7, FoundOK
  <1>8. CASE \E t \in Request : ResolvePending(p, t)
    BY <1>8, ResolvedOK
  <1>9. CASE Commit(p)
    BY <1>c, <1>9 DEF Commit, Return
  <1> QED
    BY <1>1, <1>2, <1>3, <1>4, <1>5, <1>6, <1>7, <1>8, <1>9 DEF ExecuteStep

\* So does every step of a worker.
LEMMA WorkerOwnOK ==
  ASSUME TypeInv, SubmitInv, LedgerInv, ReversalInv, NEW k \in Worker,
         Pick(k) \/ RetryStep(k) \/ AbortWorker(k)
  PROVE  ProcessOK(k)'
  <1>a. /\ k \in Process /\ k \notin Request
        /\ pc \in [Process -> Label] /\ uow \in [Process -> UowType]
    BY ConstantsAssumption DEF Process, TypeInv, ControlOK, UowOK
  <1>b. WorkerRows(k)
    BY <1>a DEF ReversalInv, ProcessOK
  <1>c. ASSUME Release(k), Go(k, "idle")
        PROVE  ProcessOK(k)'
    BY <1>a, <1>c, EndedOK, ReleaseFrame DEF Go
  \* The steps before it decides.
  <1>d. ASSUME pc[k] # "commit", uow'[k].writes = uow[k].writes, uow'[k].todo = uow[k].todo,
               pc'[k] # "commit",
               pc'[k] = "decide" => /\ rowLock'[target'[k]] = k
                                    /\ rows'[target'[k]].status = "PENDING_REFERENCE"
        PROVE  ProcessOK(k)'
    <2>1. Staged(k)' = {} /\ uow'[k].todo = {}
      BY <1>b, <1>d DEF Staged, WorkerRows
    <2> QED
      BY <1>a, <1>d, <2>1, ClearOK
  <1>1. CASE Pick(k)
    BY <1>a, <1>1, <1>d DEF Pick, Go
  <1>2. CASE AbortWorker(k)
    BY <1>2, <1>c DEF AbortWorker, Rollback
  <1>3. CASE WorkerLockWallet(k)
    <2>1. /\ pc[k] = "lockWallet" /\ pc'[k] = "lockRow"
          /\ uow'[k] = [uow[k] EXCEPT !.wallet = wallets[WalletOf(k)]]
      BY <1>a, <1>3, LockFrame DEF WorkerLockWallet, WalletOf, TypeInv, ControlOK, Known
    <2>2. uow'[k].writes = uow[k].writes /\ uow'[k].todo = uow[k].todo
      BY <1>a, <2>1 DEF UowType
    <2> QED
      BY <1>d, <2>1, <2>2
  <1>4. CASE WorkerLockRow(k)
    <2>1. CASE /\ rows[target[k]].status = "PENDING_REFERENCE"
               /\ rowLock' = [rowLock EXCEPT ![target[k]] = k]
               /\ Go(k, "decide") /\ UNCHANGED <<uow, walletLock>>
      <3>1. pc[k] = "lockRow" /\ pc'[k] = "decide" /\ UNCHANGED <<target, rows>>
        BY <1>a, <1>4, <2>1 DEF WorkerLockRow, Go, Database
      <3>2. rowLock'[target[k]] = k
        BY <2>1, <3>1 DEF TypeInv, LocksOK, ControlOK
      <3> QED
        BY <1>d, <2>1, <3>1, <3>2
    <2>2. CASE Release(k) /\ Go(k, "idle")
      BY <1>c, <2>2
    <2> QED
      BY <1>4, <2>1, <2>2 DEF WorkerLockRow
  <1>5. CASE PutOff(k)
    BY <1>5, <1>c DEF PutOff, Rollback
  <1>6. CASE Retry(k)
    <2>1. PICK v : /\ Stage(k, v) /\ Settles(uow[k], v, target[k])
                   /\ StagesWell(k, v, target[k])
                   /\ v.writes[target[k]].status # "PENDING_REFERENCE"
      BY <1>6, RetryStagesWell
    <2>2. /\ pc[k] = "decide" /\ uow'[k] = v /\ pc'[k] = "commit"
          /\ UNCHANGED <<input, target, rows, outbox, walletLock, rowLock>>
      BY <1>a, <1>6, <2>1 DEF Retry, Stage, Go, Database, Locks
    <2>3. Staged(k) = {} /\ uow[k].todo = {} /\ target[k] \in Request
      BY <1>b, <2>2 DEF WorkerRows, Staged, TypeInv, ControlOK
    <2>4. Holds(k)
      BY <1>a, <2>2 DEF LedgerInv, LockHeld, Deciding
    <2>5. rowLock[target[k]] = k /\ rows[target[k]].status = "PENDING_REFERENCE"
      BY <1>b, <2>2 DEF WorkerRows
    <2> QED
      BY <1>a, <2>1, <2>2, <2>3, <2>4, <2>5, DecidedOK DEF WalletOf
  <1>7. CASE WorkerCommit(k)
    BY <1>7, <1>c DEF WorkerCommit
  <1> QED
    BY <1>1, <1>2, <1>3, <1>4, <1>5, <1>6, <1>7 DEF RetryStep

\* So do arrivals and failures.
LEMMA RequestOwnOK ==
  ASSUME TypeInv, ReversalInv, NEW p \in Request, Arrive(p) \/ AbortRequest(p)
  PROVE  ProcessOK(p)'
  <1>a. /\ p \in Process /\ p \notin Worker
        /\ pc \in [Process -> Label] /\ uow \in [Process -> UowType]
    BY ConstantsAssumption DEF Process, TypeInv, ControlOK, UowOK
  <1>1. CASE Arrive(p)
    <2>1. pc[p] = "idle" /\ pc'[p] = "checkKey" /\ uow' = uow
      BY <1>a, <1>1 DEF Arrive, Go
    <2>2. Staged(p)' = {} /\ uow'[p].todo = {}
      BY <2>1, StagedAsFar DEF Staged, Staging
    <2> QED
      BY <1>a, <2>1, <2>2, ClearOK
  <1>2. CASE AbortRequest(p)
    BY <1>a, <1>2, EndedOK, ReleaseFrame DEF AbortRequest, Rollback, Return, Go
  <1> QED
    BY <1>1, <1>2

\* At first nothing is stored and nothing staged.
LEMMA InitReversalInv == Init => ReversalInv
  <1> SUFFICES ASSUME Init PROVE ReversalInv
    OBVIOUS
  <1>1. StoredOK
    BY DEF Init, StoredOK, Stored, Undone, NoLostWakeup, NoRow
  <1>2. ASSUME NEW p \in Process
        PROVE  ProcessOK(p)
    <2>1. pc[p] = "idle" /\ uow[p] = EmptyUow
      BY DEF Init
    <2>2. Staged(p) = {} /\ uow[p].todo = {} /\ \A t \in Request : uow[p].writes[t].status = "NONE"
      BY <2>1 DEF Staged, EmptyUow, NoRow
    <2>3. Foreign(p) = {} /\ Undoing(p) = {}
      BY <2>2 DEF Foreign, Undoing
    <2> QED
      BY <2>1, <2>2, <2>3
         DEF ProcessOK, RequestRows, Wakes, WorkerRows, Guarded, Undoes
  <1> QED
    BY <1>1, <1>2 DEF ReversalInv

\* Every step of the system keeps the reversals in order.
LEMMA NextReversalInv ==
  TypeInv /\ SubmitInv /\ LedgerInv /\ ReversalInv /\ [Next]_vars => ReversalInv'
  <1> SUFFICES ASSUME TypeInv, SubmitInv, LedgerInv, ReversalInv, [Next]_vars PROVE ReversalInv'
    OBVIOUS
  <1>1. ASSUME NEW p \in Process, StepOf(p), ProcessOK(p)'
        PROVE  ReversalInv'
    <2>1. StoredOK'
      BY <1>1, StoredOKKept
    <2>2. \A q \in Process \ {p} : ProcessOK(q)'
      BY <1>1, RequestRowsKept, WakesKept, WorkerRowsKept, GuardedKept, UndoesKept DEF ProcessOK
    <2> QED
      BY <1>1, <2>1, <2>2 DEF ReversalInv
  <1>2. CASE Next
    BY <1>1, <1>2, NextStepOf, ExecuteStepOwnOK, WorkerOwnOK, RequestOwnOK DEF Process
  <1>3. CASE UNCHANGED vars
    <2>1. StoredOK'
      BY <1>3 DEF vars, ReversalInv, StoredOK, Stored, Undone, Announced, Matches, NoLostWakeup,
                  ProcessedReference, FindByExt
    <2>2. ASSUME NEW p \in Process
          PROVE  ProcessOK(p)'
      <3>a. ProcessOK(p)
        BY DEF ReversalInv
      <3>1. p \in Request => RequestRows(p)'
        BY <1>3, <3>a DEF vars, ProcessOK, RequestRows, Staged, Foreign
      <3>2. p \in Request => Wakes(p)'
        BY <1>3, <3>a DEF vars, ProcessOK, Wakes, Staged, Announced, ProcessedReference,
                          PendingFor, FindByExt, Stored
      <3>3. p \in Worker => WorkerRows(p)'
        BY <1>3, <3>a DEF vars, ProcessOK, WorkerRows, Staged, Holds, WalletOf
      <3>4. Guarded(p)' /\ Undoes(p)'
        BY <1>3, <3>a DEF vars, ProcessOK, Guarded, Undoes, Foreign, Staged, Undoing, Undone,
                          Stored, Matches, Holds, WalletOf
      <3> QED
        BY <3>1, <3>2, <3>3, <3>4 DEF ProcessOK
    <2> QED
      BY <2>1, <2>2 DEF ReversalInv
  <1> QED
    BY <1>2, <1>3

LEMMA ReversalInvHolds == Spec => []ReversalInv
  BY TypeInvHolds, LedgerInvHolds, SubmitInvHolds, InitReversalInv, NextReversalInv, PTL DEF Spec

\* Of all the reversals that name one transaction at most one is ever applied, on whichever
\* of the three paths, for any number of concurrent requests and workers.
THEOREM ReversedAtMostOnce == Spec => []AtMostOneReversal
  <1>1. ReversalInv => AtMostOneReversal
    BY DEF ReversalInv, StoredOK, Undone, AtMostOneReversal
  <1> QED
    BY <1>1, ReversalInvHolds, PTL

\* An applied reversal points at an applied transaction that it may undo and matches.
THEOREM ReversalsMatch == Spec => []ReversalMatches
  <1>1. ASSUME ReversalInv, NEW t \in Stored,
               rows[t].status = "PROCESSED", input[t].kind \in Reversal
        PROVE  LET i == input[t]
                   r == input[rows[t].refTx]
               IN /\ rows[rows[t].refTx].status = "PROCESSED"
                  /\ r.ext = i.ref
                  /\ r.kind \in {"BET"} \cup (IF i.kind = "ROLLBACK" THEN {"WIN", "REFUND"} ELSE {})
                  /\ \A field \in {"wallet", "player", "round", "currency", "amount"} :
                       r[field] = i[field]
    <2>1. rows[rows[t].refTx].status = "PROCESSED" /\ Matches(t, rows[t].refTx)
      BY <1>1 DEF ReversalInv, StoredOK, Undone
    <2> QED
      BY <1>1, <2>1 DEF Matches, AllowedReferenceKinds, Reversal
  <1>2. ReversalInv => ReversalMatches
    BY <1>1 DEF ReversalMatches
  <1> QED
    BY <1>2, ReversalInvHolds, PTL

\* No reversal is left waiting for a transaction of its wallet that is already processed,
\* unless that one was itself resolved late.
THEOREM NoWakeupIsLost == Spec => []NoLostWakeup
  BY ReversalInvHolds, PTL DEF ReversalInv, StoredOK

\* A committed PROCESSED row is never written again: of the terminal rows, only one that a
\* worker rejected in another wallet can still be overwritten.
THEOREM ProcessedRowsAreFinal ==
  Spec => [][\A t \in Request : rows[t].status = "PROCESSED" => rows'[t] = rows[t]]_vars
  <1>1. TypeInv /\ SubmitInv /\ ReversalInv /\ [Next]_vars
          => [\A t \in Request : rows[t].status = "PROCESSED" => rows'[t] = rows[t]]_vars
    BY NextStepOf, ProcessedIsFinal DEF Process, vars
  <1> QED
    BY <1>1, TypeInvHolds, SubmitInvHolds, ReversalInvHolds, PTL DEF Spec

-----------------------------------------------------------------------------
(* Nobody waits in a circle: every process waits only for one that is       *)
(* further on.                                                              *)

\* Requests and workers have each their steps.
OnItsWay(p) ==
  IF p \in Request THEN pc[p] # "lockRow"
                   ELSE pc[p] \in {"idle", "lockWallet", "lockRow", "decide", "commit"}

\* A request inserts without its wallet's lock only what nobody may submit.  A row is
\* locked by a request that has resolved it, and so has it no more to do, or by a worker
\* that decides about it with the lock of the wallet.
InOrder(p) ==
  /\ OnItsWay(p)
  /\ p \in Request /\ pc[p] \in Staging /\ ~Holds(p) => ~ExternallySubmittable(input[p].kind)
  /\ \A t \in Request : rowLock[t] = p =>
       IF p \in Request THEN t \in Foreign(p) ELSE pc[p] \in {"decide", "commit"}
  /\ p \in Request => Foreign(p) \cap uow[p].todo = {}

WaitInv == \A p \in Process : InOrder(p)

\* How far a process is on its way through the locks: the wallet, the insert or the row
\* to retry, the rows to resolve.
Rank(p) ==
  IF pc[p] \in {"decide", "find", "commit"} THEN 3
  ELSE IF pc[p] = "resolve" THEN 2
  ELSE IF pc[p] \in {"insert", "lockRow"} THEN 1
  ELSE 0

-----------------------------------------------------------------------------
\* The steps of the others do not disturb a process.
LEMMA InOrderKept ==
  ASSUME TypeInv, SubmitInv, ReversalInv, NEW p \in Process, StepOf(p),
         NEW q \in Process, q # p, InOrder(q)
  PROVE  InOrder(q)'
  <1>1. /\ uow'[q] = uow[q] /\ pc'[q] = pc[q]
        /\ \A t \in Request : rowLock'[t] = q <=> rowLock[t] = q
    BY DEF StepOf
  <1>2. Foreign(q)' = Foreign(q)
    BY <1>1 DEF Foreign, Staged
  <1>3. ASSUME q \in Request, pc'[q] \in Staging, ~Holds(q)'
        PROVE  ~ExternallySubmittable(input'[q].kind)
    <2>1. pc[q] # "idle" /\ pc[q] \in Staging
      BY <1>1, <1>3 DEF Staging
    <2>2. ~Holds(q)
      BY <1>3, <2>1, StepKeeps
    <2>3. input'[q] = input[q]
      BY <1>3, <2>1 DEF StepOf
    <2> QED
      BY <1>3, <2>1, <2>2, <2>3 DEF InOrder
  <1>4. OnItsWay(q)'
    BY <1>1 DEF InOrder, OnItsWay
  <1> QED
    BY <1>1, <1>2, <1>3, <1>4 DEF InOrder

\* Its own steps are those of a request or those of a worker.
LEMMA StaysOnItsWay ==
  ASSUME TypeInv, NEW p \in Process, OnItsWay(p),
         \/ p \in Request /\ (Arrive(p) \/ ExecuteStep(p) \/ AbortRequest(p))
         \/ p \in Worker /\ (Pick(p) \/ RetryStep(p) \/ AbortWorker(p))
  PROVE  OnItsWay(p)'
  <1>a. pc \in [Process -> Label]
    BY DEF TypeInv, ControlOK
  <1>1. CASE p \in Request /\ (Arrive(p) \/ ExecuteStep(p) \/ AbortRequest(p))
    <2>1. pc'[p] # "lockRow"
      BY <1>a, <1>1 DEF Arrive, AbortRequest, ExecuteStep, RejectKind, CheckKey, CheckExt,
                        WalletNotFound, LockSubmittedWallet, LockWallet, Decide, Insert,
                        CheckForeignKey, LostRace, FindPending, ResolvePending, Commit,
                        Return, Go
    <2> QED
      BY <1>1, <2>1 DEF OnItsWay
  <1>2. CASE p \in Worker /\ (Pick(p) \/ RetryStep(p) \/ AbortWorker(p))
    <2>1. p \notin Request /\ pc'[p] \in {"idle", "lockWallet", "lockRow", "decide", "commit"}
      BY <1>a, <1>2, ConstantsAssumption
         DEF Pick, AbortWorker, RetryStep, WorkerLockWallet, LockWallet, WorkerLockRow, PutOff,
             Retry, WorkerCommit, Go
    <2> QED
      BY <2>1 DEF OnItsWay
  <1> QED
    BY <1>1, <1>2

\* One that has no row locked and nothing to do is in order as long as it has staged nothing.
LEMMA UnlockedOK ==
  ASSUME NEW p \in Process, \A t \in Request : rowLock'[t] # p, uow'[p].todo = {},
         p \in Request => pc'[p] \notin Staging, OnItsWay(p)'
  PROVE  InOrder(p)'
  BY DEF InOrder

\* A process that gives everything back is.
LEMMA ReleasedOK ==
  ASSUME TypeInv, NEW p \in Process, Release(p), pc'[p] \in {"idle", "lost", "done"},
         OnItsWay(p)'
  PROVE  InOrder(p)'
  <1>1. \A t \in Request : rowLock'[t] # p
    BY ConstantsAssumption DEF Release, Process
  <1>2. uow'[p].todo = {}
    BY ReleaseFrame DEF EmptyUow
  <1> QED
    BY <1>1, <1>2, UnlockedOK DEF Staging

\* A request has no row locked before it resolves one.
LEMMA NoRowLocked ==
  ASSUME ReversalInv, NEW p \in Request, InOrder(p), pc[p] \notin {"resolve", "commit"}
  PROVE  \A t \in Request : rowLock[t] # p
  BY StagedAsFar DEF InOrder

LEMMA ExecuteStepInOrder ==
  ASSUME TypeInv, SubmitInv, LedgerInv, ReversalInv, ReversalInv',
         NEW p \in Request, ExecuteStep(p), InOrder(p), OnItsWay(p)'
  PROVE  InOrder(p)'
  <1>a. /\ p \in Process /\ p \notin Worker
        /\ pc \in [Process -> Label] /\ uow \in [Process -> UowType]
    BY ConstantsAssumption DEF Process, TypeInv, ControlOK, UowOK
  <1>b. pc'[p] # "resolve" => uow'[p].todo = {}
    BY <1>a DEF ReversalInv, ProcessOK, RequestRows
  <1>c. ASSUME Release(p), NEW label \in {"done", "lost"}, Go(p, label)
        PROVE  InOrder(p)'
    BY <1>a, <1>c, ReleasedOK DEF Go
  \* The steps before anything is inserted lock no row.
  <1>d. ASSUME pc[p] \notin {"resolve", "commit"}, pc'[p] # "resolve", rowLock' = rowLock,
               pc'[p] \in Staging /\ ~Holds(p)' => ~ExternallySubmittable(input'[p].kind)
        PROVE  InOrder(p)'
    <2>1. \A t \in Request : rowLock'[t] # p
      BY <1>d, NoRowLocked
    <2> QED
      BY <1>b, <1>d, <2>1 DEF InOrder
  <1>1. CASE RejectKind(p)
    <2>1. /\ pc[p] = "checkKey" /\ pc'[p] = "insert" /\ UNCHANGED <<input, rowLock>>
          /\ ~ExternallySubmittable(input[p].kind)
      BY <1>a, <1>1 DEF RejectKind, Go, Locks
    <2> QED
      BY <1>d, <2>1
  <1>2. CASE CheckKey(p) \/ CheckExt(p) \/ WalletNotFound(p) \/ LostRace(p)
    <2>1. pc[p] \notin Staging /\ UNCHANGED <<input, rowLock>>
      BY <1>2 DEF CheckKey, CheckExt, WalletNotFound, LostRace, Staging, Locks
    <2>2. pc'[p] \in {"done", "checkExt", "lockWallet"}
      BY <1>a, <1>2 DEF CheckKey, CheckExt, WalletNotFound, LostRace, Return, Go
    <2> QED
      BY <1>d, <2>1, <2>2 DEF Staging
  <1>3. CASE LockSubmittedWallet(p)
    <2>1. pc[p] = "lockWallet" /\ pc'[p] = "decide" /\ rowLock' = rowLock
      BY <1>a, <1>3 DEF LockSubmittedWallet, LockWallet, Go
    <2> QED
      BY <1>d, <2>1 DEF Staging
  <1>4. CASE Decide(p)
    <2>1. pc[p] = "decide" /\ pc'[p] = "insert" /\ UNCHANGED <<input, walletLock, rowLock>>
      BY <1>a, <1>4 DEF Decide, Go, Locks
    <2>2. Holds(p)
      BY <1>a, <2>1 DEF LedgerInv, LockHeld, Deciding
    <2>3. Holds(p)'
      BY <1>a, <2>1, <2>2 DEF Holds, WalletOf
    <2> QED
      BY <1>d, <2>1, <2>3
  <1>5. ASSUME pc[p] \in {"insert", "fk"}, pc'[p] \in {"fk", "find", "commit"},
               UNCHANGED <<input, walletLock, rowLock>>
        PROVE  InOrder(p)'
    <2>1. Holds(p)' <=> Holds(p)
      BY <1>a, <1>5 DEF Holds, WalletOf
    <2> QED
      BY <1>5, <1>d, <2>1 DEF InOrder, Staging
  <1>6. CASE Insert(p)
    <2>1. CASE Rollback(p) /\ Go(p, "lost")
      BY <1>c, <2>1 DEF Rollback
    <2>2. CASE /\ Go(p, IF Holding(p) = {} THEN "fk"
                        ELSE IF uow[p].writes[p].status = "PROCESSED" THEN "find" ELSE "commit")
               /\ UNCHANGED <<uow, Database, Locks>>
      <3>1. pc[p] = "insert" /\ UNCHANGED <<input, walletLock, rowLock>>
        BY <1>6, <2>2 DEF Insert, Locks
      <3>2. pc'[p] \in {"fk", "find", "commit"}
        BY <1>a, <2>2 DEF Go
      <3> QED
        BY <1>5, <3>1, <3>2
    <2> QED
      BY <1>6, <2>1, <2>2 DEF Insert
  <1>7. CASE CheckForeignKey(p)
    <2>1. CASE Rollback(p) /\ Return(p, Failed("ERROR"))
      BY <1>c, <2>1 DEF Rollback, Return
    <2>2. CASE Go(p, "commit") /\ UNCHANGED <<uow, Database, Locks>>
      <3>1. /\ pc[p] = "fk" /\ pc'[p] = "commit"
            /\ UNCHANGED <<input, walletLock, rowLock>>
        BY <1>a, <1>7, <2>2 DEF CheckForeignKey, Go, Locks
      <3> QED
        BY <1>5, <3>1
    <2> QED
      BY <1>7, <2>1, <2>2 DEF CheckForeignKey
  <1>8. CASE FindPending(p)
    <2>1. /\ pc[p] = "find" /\ UNCHANGED <<input, walletLock, rowLock>>
          /\ uow'[p].writes = uow[p].writes
      BY <1>a, <1>8 DEF FindPending, Locks, UowType
    <2>2. Holds(p)
      BY <1>a, <2>1 DEF LedgerInv, LockHeld, Deciding
    <2>3. Holds(p)'
      BY <1>a, <2>1, <2>2 DEF Holds, WalletOf
    <2>4. Foreign(p)' = {} /\ \A t \in Request : rowLock'[t] # p
      BY <2>1, StagedAsFar, NoRowLocked DEF Foreign, Staged
    <2> QED
      BY <2>3, <2>4 DEF InOrder
  <1>9. ASSUME NEW t \in Request, ResolvePending(p, t)
        PROVE  InOrder(p)'
    <2> DEFINE u == Reverse(uow[p], t, p, input[p].wallet, uow[p].reversed)
               v == [u EXCEPT !.todo = uow[p].todo \ {t},
                              !.reversed = @ \/ u.writes[t].status = "PROCESSED"]
    <2>1. /\ pc[p] = "resolve" /\ t \in uow[p].todo /\ rowLock' = [rowLock EXCEPT ![t] = p]
          /\ UNCHANGED <<input, walletLock>> /\ uow'[p] = v
      BY <1>a, <1>9 DEF ResolvePending, Stage
    <2>2. Settles(uow[p], u, t)
      BY <1>a, <2>1, ReverseSettles DEF TypeInv, UowOK, ControlOK, Known, Checked
    <2> HIDE DEF u
    <2>3. /\ uow'[p].todo = uow[p].todo \ {t}
          /\ uow'[p].writes[t] # NoRow
          /\ \A s \in Request \ {t} : uow'[p].writes[s] = uow[p].writes[s]
      BY <2>1, <2>2 DEF Settles, UowType
    <2> HIDE DEF v
    <2>4. t # p
      BY <1>a, <2>1 DEF SubmitInv, RowsKnown
    <2>5. Foreign(p)' = Foreign(p) \cup {t}
      BY <2>3, <2>4 DEF Foreign, Staged
    <2>6. Holds(p)
      BY <1>a, <2>1 DEF LedgerInv, LockHeld, Deciding
    <2>7. Holds(p)'
      BY <1>a, <2>1, <2>6 DEF Holds, WalletOf
    <2>8. \A s \in Request : rowLock'[s] = p => s \in Foreign(p)'
      BY <2>1, <2>5 DEF InOrder, TypeInv, LocksOK
    <2>9. Foreign(p)' \cap uow'[p].todo = {}
      BY <2>3, <2>5 DEF InOrder
    <2> QED
      BY <2>7, <2>8, <2>9 DEF InOrder
  <1>10. CASE Commit(p)
    BY <1>c, <1>10 DEF Commit, Return
  <1> QED
    BY <1>1, <1>2, <1>3, <1>4, <1>6, <1>7, <1>8, <1>9, <1>10 DEF ExecuteStep

LEMMA RequestInOrder ==
  ASSUME TypeInv, ReversalInv, NEW p \in Request, Arrive(p) \/ AbortRequest(p), InOrder(p),
         OnItsWay(p)'
  PROVE  InOrder(p)'
  <1>a. p \in Process /\ pc \in [Process -> Label]
    BY DEF Process, TypeInv, ControlOK
  <1>1. CASE Arrive(p)
    <2>1. pc[p] = "idle" /\ pc'[p] = "checkKey" /\ UNCHANGED <<uow, rowLock>>
      BY <1>a, <1>1 DEF Arrive, Go, Locks
    <2>2. uow'[p].todo = {} /\ \A t \in Request : rowLock'[t] # p
      BY <2>1, StagedAsFar, NoRowLocked
    <2> QED
      BY <1>a, <2>1, <2>2, UnlockedOK DEF Staging
  <1>2. CASE AbortRequest(p)
    BY <1>a, <1>2, ReleasedOK DEF AbortRequest, Rollback, Return, Go
  <1> QED
    BY <1>1, <1>2

LEMMA WorkerInOrder ==
  ASSUME TypeInv, ReversalInv, NEW k \in Worker, InOrder(k), OnItsWay(k)',
         Pick(k) \/ RetryStep(k) \/ AbortWorker(k)
  PROVE  InOrder(k)'
  <1>a. k \in Process /\ k \notin Request /\ pc \in [Process -> Label]
    BY ConstantsAssumption DEF Process, TypeInv, ControlOK
  <1>b. ASSUME Release(k), Go(k, "idle") PROVE InOrder(k)'
    BY <1>a, <1>b, ReleasedOK DEF Go
  <1>1. CASE Pick(k) \/ WorkerLockWallet(k)
    <2>1. pc[k] \in {"idle", "lockWallet"} /\ rowLock' = rowLock
      BY <1>1 DEF Pick, WorkerLockWallet, Locks
    <2> QED
      BY <1>a, <2>1 DEF InOrder
  <1>2. CASE WorkerLockRow(k)
    <2>1. CASE Release(k) /\ Go(k, "idle")
      BY <1>b, <2>1
    <2>2. CASE Go(k, "decide")
      BY <1>a, <2>2 DEF Go, InOrder
    <2> QED
      BY <1>2, <2>1, <2>2 DEF WorkerLockRow
  <1>3. CASE Retry(k)
    BY <1>a, <1>3 DEF Retry, Go, InOrder
  <1>4. CASE PutOff(k) \/ WorkerCommit(k) \/ AbortWorker(k)
    BY <1>b, <1>4 DEF PutOff, WorkerCommit, AbortWorker, Rollback
  <1> QED
    BY <1>1, <1>2, <1>3, <1>4 DEF RetryStep

LEMMA InitWaitInv == Init => WaitInv
  <1> SUFFICES ASSUME Init, NEW p \in Process PROVE InOrder(p)
    BY DEF WaitInv
  <1>1. pc[p] = "idle" /\ uow[p].todo = {} /\ \A t \in Request : rowLock[t] # p
    BY ConstantsAssumption DEF Init, EmptyUow, Process
  <1> QED
    BY <1>1 DEF InOrder, OnItsWay, Staging

LEMMA NextWaitInv ==
  TypeInv /\ SubmitInv /\ LedgerInv /\ ReversalInv /\ ReversalInv' /\ WaitInv /\ [Next]_vars
    => WaitInv'
  <1> SUFFICES ASSUME TypeInv, SubmitInv, LedgerInv, ReversalInv, ReversalInv', WaitInv, [Next]_vars
               PROVE  WaitInv'
    OBVIOUS
  <1>1. ASSUME NEW p \in Process, StepOf(p), InOrder(p)' PROVE WaitInv'
    BY <1>1, InOrderKept DEF WaitInv
  <1>2. CASE Next
    <2>1. ASSUME NEW p \in Request, StepOf(p), Arrive(p) \/ ExecuteStep(p) \/ AbortRequest(p)
          PROVE  WaitInv'
      <3>1. p \in Process /\ InOrder(p)
        BY DEF WaitInv, Process
      <3>2. InOrder(p)'
        BY <2>1, <3>1, StaysOnItsWay, ExecuteStepInOrder, RequestInOrder DEF InOrder
      <3> QED
        BY <1>1, <2>1, <3>1, <3>2
    <2>2. ASSUME NEW k \in Worker, StepOf(k), Pick(k) \/ RetryStep(k) \/ AbortWorker(k)
          PROVE  WaitInv'
      <3>1. k \in Process /\ InOrder(k)
        BY DEF WaitInv, Process
      <3>2. InOrder(k)'
        BY <2>2, <3>1, StaysOnItsWay, WorkerInOrder DEF InOrder
      <3> QED
        BY <1>1, <2>2, <3>1, <3>2
    <2> QED
      BY <1>2, <2>1, <2>2, NextStepOf
  <1>3. CASE UNCHANGED vars
    BY <1>3 DEF vars, WaitInv, InOrder, OnItsWay, Foreign, Staged, Holds, WalletOf
  <1> QED
    BY <1>2, <1>3

LEMMA WaitInvHolds == Spec => []WaitInv
  BY TypeInvHolds, SubmitInvHolds, LedgerInvHolds, ReversalInvHolds,
     InitWaitInv, NextWaitInv, PTL DEF Spec

-----------------------------------------------------------------------------
(* Everybody waits for somebody who is further on. *)

Submittable(p) == p \in Request /\ pc[p] # "idle" => ExternallySubmittable(input[p].kind)

\* What somebody may submit is not inserted without the lock of its wallet.
LEMMA NoForeignKeyWait ==
  ASSUME TypeInv, WaitInv, NEW p \in Process, Submittable(p)
  PROVE  pc[p] # "fk" \/ p \notin Request
  <1> SUFFICES ASSUME p \in Request, pc[p] = "fk" PROVE FALSE
    OBVIOUS
  <1>1. ~Holds(p)
    BY DEF Holds, TypeInv, ControlOK, Quiet
  <1> QED
    BY <1>1 DEF WaitInv, InOrder, Staging, Submittable

\* Who holds a wallet has got past asking for it.
LEMMA WalletHolder ==
  ASSUME TypeInv, NEW w \in Wallet, NEW q \in Process, walletLock[w] = q
  PROVE  Rank(q) \in 1..3
  <1>1. pc[q] \in Label /\ pc[q] \notin Quiet
    BY DEF TypeInv, ControlOK
  <1> QED
    BY <1>1 DEF Label, Quiet, Rank

\* Who holds a row resolves the last of them, or has only to commit.
LEMMA RowHolder ==
  ASSUME ReversalInv, WaitInv, NEW t \in Request, NEW q \in Process, rowLock[t] = q
  PROVE  \/ Rank(q) = 3
         \/ q \in Request /\ t \in Foreign(q) /\ pc[q] = "resolve"
  <1>1. CASE q \in Request
    <2>1. t \in Foreign(q)
      BY <1>1 DEF WaitInv, InOrder
    <2>2. pc[q] \in {"resolve", "commit"}
      BY <1>1, <2>1, StagedAsFar
    <2> QED
      BY <1>1, <2>1, <2>2 DEF Rank
  <1>2. CASE q \notin Request
    BY <1>2 DEF WaitInv, InOrder, Rank
  <1> QED
    BY <1>1, <1>2

LEMMA WaitsUpwards ==
  ASSUME TypeInv, SubmitInv, ReversalInv, WaitInv, NEW p \in Process, NEW q \in Process,
         Submittable(p), Submittable(q), q \in WaitsFor(p)
  PROVE  Rank(p) < Rank(q)
  <1>1. CASE pc[p] = "lockWallet"
    <2> DEFINE w == WalletOf(p)
    <2>1. w \in Wallet /\ (walletLock[w] = q \/ q \in KeyShareHolders(w))
      BY <1>1 DEF WaitsFor
    <2> HIDE DEF w
    <2>2. Rank(q) \in 1..3
      BY <2>1, WalletHolder DEF KeyShareHolders, Rank
    <2> QED
      BY <1>1, <2>2 DEF Rank
  <1>2. CASE pc[p] = "insert"
    <2>1. q \in Request /\ pc[q] \in {"fk", "find", "resolve", "commit"}
      BY <1>2 DEF WaitsFor, InsertBlockers, Inserting
    <2>2. pc[q] # "fk"
      BY <2>1, NoForeignKeyWait
    <2> QED
      BY <1>2, <2>1, <2>2 DEF Rank
  <1>3. CASE pc[p] = "fk"
    <2>1. p \in Request
      BY <1>3 DEF WaitInv, InOrder, OnItsWay
    <2> QED
      BY <1>3, <2>1, NoForeignKeyWait
  <1>4. CASE pc[p] = "lockRow"
    <2>1. rowLock[target[p]] = q
      BY <1>4 DEF WaitsFor
    <2>2. p \in Worker
      BY <1>4 DEF WaitInv, InOrder, OnItsWay, Process
    <2>3. target[p] \in Request
      BY <1>4, <2>2 DEF TypeInv, ControlOK
    <2>4. Rank(p) = 1 /\ (Rank(q) = 3 \/ pc[q] = "resolve")
      BY <1>4, <2>1, <2>3, RowHolder DEF Rank
    <2> QED
      BY <2>4 DEF Rank
  <1>5. CASE pc[p] = "resolve"
    <2>1. PICK t \in uow[p].todo : rowLock[t] = q
      BY <1>5 DEF WaitsFor
    <2>2. p \in Request
      BY <1>5 DEF WaitInv, InOrder, OnItsWay
    <2>3. /\ t \in Request /\ input[t].ref = input[p].ext
      BY <2>1, <2>2 DEF ReversalInv, ProcessOK, RequestRows, TypeInv, UowOK, UowType
    \* Two processes that resolve the same row would be the same transaction.
    <2>4. ASSUME q \in Request, t \in Foreign(q), pc[q] = "resolve" PROVE FALSE
      <3>1. input[t].ref = input[q].ext
        BY <2>4 DEF ReversalInv, ProcessOK, RequestRows
      <3>2. p \in Inserting /\ q \in Inserting
        BY <1>5, <2>2, <2>4 DEF Inserting
      <3>3. p = q
        BY <2>3, <3>1, <3>2 DEF SubmitInv, Unique, Collide
      <3> QED
        BY <2>1, <2>2, <2>4, <3>3 DEF WaitInv, InOrder
    <2>5. Rank(q) = 3
      BY <2>1, <2>3, <2>4, RowHolder
    <2> QED
      BY <1>5, <2>5 DEF Rank
  <1> QED
    BY <1>1, <1>2, <1>3, <1>4, <1>5 DEF WaitsFor

\* No set of requests and workers, of any number, waits for itself: the database never has
\* a deadlock to break, as long as nobody submits a kind that nobody may submit.
THEOREM NoCircularWait == Spec => []NoWaitCycle
  <1>1. ASSUME TypeInv, SubmitInv, ReversalInv, WaitInv,
               NEW S \in (SUBSET Process) \ {{}}, \A p \in S : Submittable(p),
               \A p \in S : WaitsFor(p) \cap S # {}
        PROVE  FALSE
    <2>1. \A p \in S : \E q \in S : Rank(p) < Rank(q)
      BY <1>1, WaitsUpwards
    <2>2. \A p \in S : Rank(p) \in 0..3
      BY DEF Rank
    <2>3. S # {} /\ \E p \in S : Rank(p) \in 0..3
      BY <2>2
    <2>4. \E p \in S : Rank(p) \in 1..3
      BY <2>1, <2>2, <2>3
    <2>5. \E p \in S : Rank(p) \in 2..3
      BY <2>1, <2>2, <2>4
    <2>6. \E p \in S : Rank(p) = 3
      BY <2>1, <2>2, <2>5
    <2> QED
      BY <2>1, <2>2, <2>6
  <1>2. TypeInv /\ SubmitInv /\ ReversalInv /\ WaitInv => NoWaitCycle
    BY <1>1 DEF NoWaitCycle, Submittable
  <1> QED
    BY <1>2, TypeInvHolds, SubmitInvHolds, ReversalInvHolds, WaitInvHolds, PTL

-----------------------------------------------------------------------------
(***************************************************************************)
(* What the outbox says: the balances of each wallet in the order of its   *)
(* ledger, and the outcome of each transaction once.                       *)
(***************************************************************************)

-----------------------------------------------------------------------------
(* Sequences of events. *)

\* No balance changes.
Silent(es) == \A n \in DOMAIN es : es[n].type # "BalanceChanged"

LEMMA ConcatParts ==
  ASSUME NEW S, NEW s \in Seq(S), NEW t \in Seq(S)
  PROVE  /\ s \o t \in Seq(S) /\ Len(s \o t) = Len(s) + Len(t)
         /\ \A n \in DOMAIN (s \o t) :
              \/ n \in DOMAIN s /\ (s \o t)[n] = s[n]
              \/ n - Len(s) \in DOMAIN t /\ (s \o t)[n] = t[n - Len(s)]
         /\ \A n \in DOMAIN s : n \in DOMAIN (s \o t) /\ (s \o t)[n] = s[n]
         /\ \A n \in DOMAIN t : Len(s) + n \in DOMAIN (s \o t) /\ (s \o t)[Len(s) + n] = t[n]
  OBVIOUS

LEMMA AppendConcat ==
  ASSUME NEW S, NEW s \in Seq(S), NEW e \in S PROVE Append(s, e) = s \o <<e>>
  OBVIOUS

LEMMA ElementsOf ==
  ASSUME NEW S, NEW s \in Seq(S) PROVE \A n \in DOMAIN s : s[n] \in S
  OBVIOUS

LEMMA SilentConcat ==
  ASSUME NEW s \in Seq(EventType), NEW t \in Seq(EventType), Silent(s), Silent(t)
  PROVE  Silent(s \o t)
  BY ConcatParts DEF Silent

LEMMA SilentAnnounces ==
  ASSUME NEW es \in Seq(EventType), NEW version \in Nat
  PROVE  Silent(es) <=> Announces(es, <<>>, version)
  BY DEF Silent, Announces

\* Events that announce what comes after what others announce go on where those end.
LEMMA AnnouncesConcat ==
  ASSUME NEW s \in Seq(EventType), NEW t \in Seq(EventType),
         NEW k \in Seq(EntryType), NEW l \in Seq(EntryType), NEW version \in Nat,
         Announces(s, k, version), Announces(t, l, version + Len(k))
  PROVE  Announces(s \o t, k \o l, version)
  <1> DEFINE c == s \o t
             e == k \o l
  <1>1. /\ Len(s) \in Nat /\ Len(k) \in Nat /\ Len(l) \in Nat
        /\ DOMAIN s = 1..Len(s) /\ DOMAIN c \subseteq Nat /\ Len(e) = Len(k) + Len(l)
        /\ DOMAIN k = 1..Len(k) /\ DOMAIN l = 1..Len(l) /\ DOMAIN t \subseteq Nat \ {0}
    OBVIOUS
  <1>2. /\ \A n \in DOMAIN c : \/ n \in DOMAIN s /\ c[n] = s[n]
                               \/ n - Len(s) \in DOMAIN t /\ c[n] = t[n - Len(s)]
        /\ \A n \in DOMAIN s : n \in DOMAIN c /\ c[n] = s[n]
        /\ \A n \in DOMAIN t : Len(s) + n \in DOMAIN c /\ c[Len(s) + n] = t[n]
    BY ConcatParts
  <1>3. /\ \A n \in DOMAIN k : e[n] = k[n]
        /\ \A n \in DOMAIN l : e[Len(k) + n] = l[n]
    BY ConcatParts
  <1>4. /\ \A n \in DOMAIN s : s[n].version \in Nat
        /\ \A n \in DOMAIN t : t[n].version \in Nat
    <2>1. \A ev \in EventType : ev.version \in Nat
      BY DEF EventType
    <2> QED
      BY <2>1, ElementsOf
  <1> HIDE DEF c, e
  <1>5. ASSUME NEW n \in DOMAIN c, c[n].type = "BalanceChanged"
        PROVE  /\ c[n].version \in version + 1..version + Len(e)
               /\ c[n].tx = e[c[n].version - version].tx
               /\ n \in DOMAIN s => c[n].version <= version + Len(k)
               /\ n \notin DOMAIN s => c[n].version > version + Len(k)
    <2>1. CASE n \in DOMAIN s /\ c[n] = s[n]
      <3>1. /\ s[n].version \in version + 1..version + Len(k)
            /\ s[n].tx = k[s[n].version - version].tx
        BY <1>5, <2>1 DEF Announces
      <3>2. s[n].version - version \in DOMAIN k /\ s[n].version \in Nat
        BY <1>1, <1>4, <2>1, <3>1
      <3> QED
        BY <1>1, <1>3, <2>1, <3>1, <3>2
    <2>2. CASE n - Len(s) \in DOMAIN t /\ c[n] = t[n - Len(s)]
      <3> DEFINE m == n - Len(s)
      <3>1. /\ t[m].version \in version + Len(k) + 1..version + Len(k) + Len(l)
            /\ t[m].tx = l[t[m].version - (version + Len(k))].tx
        BY <1>5, <2>2 DEF Announces
      <3>2. t[m].version \in Nat /\ n \notin DOMAIN s
        BY <1>1, <1>4, <2>2
      <3> DEFINE x == t[m].version - (version + Len(k))
      <3>3. x \in DOMAIN l /\ Len(k) + x = t[m].version - version
        <4>1. PICK y \in Nat : y = t[m].version
          BY <3>2
        <4>2. y \in version + Len(k) + 1..version + Len(k) + Len(l)
          BY <3>1, <4>1
        <4>3. /\ y - (version + Len(k)) \in 1..Len(l)
              /\ Len(k) + (y - (version + Len(k))) = y - version
          BY <1>1, <4>2
        <4> QED
          BY <1>1, <4>1, <4>3
      <3>4. e[t[m].version - version] = l[x]
        BY <1>3, <3>3
      <3> QED
        BY <1>1, <2>2, <3>1, <3>2, <3>4, SMTT(30)
    <2> QED
      BY <1>2, <2>1, <2>2
  <1>6. ASSUME NEW v \in version + 1..version + Len(e)
        PROVE  \E n \in DOMAIN c : c[n].type = "BalanceChanged" /\ c[n].version = v
    <2>1. CASE v \in version + 1..version + Len(k)
      <3>1. PICK n \in DOMAIN s : s[n].type = "BalanceChanged" /\ s[n].version = v
        BY <2>1 DEF Announces
      <3> QED
        BY <1>2, <3>1
    <2>2. CASE v \in version + Len(k) + 1..version + Len(k) + Len(l)
      <3>1. PICK n \in DOMAIN t : t[n].type = "BalanceChanged" /\ t[n].version = v
        BY <2>2 DEF Announces
      <3> QED
        BY <1>2, <3>1
    <2> QED
      BY <1>1, <2>1, <2>2
  <1>7. ASSUME NEW m \in DOMAIN c, NEW n \in DOMAIN c, m < n,
               c[m].type = "BalanceChanged", c[n].type = "BalanceChanged"
        PROVE  c[m].version < c[n].version
    <2>1. CASE m \in DOMAIN s /\ n \in DOMAIN s
      BY <1>2, <1>7, <2>1 DEF Announces
    <2>2. CASE m \notin DOMAIN s /\ n \notin DOMAIN s
      <3>1. /\ m - Len(s) \in DOMAIN t /\ c[m] = t[m - Len(s)]
            /\ n - Len(s) \in DOMAIN t /\ c[n] = t[n - Len(s)]
        BY <1>2, <2>2
      <3>2. m - Len(s) < n - Len(s)
        BY <1>1, <1>7
      <3> QED
        BY <1>7, <3>1, <3>2, SMTT(30) DEF Announces
    <2>3. CASE m \in DOMAIN s /\ n \notin DOMAIN s
      <3>1. c[m].version <= version + Len(k) /\ c[n].version > version + Len(k)
        BY <1>5, <1>7, <2>3
      <3>2. c[m].version \in Nat /\ c[n].version \in Nat
        BY <1>2, <1>4
      <3> QED
        BY <1>1, <3>1, <3>2
    <2>4. CASE m \notin DOMAIN s /\ n \in DOMAIN s
      BY <1>1, <1>2, <1>7, <2>4
    <2> QED
      BY <2>1, <2>2, <2>3, <2>4
  <1> QED
    BY <1>5, <1>6, <1>7 DEF Announces, c, e

-----------------------------------------------------------------------------
(* What settling a row says about it. *)

\* The event that tells what has become of a row.
Tells(type, row) ==
  \/ type = "Processed" /\ row.status = "PROCESSED"
  \/ type = "Rejected" /\ row.status = "REJECTED"
  \/ type = "PendingReference" /\ row.status = "PENDING_REFERENCE"

\* One unit of work adds the events `new` to those that another has for wallet w.
Adds(u, v, w, new) ==
  /\ w \in Wallet => v.events[w] = u.events[w] \o new
  /\ \A y \in Wallet \ {w} : v.events[y] = u.events[y]

\* Row t is settled and no money moves.
SettlesQuietly(u, v, t) ==
  /\ v.wallet = u.wallet /\ v.entries = u.entries
  /\ \E type \in {"Processed", "Rejected", "PendingReference"} :
       Tells(type, v.writes[t]) /\ Adds(u, v, input[t].wallet, <<Event(type, t, 0)>>)

\* Row t is settled with an entry and the event of the balance it leads to.
SettlesLoudly(u, v, t) ==
  /\ v.wallet.version = u.wallet.version + 1
  /\ \E e \in EntryType : e.tx = t /\ v.entries = Append(u.entries, e)
  /\ Tells("Processed", v.writes[t])
  /\ Adds(u, v, input[t].wallet,
          <<Event("Processed", t, 0), Event("BalanceChanged", t, u.wallet.version + 1)>>)

\* Writing a row and appending the event that tells it settles the row quietly, whether or
\* not the aggregate of the event is a wallet.
LEMMA QuietRow ==
  ASSUME NEW u \in UowType, NEW t \in Request, NEW row,
         NEW type \in {"Processed", "Rejected", "PendingReference"}, Tells(type, row),
         NEW v, v = [u EXCEPT !.writes[t] = row,
                              !.events[input[t].wallet] = Append(@, Event(type, t, 0))]
  PROVE  SettlesQuietly(u, v, t)
  <1> DEFINE e == Event(type, t, 0)
             w == input[t].wallet
  <1>1. /\ u.events \in [Wallet -> Seq(EventType)]
        /\ v.events = [u.events EXCEPT ![w] = Append(@, e)]
        /\ v.wallet = u.wallet /\ v.entries = u.entries
        /\ v.writes[t] = row
    BY DEF UowType
  <1>2. w \in Wallet => Append(u.events[w], e) = u.events[w] \o <<e>>
    <2>1. e \in EventType
      BY DEF Event, EventType
    <2>2. w \in Wallet => u.events[w] \in Seq(EventType)
      BY <1>1
    <2> HIDE DEF e, w
    <2> QED
      BY <2>1, <2>2, AppendConcat
  <1> HIDE DEF e, w
  <1>3. Adds(u, v, w, <<e>>)
    BY <1>1, <1>2, ZenonT(30) DEF Adds
  <1> QED
    BY <1>1, <1>3 DEF SettlesQuietly, e, w

LEMMA RejectedTells ==
  ASSUME NEW u \in UowType, NEW t \in Request, NEW code
  PROVE  SettlesQuietly(u, Rejected(u, t, code), t)
  <1> DEFINE row == [NoRow EXCEPT !.status = "REJECTED", !.failure = code]
  <1>1. Tells("Rejected", row)
    BY DEF NoRow, Tells
  <1> QED
    BY <1>1, QuietRow DEF Rejected

LEMMA PendingTells ==
  ASSUME NEW u \in UowType, NEW t \in Request
  PROVE  SettlesQuietly(u, PendingReference(u, t), t)
  <1> DEFINE row == [NoRow EXCEPT !.status = "PENDING_REFERENCE"]
  <1>1. Tells("PendingReference", row)
    BY DEF NoRow, Tells
  <1> QED
    BY <1>1, QuietRow DEF PendingReference

LEMMA SettledTells ==
  ASSUME NEW u \in UowType, NEW t \in Request
  PROVE  SettlesQuietly(u, Settled(u, t, input[t].wallet), t)
  <1> DEFINE row == [NoRow EXCEPT !.status = "PROCESSED", !.balance = u.wallet.balance]
  <1>1. Tells("Processed", row)
    BY DEF NoRow, Tells
  <1> QED
    BY <1>1, QuietRow DEF Settled

LEMMA MovedTells ==
  ASSUME NEW u \in UowType, NEW t \in Request, NEW r, NEW e \in EntryType, e.tx = t
  PROVE  SettlesLoudly(u, Moved(u, t, r, input[t].wallet, e), t)
  <1> DEFINE w == input[t].wallet
             v == Moved(u, t, r, w, e)
             new == <<Event("Processed", t, 0),
                      Event("BalanceChanged", t, u.wallet.version + 1)>>
  <1>1. /\ u.events \in [Wallet -> Seq(EventType)]
        /\ v.events = [u.events EXCEPT ![w] = @ \o new]
        /\ v.wallet.version = u.wallet.version + 1
        /\ v.entries = Append(u.entries, e)
        /\ v.writes[t].status = "PROCESSED"
    BY DEF Moved, UowType
  <1> HIDE DEF v, new, w
  <1>2. Adds(u, v, w, new)
    BY <1>1 DEF Adds
  <1> QED
    BY <1>1, <1>2 DEF SettlesLoudly, Tells, v, new, w

LEMMA ApplyToWalletTells ==
  ASSUME NEW u \in UowType, NEW t \in Request, NEW r \in Request \cup {None},
         Submitted(t), r # None => Submitted(r),
         NEW v, v = ApplyToWallet(u, t, r, input[t].wallet)
  PROVE  SettlesQuietly(u, v, t) \/ SettlesLoudly(u, v, t)
  <1> DEFINE w == input[t].wallet
             money == IF r = None THEN input[t] ELSE input[r]
             direction == DirectionOf(input[t].kind, IF r = None THEN None ELSE input[r].kind)
             why == ApplyRejection(u.wallet.balance, WalletCurrency[w],
                                   direction, money.amount, money.currency)
             e == LedgerEntry(t, direction, money.amount, u.wallet.balance)
  <1>1. money.amount \in Nat
    BY ConstantsAssumption DEF Submitted
  <1>2. direction \in Direction
    BY DEF DirectionOf, OriginalDirection, Direction
  <1>3. u.wallet.balance \in Nat
    BY DEF UowType, WalletType
  <1>4. \/ why = None /\ v = Moved(u, t, r, w, e)
        \/ \E code : v = Rejected(u, t, code)
    BY DEF ApplyToWallet
  <1>5. CASE why = None /\ v = Moved(u, t, r, w, e)
    <2> HIDE DEF money, direction
    <2>1. e \in EntryType
      BY <1>1, <1>2, <1>3, <1>5, LedgerEntrySound
    <2>2. e.tx = t
      BY DEF LedgerEntry
    <2> HIDE DEF e
    <2> QED
      BY <1>5, <2>1, <2>2, MovedTells
  <1>6. CASE \E code : v = Rejected(u, t, code)
    BY <1>6, RejectedTells
  <1> QED
    BY <1>4, <1>5, <1>6

\* A reversal moves money in its own wallet only, whoever applies it.
LEMMA ReverseTells ==
  ASSUME NEW u \in UowType, NEW t \in Request, NEW r \in Request, NEW w, NEW reversed,
         Submitted(t), Submitted(r), input[r].ext = input[t].ref,
         w \in {input[t].wallet, input[r].wallet},
         NEW v, v = Reverse(u, t, r, w, reversed)
  PROVE  SettlesQuietly(u, v, t) \/ (SettlesLoudly(u, v, t) /\ input[t].wallet = w)
  <1> DEFINE why == ReversalRejection(input[t], input[r], input[r].wallet, reversed)
  <1>1. v = IF why = None THEN ApplyToWallet(u, t, r, w) ELSE Rejected(u, t, why)
    BY DEF Reverse
  <1>2. why = None => input[t].wallet = w
    BY AcceptedMatches DEF Matches
  <1> HIDE DEF why
  <1>3. CASE why = None
    BY <1>1, <1>2, <1>3, ApplyToWalletTells
  <1>4. CASE why # None
    BY <1>1, <1>4, RejectedTells
  <1> QED
    BY <1>3, <1>4

\* So a request and a worker tell what they have decided.
LEMMA DecideTells ==
  ASSUME TypeInv, NEW p \in Request, Decide(p)
  PROVE  \E v : Stage(p, v) /\ (SettlesQuietly(uow[p], v, p) \/ SettlesLoudly(uow[p], v, p))
  <1>1. uow[p] \in UowType /\ Submitted(p)
    BY DEF Decide, TypeInv, UowOK, ControlOK, Process
  <1>2. CASE \E code : Stage(p, Rejected(uow[p], p, code))
    BY <1>1, <1>2, RejectedTells
  <1>3. CASE Stage(p, PendingReference(uow[p], p))
    BY <1>1, <1>3, PendingTells
  <1>4. CASE \E r \in ProcessedReference(input[p].ref) :
               Stage(p, Reverse(uow[p], p, r, input[p].wallet, AlreadyReversed(input[p].ref)))
    BY <1>1, <1>4, StoredKnown, ReverseTells DEF ProcessedReference, FindByExt
  <1>5. CASE Stage(p, Settled(uow[p], p, input[p].wallet))
    BY <1>1, <1>5, SettledTells
  <1>6. CASE Stage(p, ApplyToWallet(uow[p], p, None, input[p].wallet))
    BY <1>1, <1>6, ApplyToWalletTells
  <1> QED
    BY <1>2, <1>3, <1>4, <1>5, <1>6 DEF Decide

LEMMA RetryTells ==
  ASSUME TypeInv, NEW k \in Worker, Retry(k), NEW t, t = target[k]
  PROVE  \E v : Stage(k, v) /\ (SettlesQuietly(uow[k], v, t) \/ SettlesLoudly(uow[k], v, t))
  <1>1. uow[k] \in UowType /\ t \in Request /\ Submitted(t)
    BY DEF Retry, TypeInv, UowOK, ControlOK, Process, Known
  <1>2. CASE Stage(k, Rejected(uow[k], t, "REFERENCE_NOT_FOUND"))
    BY <1>1, <1>2, RejectedTells
  <1>3. CASE \E r \in ProcessedReference(input[t].ref) :
               Stage(k, Reverse(uow[k], t, r, input[t].wallet, AlreadyReversed(input[t].ref)))
    BY <1>1, <1>3, StoredKnown, ReverseTells DEF ProcessedReference, FindByExt
  <1> QED
    BY <1>2, <1>3 DEF Retry

-----------------------------------------------------------------------------
(* The balances of a wallet, in the order of its ledger. *)

\* The entries of a wallet's ledger after the one that opened it.
Later(w) == IF Opening[w] > 0 THEN Tail(ledger[w]) ELSE ledger[w]

LedgerTold(w) ==
  /\ Opening[w] > 0 => ledger[w] # <<>>
  /\ wallets[w].version = 1 + Len(Later(w))
  /\ Announces(outbox[w], Later(w), 1)

\* The holder of a wallet's lock goes on where the committed wallet is, entry by entry and
\* version by version, and says nothing about the balance of any other wallet.
Told(p) ==
  /\ Holds(p) => LET w == WalletOf(p)
                 IN /\ uow[p].wallet.version = wallets[w].version + Len(uow[p].entries)
                    /\ Announces(uow[p].events[w], uow[p].entries, wallets[w].version)
  /\ \A w \in Wallet : (Holds(p) /\ w = WalletOf(p)) \/ Silent(uow[p].events[w])

EventInv == (\A w \in Wallet : LedgerTold(w)) /\ (\A p \in Process : Told(p))

LEMMA TailConcat ==
  ASSUME NEW S, NEW s \in Seq(S), NEW t \in Seq(S), s # <<>>
  PROVE  /\ Tail(s) \in Seq(S) /\ s \o t # <<>>
         /\ Tail(s \o t) = Tail(s) \o t
  OBVIOUS

LEMMA ConcatEmpty ==
  ASSUME NEW S, NEW s \in Seq(S) PROVE s \o <<>> = s
  OBVIOUS

\* A commit tells of a wallet exactly the entries it appends to its ledger.
LEMMA CommitTells ==
  ASSUME TypeInv, LedgerInv, NEW p \in Process, Apply(p), NEW w \in Wallet,
         LedgerTold(w), Told(p)
  PROVE  LedgerTold(w)'
  <1> DEFINE new == IF w = WalletOf(p) THEN uow[p].entries ELSE <<>>
  <1>1. /\ ledger[w] \in Seq(EntryType) /\ uow[p].entries \in Seq(EntryType)
        /\ outbox[w] \in Seq(EventType) /\ uow[p].events[w] \in Seq(EventType)
    BY DEF TypeInv, DatabaseOK, UowOK, UowType
  <1>2. uow[p].entries # <<>> => Holds(p)
    BY DEF LedgerInv, LockHeld
  <1>3. new \in Seq(EntryType) /\ (new # <<>> => Holds(p) /\ w = WalletOf(p))
    BY <1>1, <1>2
  <1>4. /\ outbox'[w] = outbox[w] \o uow[p].events[w]
        /\ w = WalletOf(p) => ledger'[w] = ledger[w] \o uow[p].entries
        /\ w # WalletOf(p) => ledger'[w] = ledger[w]
        /\ new # <<>> => wallets'[w] = uow[p].wallet
        /\ new = <<>> => wallets'[w] = wallets[w]
    BY DEF Apply
  <1>5. ledger'[w] = ledger[w] \o new
    BY <1>1, <1>4, ConcatEmpty
  <1>6. Later(w) \in Seq(EntryType) /\ Len(Later(w)) \in Nat /\ wallets[w].version = 1 + Len(Later(w))
    BY <1>1, TailConcat DEF Later, LedgerTold
  <1>7. Announces(uow[p].events[w], new, wallets[w].version)
    <2>1. CASE Holds(p) /\ w = WalletOf(p)
      BY <2>1 DEF Told
    <2>2. CASE ~(Holds(p) /\ w = WalletOf(p))
      BY <1>1, <1>3, <1>6, <2>2, SilentAnnounces DEF Told
    <2> QED
      BY <2>1, <2>2
  <1>8. new # <<>> => uow[p].wallet.version = wallets[w].version + Len(new)
    BY <1>3 DEF Told
  <1> HIDE DEF new
  <1>9. Later(w)' = Later(w) \o new /\ (Opening[w] > 0 => ledger'[w] # <<>>)
    <2>1. ledger[w] # <<>> => Tail(ledger[w] \o new) = Tail(ledger[w]) \o new /\ ledger[w] \o new # <<>>
      BY <1>1, <1>3, TailConcat
    <2>2. CASE Opening[w] > 0
      BY <1>5, <2>1, <2>2 DEF Later, LedgerTold
    <2>3. CASE ~(Opening[w] > 0)
      BY <1>5, <2>3 DEF Later
    <2> QED
      BY <2>2, <2>3
  <1>10. wallets'[w].version = 1 + Len(Later(w)')
    <2>1. Len(Later(w)') = Len(Later(w)) + Len(new) /\ Len(new) \in Nat
      BY <1>3, <1>6, <1>9, ConcatParts
    <2>2. new = <<>> => Len(new) = 0
      OBVIOUS
    <2> QED
      BY <1>4, <1>6, <1>8, <2>1, <2>2
  <1>11. Announces(outbox'[w], Later(w)', 1)
    BY <1>1, <1>3, <1>4, <1>6, <1>7, <1>9, AnnouncesConcat DEF LedgerTold
  <1> QED
    BY <1>9, <1>10, <1>11 DEF LedgerTold

\* What a step does to the tables, and to what the others say.
LEMMA TablesTold ==
  ASSUME TypeInv, LedgerInv, EventInv, NEW p \in Process, StepOf(p)
  PROVE  \A w \in Wallet : LedgerTold(w)'
  <1>1. CASE UNCHANGED Database
    BY <1>1 DEF EventInv, LedgerTold, Later, Database
  <1>2. CASE Apply(p)
    BY <1>2, CommitTells DEF EventInv
  <1> QED
    BY <1>1, <1>2 DEF StepOf

LEMMA OthersTold ==
  ASSUME TypeInv, TypeInv', SubmitInv, LedgerInv, EventInv, NEW p \in Process, StepOf(p),
         NEW q \in Process \ {p}
  PROVE  Told(q)'
  <1>1. uow'[q] = uow[q] /\ pc'[q] = pc[q]
    BY DEF StepOf
  <1>2. Told(q)
    BY DEF EventInv
  <1>3. CASE pc[q] = "idle"
    <2>1. ~Holds(q) /\ ~Holds(q)'
      BY <1>1, <1>3 DEF Holds, TypeInv, ControlOK, Quiet
    <2> QED
      BY <1>1, <1>2, <2>1 DEF Told
  <1>4. CASE pc[q] # "idle"
    <2>1. WalletOf(q)' = WalletOf(q) /\ Holds(q)' = Holds(q)
      BY <1>4, StepKeeps
    <2>2. ASSUME Holds(q)
          PROVE  wallets'[WalletOf(q)] = wallets[WalletOf(q)]
      <3>1. CASE UNCHANGED Database
        BY <3>1 DEF Database
      <3>2. CASE Apply(p)
        <4>1. ~(WalletOf(q) = WalletOf(p) /\ Holds(p))
          BY <2>2, OneHolder
        <4>2. uow[p].entries # <<>> => Holds(p)
          BY DEF LedgerInv, LockHeld
        <4>3. WalletOf(q) \in Wallet
          BY <2>2 DEF Holds
        <4> QED
          BY <3>2, <4>1, <4>2, <4>3 DEF Apply
      <3> QED
        BY <3>1, <3>2 DEF StepOf
    <2> QED
      BY <1>1, <1>2, <2>1, <2>2 DEF Told
  <1> QED
    BY <1>3, <1>4

-----------------------------------------------------------------------------
(* What a step does to what its own process says. *)

\* The events of one movement announce its entry.
LEMMA MoveAnnounced ==
  ASSUME NEW t \in Request, NEW e \in EntryType, e.tx = t, NEW version \in Nat,
         NEW new, new = <<Event("Processed", t, 0), Event("BalanceChanged", t, version + 1)>>
  PROVE  new \in Seq(EventType) /\ <<e>> \in Seq(EntryType) /\ Announces(new, <<e>>, version)
  <1>1. /\ Event("Processed", t, 0) \in EventType
        /\ Event("BalanceChanged", t, version + 1) \in EventType
    BY DEF Event, EventType
  <1>2. new \in Seq(EventType) /\ <<e>> \in Seq(EntryType)
    BY <1>1
  <1>3. /\ DOMAIN new = {1, 2}
        /\ new[1].type = "Processed"
        /\ new[2].type = "BalanceChanged" /\ new[2].version = version + 1 /\ new[2].tx = t
    BY DEF Event
  <1>4. {n \in DOMAIN new : new[n].type = "BalanceChanged"} = {2}
    BY <1>3
  <1>5. Len(<<e>>) = 1 /\ <<e>>[1] = e /\ version + 1..version + 1 = {version + 1}
        /\ (version + 1) - version = 1
    OBVIOUS
  <1>6. Announces(new, <<e>>, version)
    BY <1>3, <1>4, <1>5 DEF Announces
  <1> QED
    BY <1>2, <1>6

\* The facts about a unit of work and its wallet that the arguments below count with.
LEMMA Numbers ==
  ASSUME TypeInv, NEW p \in Process
  PROVE  /\ uow[p].entries \in Seq(EntryType) /\ Len(uow[p].entries) \in Nat
         /\ uow[p].wallet.version \in Nat
         /\ \A w \in Wallet : uow[p].events[w] \in Seq(EventType) /\ wallets[w].version \in Nat
  BY DEF TypeInv, UowOK, UowType, DatabaseOK, WalletType

\* Settling a row tells of the movement, if there is one, and of nothing else.
LEMMA QuietTold ==
  ASSUME TypeInv, EventInv, NEW p \in Process, NEW t \in Request, NEW v,
         SettlesQuietly(uow[p], v, t),
         uow'[p].events = v.events, uow'[p].entries = v.entries, uow'[p].wallet = v.wallet,
         WalletOf(p)' = WalletOf(p), Holds(p)' = Holds(p), wallets' = wallets
  PROVE  Told(p)'
  <1> DEFINE u == uow[p]
             x == input[t].wallet
  <1>1. PICK type \in {"Processed", "Rejected", "PendingReference"} :
               Adds(u, v, x, <<Event(type, t, 0)>>)
    BY DEF SettlesQuietly
  <1> DEFINE new == <<Event(type, t, 0)>>
  <1>2. new \in Seq(EventType) /\ Silent(new)
    <2>1. Event(type, t, 0) \in EventType /\ Event(type, t, 0).type = type
      BY DEF Event, EventType
    <2> QED
      BY <2>1 DEF Silent
  <1>3. v.entries = u.entries /\ v.wallet = u.wallet
    BY DEF SettlesQuietly
  <1> HIDE DEF u, x, new
  <1>4. ASSUME NEW w \in Wallet
        PROVE  \/ v.events[w] = u.events[w] \o new
               \/ v.events[w] = u.events[w]
    BY <1>1 DEF Adds, new
  <1>5. ASSUME NEW w \in Wallet, Silent(u.events[w])
        PROVE  Silent(v.events[w])
    BY <1>2, <1>4, <1>5, Numbers, SilentConcat DEF u
  <1>6. ASSUME Holds(p), NEW w, w = WalletOf(p)
        PROVE  Announces(v.events[w], v.entries, wallets[w].version)
    <2>1. w \in Wallet
      BY <1>6 DEF Holds
    <2>2. /\ u.events[w] \in Seq(EventType) /\ u.entries \in Seq(EntryType)
          /\ wallets[w].version \in Nat /\ Len(u.entries) \in Nat
      BY <2>1, Numbers DEF u
    <2>3. Announces(u.events[w], u.entries, wallets[w].version)
      BY <1>6 DEF EventInv, Told, u
    <2>4. Announces(new, <<>>, wallets[w].version + Len(u.entries))
      BY <1>2, <2>2, SilentAnnounces
    <2>5. Announces(u.events[w] \o new, u.entries \o <<>>, wallets[w].version)
      <3>1. <<>> \in Seq(EntryType)
        OBVIOUS
      <3> QED
        BY <1>2, <2>2, <2>3, <2>4, <3>1, AnnouncesConcat
    <2> QED
      BY <1>3, <1>4, <2>1, <2>2, <2>3, <2>5, ConcatEmpty
  <1> QED
    BY <1>3, <1>5, <1>6 DEF EventInv, Told, u

LEMMA LoudTold ==
  ASSUME TypeInv, EventInv, NEW p \in Process, NEW t \in Request, NEW v,
         SettlesLoudly(uow[p], v, t), input[t].wallet = WalletOf(p), Holds(p),
         uow'[p].events = v.events, uow'[p].entries = v.entries, uow'[p].wallet = v.wallet,
         WalletOf(p)' = WalletOf(p), Holds(p)' = Holds(p), wallets' = wallets
  PROVE  Told(p)'
  <1> DEFINE u == uow[p]
             w == WalletOf(p)
             new == <<Event("Processed", t, 0), Event("BalanceChanged", t, u.wallet.version + 1)>>
  <1>1. PICK e \in EntryType : e.tx = t /\ v.entries = Append(u.entries, e)
    BY DEF SettlesLoudly
  <1>2. Adds(u, v, w, new) /\ v.wallet.version = u.wallet.version + 1
    BY DEF SettlesLoudly
  <1>3. /\ w \in Wallet
        /\ u.wallet.version = wallets[w].version + Len(u.entries)
        /\ Announces(u.events[w], u.entries, wallets[w].version)
    BY DEF Holds, EventInv, Told
  <1>4. /\ u.events[w] \in Seq(EventType) /\ u.entries \in Seq(EntryType)
        /\ wallets[w].version \in Nat /\ Len(u.entries) \in Nat /\ u.wallet.version \in Nat
    BY <1>3, Numbers
  <1>5. /\ new \in Seq(EventType) /\ <<e>> \in Seq(EntryType)
        /\ Announces(new, <<e>>, u.wallet.version)
    BY <1>1, <1>4, MoveAnnounced
  <1>6. \A y \in Wallet : y = w \/ Silent(u.events[y])
    BY DEF EventInv, Told
  <1> HIDE DEF u, w, new
  <1>7. v.events[w] = u.events[w] \o new /\ \A y \in Wallet \ {w} : v.events[y] = u.events[y]
    BY <1>2, <1>3 DEF Adds
  <1>8. v.entries = u.entries \o <<e>> /\ Len(v.entries) = Len(u.entries) + 1
    BY <1>1, <1>4, SMTT(30)
  <1>9. Announces(v.events[w], v.entries, wallets[w].version)
    BY <1>3, <1>4, <1>5, <1>7, <1>8, AnnouncesConcat
  <1>10. v.wallet.version = wallets[w].version + Len(v.entries)
    BY <1>2, <1>3, <1>4, <1>8
  <1> QED
    BY <1>6, <1>7, <1>9, <1>10 DEF Told, u, w

\* A process that says and holds what it did.
LEMMA SameTold ==
  ASSUME TypeInv, EventInv, NEW p \in Process,
         uow'[p].events = uow[p].events, uow'[p].entries = uow[p].entries,
         uow'[p].wallet = uow[p].wallet, UNCHANGED <<input, target, wallets, walletLock>>
  PROVE  Told(p)'
  BY DEF EventInv, Told, Holds, WalletOf

\* A transaction ends.
LEMMA ReleasedTold ==
  ASSUME TypeInv, NEW p \in Process, Release(p)
  PROVE  Told(p)'
  <1>1. uow'[p] = EmptyUow
    BY ReleaseFrame
  <1>2. \A w \in Wallet : walletLock'[w] # p
    BY ConstantsAssumption DEF Release, Process
  <1>3. \A w \in Wallet : Silent(EmptyUow.events[w])
    BY DEF EmptyUow, Silent
  <1> QED
    BY <1>1, <1>2, <1>3 DEF Told, Holds

\* A transaction reads the wallet it locks.
LEMMA LockedTold ==
  ASSUME TypeInv, LedgerInv, EventInv, NEW p \in Process, pc[p] = "lockWallet",
         NEW w \in Wallet, w = WalletOf(p), NEW label, LockWallet(p, w, label),
         UNCHANGED <<input, target, wallets>>
  PROVE  Told(p)'
  <1>1. ~Holds(p) /\ uow[p].entries = <<>>
    BY QuietHasNothing DEF Quiet
  <1>2. \A y \in Wallet : Silent(uow[p].events[y])
    BY <1>1 DEF EventInv, Told
  <1>3. uow'[p] = [uow[p] EXCEPT !.wallet = wallets[w]] /\ walletLock'[w] = p
    BY LockFrame
  <1>4. /\ uow'[p].wallet = wallets[w] /\ uow'[p].entries = <<>>
        /\ uow'[p].events = uow[p].events
    BY <1>1, <1>3 DEF TypeInv, UowOK, UowType
  <1>5. Announces(uow[p].events[w], <<>>, wallets[w].version)
    BY <1>2, Numbers, SilentAnnounces
  <1>6. WalletOf(p)' = w
    BY DEF WalletOf
  <1>7. wallets[w].version + Len(<<>>) = wallets[w].version
    BY Numbers
  <1> QED
    BY <1>2, <1>4, <1>5, <1>6, <1>7 DEF Told

-----------------------------------------------------------------------------
(* Every step keeps the invariant. *)

\* A process that has its wallet has it until it gives it back.
LEMMA StageTold ==
  ASSUME TypeInv, EventInv, NEW p \in Process, NEW t \in Request, NEW v, Stage(p, v),
         \/ SettlesQuietly(uow[p], v, t)
         \/ SettlesLoudly(uow[p], v, t) /\ input[t].wallet = WalletOf(p) /\ Holds(p),
         UNCHANGED <<input, target, wallets, walletLock>>
  PROVE  Told(p)'
  <1>1. uow'[p] = v
    BY DEF Stage, TypeInv, UowOK
  <1>2. WalletOf(p)' = WalletOf(p) /\ Holds(p)' = Holds(p)
    BY DEF WalletOf, Holds
  <1> QED
    BY <1>1, <1>2, QuietTold, LoudTold

\* A reversal resolved by the request it names says what it did.
LEMMA ResolvedTold ==
  ASSUME TypeInv, LedgerInv, ReversalInv, EventInv, NEW p \in Request, NEW t \in Request,
         ResolvePending(p, t)
  PROVE  Told(p)'
  <1> DEFINE u == Reverse(uow[p], t, p, input[p].wallet, uow[p].reversed)
             v == [u EXCEPT !.todo = uow[p].todo \ {t},
                            !.reversed = @ \/ u.writes[t].status = "PROCESSED"]
  <1>1. /\ p \in Process /\ p \notin Worker /\ pc[p] = "resolve" /\ t \in uow[p].todo
        /\ uow[p] \in UowType /\ uow'[p] = v
        /\ UNCHANGED <<input, target, wallets, walletLock>>
    BY ConstantsAssumption DEF ResolvePending, Stage, Process, TypeInv, UowOK, Database
  <1>2. Submitted(t) /\ Submitted(p) /\ input[p].ext = input[t].ref
    BY <1>1 DEF ReversalInv, ProcessOK, RequestRows, TypeInv, UowOK, ControlOK, Known
  <1>3. Holds(p) /\ WalletOf(p) = input[p].wallet
    BY <1>1 DEF LedgerInv, LockHeld, Deciding, WalletOf
  <1>4. u \in UowType
    BY <1>1, <1>2, ReverseSettles DEF Settles
  <1>5. v.events = u.events /\ v.entries = u.entries /\ v.wallet = u.wallet
    BY <1>4 DEF UowType
  <1>6. SettlesQuietly(uow[p], u, t) \/ (SettlesLoudly(uow[p], u, t) /\ input[t].wallet = WalletOf(p))
    BY <1>1, <1>2, <1>3, ReverseTells
  <1>7. WalletOf(p)' = WalletOf(p) /\ Holds(p)' = Holds(p)
    BY <1>1 DEF WalletOf, Holds
  <1> HIDE DEF u, v
  <1> QED
    BY <1>1, <1>3, <1>5, <1>6, <1>7, QuietTold, LoudTold

LEMMA ExecuteStepTold ==
  ASSUME TypeInv, LedgerInv, ReversalInv, EventInv, NEW p \in Request, ExecuteStep(p)
  PROVE  Told(p)'
  <1>a. p \in Process /\ p \notin Worker /\ uow \in [Process -> UowType] /\ WalletOf(p) = input[p].wallet
    BY ConstantsAssumption DEF Process, TypeInv, UowOK, WalletOf
  <1>b. ASSUME UNCHANGED <<uow, input, target, Database, Locks>>
        PROVE  Told(p)'
    BY <1>a, <1>b, SameTold DEF Database, Locks
  <1>1. CASE RejectKind(p)
    <2>1. /\ Stage(p, Rejected(uow[p], p, "INVALID_KIND"))
          /\ UNCHANGED <<input, target, wallets, walletLock>>
      BY <1>1 DEF RejectKind, Database, Locks
    <2> QED
      BY <1>a, <2>1, RejectedTells, StageTold
  <1>2. CASE CheckKey(p) \/ CheckExt(p) \/ WalletNotFound(p) \/ LostRace(p)
    BY <1>2, <1>b DEF CheckKey, CheckExt, WalletNotFound, LostRace
  <1>3. CASE LockSubmittedWallet(p)
    BY <1>a, <1>3, LockedTold DEF LockSubmittedWallet, Database
  <1>4. CASE Decide(p)
    <2>1. PICK v : /\ Stage(p, v)
                   /\ SettlesQuietly(uow[p], v, p) \/ SettlesLoudly(uow[p], v, p)
      BY <1>4, DecideTells
    <2>2. Holds(p) /\ UNCHANGED <<input, target, wallets, walletLock>>
      BY <1>a, <1>4 DEF Decide, LedgerInv, LockHeld, Deciding, Database, Locks
    <2> QED
      BY <1>a, <2>1, <2>2, StageTold
  <1>5. CASE Insert(p)
    BY <1>a, <1>5, <1>b, ReleasedTold DEF Insert, Rollback
  <1>6. CASE CheckForeignKey(p)
    BY <1>a, <1>6, <1>b, ReleasedTold DEF CheckForeignKey, Rollback
  <1>7. CASE FindPending(p)
    <2> DEFINE v == [uow[p] EXCEPT !.todo = PendingFor(input[p].ext),
                                   !.reversed = AlreadyReversed(input[p].ext)]
    <2>1. uow'[p] = v /\ UNCHANGED <<input, target, wallets, walletLock>>
      BY <1>a, <1>7 DEF FindPending, Database, Locks
    <2>2. v.events = uow[p].events /\ v.entries = uow[p].entries /\ v.wallet = uow[p].wallet
      BY <1>a DEF UowType
    <2> HIDE DEF v
    <2> QED
      BY <1>a, <2>1, <2>2, SameTold
  <1>8. CASE \E t \in Request : ResolvePending(p, t)
    BY <1>8, ResolvedTold
  <1>9. CASE Commit(p)
    BY <1>a, <1>9, ReleasedTold DEF Commit
  <1> QED
    BY <1>1, <1>2, <1>3, <1>4, <1>5, <1>6, <1>7, <1>8, <1>9 DEF ExecuteStep

LEMMA WorkerTold ==
  ASSUME TypeInv, LedgerInv, EventInv, NEW k \in Worker,
         Pick(k) \/ RetryStep(k) \/ AbortWorker(k)
  PROVE  Told(k)'
  <1>a. k \in Process /\ uow \in [Process -> UowType] /\ WalletOf(k) = input[target[k]].wallet
    BY DEF Process, TypeInv, UowOK, WalletOf
  <1>1. CASE Pick(k)
    <2>1. pc[k] = "idle" /\ uow' = uow /\ walletLock' = walletLock
      BY <1>1 DEF Pick, Locks
    <2>2. \A w \in Wallet : walletLock[w] # k
      BY <1>a, <2>1 DEF TypeInv, ControlOK, Quiet
    <2> QED
      BY <1>a, <2>1, <2>2 DEF EventInv, Told, Holds
  <1>2. CASE AbortWorker(k) \/ PutOff(k) \/ WorkerCommit(k)
    BY <1>a, <1>2, ReleasedTold DEF AbortWorker, PutOff, Rollback, WorkerCommit
  <1>3. CASE WorkerLockWallet(k)
    <2>1. WalletOf(k) \in Wallet
      BY <1>a, <1>3 DEF WorkerLockWallet, TypeInv, ControlOK, Known
    <2> QED
      BY <1>a, <1>3, <2>1, LockedTold DEF WorkerLockWallet, Database
  <1>4. CASE WorkerLockRow(k)
    <2>1. CASE UNCHANGED <<uow, walletLock>>
      BY <1>a, <1>4, <2>1, SameTold DEF WorkerLockRow, Database
    <2>2. CASE Release(k)
      BY <1>a, <2>2, ReleasedTold
    <2> QED
      BY <1>4, <2>1, <2>2 DEF WorkerLockRow
  <1>5. CASE Retry(k)
    <2>1. PICK v : /\ Stage(k, v)
                   /\ SettlesQuietly(uow[k], v, target[k]) \/ SettlesLoudly(uow[k], v, target[k])
      BY <1>5, RetryTells
    <2>2. /\ Holds(k) /\ target[k] \in Request
          /\ UNCHANGED <<input, target, wallets, walletLock>>
      BY <1>a, <1>5 DEF Retry, LedgerInv, LockHeld, Deciding, TypeInv, ControlOK, Database, Locks
    <2> QED
      BY <1>a, <2>1, <2>2, StageTold
  <1> QED
    BY <1>1, <1>2, <1>3, <1>4, <1>5 DEF RetryStep

LEMMA RequestTold ==
  ASSUME TypeInv, EventInv, NEW p \in Request, Arrive(p) \/ AbortRequest(p)
  PROVE  Told(p)'
  <1>a. p \in Process
    BY DEF Process
  <1>1. CASE Arrive(p)
    <2>1. pc[p] = "idle" /\ uow' = uow /\ walletLock' = walletLock
      BY <1>1 DEF Arrive, Locks
    <2>2. \A w \in Wallet : walletLock[w] # p
      BY <1>a, <2>1 DEF TypeInv, ControlOK, Quiet
    <2> QED
      BY <1>a, <2>1, <2>2 DEF EventInv, Told, Holds
  <1>2. CASE AbortRequest(p)
    BY <1>a, <1>2, ReleasedTold DEF AbortRequest, Rollback
  <1> QED
    BY <1>1, <1>2

\* A wallet begins at version 1 with at most the entry that opened it, and nothing is said.
LEMMA InitEventInv == Init => EventInv
  <1> SUFFICES ASSUME Init PROVE EventInv
    OBVIOUS
  <1>1. ASSUME NEW w \in Wallet
        PROVE  LedgerTold(w)
    <2>1. Later(w) = <<>> /\ (Opening[w] > 0 => ledger[w] # <<>>)
      <3>1. CASE Opening[w] > 0
        <4>1. ledger[w] = <<LedgerEntry(OpeningTx, "CREDIT", Opening[w], 0)>>
          BY <3>1 DEF Init
        <4> QED
          BY <3>1, <4>1 DEF Later
      <3>2. CASE ~(Opening[w] > 0)
        BY <3>2 DEF Init, Later
      <3> QED
        BY <3>1, <3>2
    <2>2. outbox[w] = <<>> /\ wallets[w].version = 1
      BY DEF Init
    <2>3. <<>> \in Seq(EventType) /\ Silent(<<>>) /\ Len(<<>>) = 0
      BY DEF Silent
    <2>4. Announces(<<>>, <<>>, 1)
      BY <2>3, SilentAnnounces
    <2> QED
      BY <2>1, <2>2, <2>3, <2>4 DEF LedgerTold
  <1>2. ASSUME NEW p \in Process
        PROVE  Told(p)
    <2>1. uow[p] = EmptyUow /\ ~Holds(p)
      BY ConstantsAssumption DEF Init, Holds, Process
    <2> QED
      BY <2>1 DEF Told, EmptyUow, Silent
  <1> QED
    BY <1>1, <1>2 DEF EventInv

LEMMA NextEventInv ==
  TypeInv /\ TypeInv' /\ SubmitInv /\ LedgerInv /\ ReversalInv /\ EventInv /\ [Next]_vars
    => EventInv'
  <1> SUFFICES ASSUME TypeInv, TypeInv', SubmitInv, LedgerInv, ReversalInv, EventInv, [Next]_vars
               PROVE  EventInv'
    OBVIOUS
  <1>1. ASSUME NEW p \in Process, StepOf(p), Told(p)'
        PROVE  EventInv'
    <2>1. \A w \in Wallet : LedgerTold(w)'
      BY <1>1, TablesTold
    <2>2. \A q \in Process \ {p} : Told(q)'
      BY <1>1, OthersTold
    <2> QED
      BY <1>1, <2>1, <2>2 DEF EventInv
  <1>2. CASE Next
    BY <1>1, <1>2, NextStepOf, ExecuteStepTold, WorkerTold, RequestTold DEF Process
  <1>3. CASE UNCHANGED vars
    BY <1>3 DEF vars, EventInv, LedgerTold, Later, Told, Holds, WalletOf
  <1> QED
    BY <1>2, <1>3

LEMMA EventInvHolds == Spec => []EventInv
  BY TypeInvHolds, LedgerInvHolds, SubmitInvHolds, ReversalInvHolds, InitEventInv, NextEventInv,
     PTL DEF Spec

\* For every number of concurrent processes, the WalletBalanceChanged events of a wallet
\* carry the versions 2, 3, ... up to its committed one without gap or repetition, one for
\* each ledger entry after the opening one and in the order of the ledger.
THEOREM BalancesAreAnnounced == Spec => []BalanceEventsInOrder
  <1>1. EventInv => BalanceEventsInOrder
    BY DEF EventInv, LedgerTold, Later, BalanceEventsInOrder
  <1> QED
    BY <1>1, EventInvHolds, PTL

-----------------------------------------------------------------------------
(* Each outcome is told once, when no reversal names a transaction of another wallet.     *)
(* Without that, a row a worker has rejected in one wallet is overwritten by the request  *)
(* it waited for in another, which tells a second outcome: TerminalIsFinal fails in the   *)
(* run TerminalOverwritten.                                                               *)

NamesWithinWallet == \A i, j \in Inputs : i.ref = j.ext => i.wallet = j.wallet

\* The rows a process is about to write are open.
LEMMA StagedIsOpen ==
  ASSUME NamesWithinWallet, TypeInv, SubmitInv, ReversalInv,
         NEW p \in Process, pc[p] = "commit", NEW t \in Staged(p)
  PROVE  rows[t].status \notin Terminal
  <1>1. t \in Request
    BY DEF Staged
  <1>2. CASE t = p
    <2>1. t \notin Stored
      BY <1>2 DEF SubmitInv, RowsKnown
    <2> QED
      BY <1>1, <2>1 DEF Stored, Terminal
  <1>3. CASE t # p /\ p \in Request
    <2>1. /\ t \in Foreign(p) /\ t \in Stored
          /\ input[t].ref = input[p].ext
          /\ input[t].wallet = input[p].wallet => rows[t].status = "PENDING_REFERENCE"
      BY <1>3 DEF Foreign, ReversalInv, ProcessOK, RequestRows, SubmitInv, RowsKnown
    <2>2. input[t] \in Inputs /\ input[p] \in Inputs
      BY <1>3, <2>1, StoredKnown DEF Submitted, TypeInv, ControlOK
    <2> QED
      BY <2>1, <2>2 DEF NamesWithinWallet, Terminal
  <1>4. CASE p \in Worker
    BY <1>4 DEF ReversalInv, ProcessOK, WorkerRows, Terminal
  <1> QED
    BY <1>2, <1>3, <1>4 DEF Process

\* A committed PROCESSED or REJECTED row never changes again, if no reversal names a
\* transaction of another wallet.
THEOREM TerminalRowsAreFinal ==
  ASSUME NamesWithinWallet
  PROVE  Spec => TerminalIsFinal
  <1>1. ASSUME TypeInv, SubmitInv, ReversalInv, Next
        PROVE  \A t \in Request : rows[t].status \in Terminal => rows'[t] = rows[t]
    BY <1>1, NextStepOf, RowsChange, StagedIsOpen DEF Process
  <1>2. TypeInv /\ SubmitInv /\ ReversalInv /\ [Next]_vars
          => [\A t \in Request : rows[t].status \in Terminal => rows'[t] = rows[t]]_vars
    BY <1>1 DEF vars
  <1> QED
    BY <1>2, TypeInvHolds, SubmitInvHolds, ReversalInvHolds, PTL DEF Spec, TerminalIsFinal

\* The events that tell the outcome of t.
TellsOutcome(e, t) == e.tx = t /\ e.type \in {"Processed", "Rejected"}
Untold(es, t) == \A n \in DOMAIN es : ~TellsOutcome(es[n], t)
ToldOnce(es, t, type) ==
  \E n \in DOMAIN es : /\ es[n].tx = t /\ es[n].type = type
                       /\ \A m \in DOMAIN es : TellsOutcome(es[m], t) => m = n

\* What is told of t is what its row says.
TellsOf(es, t, row) ==
  /\ row.status \notin Terminal => Untold(es, t)
  /\ row.status = "PROCESSED" => ToldOnce(es, t, "Processed")
  /\ row.status = "REJECTED" => ToldOnce(es, t, "Rejected")

LEMMA UntoldConcat ==
  ASSUME NEW t, NEW s \in Seq(EventType), NEW new \in Seq(EventType), Untold(s, t), Untold(new, t)
  PROVE  Untold(s \o new, t)
  BY ConcatParts DEF Untold

LEMMA ToldThenSilence ==
  ASSUME NEW t, NEW s \in Seq(EventType), NEW new \in Seq(EventType), NEW type,
         ToldOnce(s, t, type), Untold(new, t)
  PROVE  ToldOnce(s \o new, t, type)
  <1> DEFINE c == s \o new
  <1>1. PICK n \in DOMAIN s : /\ s[n].tx = t /\ s[n].type = type
                              /\ \A m \in DOMAIN s : TellsOutcome(s[m], t) => m = n
    BY DEF ToldOnce
  <1>2. n \in DOMAIN c /\ c[n] = s[n]
    BY ConcatParts
  <1>3. ASSUME NEW m \in DOMAIN c, TellsOutcome(c[m], t)
        PROVE  m = n
    BY <1>1, <1>3, ConcatParts DEF Untold
  <1> HIDE DEF c
  <1>4. ToldOnce(c, t, type)
    BY <1>1, <1>2, <1>3 DEF ToldOnce
  <1> QED
    BY <1>4 DEF c

LEMMA SilenceThenTold ==
  ASSUME NEW t, NEW s \in Seq(EventType), NEW new \in Seq(EventType), NEW type,
         Untold(s, t), ToldOnce(new, t, type)
  PROVE  ToldOnce(s \o new, t, type)
  <1> DEFINE c == s \o new
  <1>1. PICK n \in DOMAIN new : /\ new[n].tx = t /\ new[n].type = type
                                /\ \A m \in DOMAIN new : TellsOutcome(new[m], t) => m = n
    BY DEF ToldOnce
  <1>2. /\ Len(s) + n \in DOMAIN c /\ c[Len(s) + n] = new[n]
        /\ \A m \in DOMAIN c : \/ m \in DOMAIN s /\ c[m] = s[m]
                               \/ m - Len(s) \in DOMAIN new /\ c[m] = new[m - Len(s)]
    BY ConcatParts
  <1>3. Len(s) \in Nat /\ DOMAIN c \subseteq Nat /\ DOMAIN new \subseteq Nat
    OBVIOUS
  <1> HIDE DEF c
  <1>4. ASSUME NEW m \in DOMAIN c, TellsOutcome(c[m], t)
        PROVE  m = Len(s) + n
    <2>1. m - Len(s) \in DOMAIN new /\ c[m] = new[m - Len(s)]
      BY <1>2, <1>4 DEF Untold
    <2>2. m - Len(s) = n
      BY <1>1, <1>4, <2>1
    <2> QED
      BY <1>3, <2>2
  <1>5. ToldOnce(c, t, type)
    BY <1>1, <1>2, <1>4 DEF ToldOnce
  <1> QED
    BY <1>5 DEF c

\* What is told of an open row, and then of what it is overwritten with.
LEMMA TellsConcat ==
  ASSUME NEW t, NEW s \in Seq(EventType), NEW new \in Seq(EventType), NEW old, NEW row,
         TellsOf(s, t, old), TellsOf(new, t, row), old.status \notin Terminal
  PROVE  TellsOf(s \o new, t, row)
  BY UntoldConcat, SilenceThenTold DEF TellsOf

\* Of a row that stays as it is nothing more is told.
LEMMA TellsStays ==
  ASSUME NEW t, NEW s \in Seq(EventType), NEW new \in Seq(EventType), NEW row,
         TellsOf(s, t, row), Untold(new, t)
  PROVE  TellsOf(s \o new, t, row)
  BY UntoldConcat, ToldThenSilence DEF TellsOf

\* What is told in the events of wallet w about t is told where t belongs.
Heard(es, row, t, w) ==
  /\ w = input[t].wallet => TellsOf(es, t, row)
  /\ w # input[t].wallet => Untold(es, t)

Spoken(p) ==
  \A t \in Request : \A w \in Wallet : Heard(uow[p].events[w], uow[p].writes[t], t, w)

OutcomeInv ==
  /\ \A t \in Request : \A w \in Wallet : Heard(outbox[w], rows[t], t, w)
  /\ \A p \in Process : Spoken(p)

\* Nothing is heard of an absent row, whatever its submission.
LEMMA NothingHeard ==
  ASSUME NEW es, NEW t, NEW w
  PROVE  /\ (Heard(es, NoRow, t, w)) <=> Untold(es, t)
         /\ (Heard(es, NoRow, t, w))' <=> (Untold(es, t))'
  <1>1. NoRow.status \notin Terminal /\ NoRow.status # "PROCESSED" /\ NoRow.status # "REJECTED"
    BY DEF NoRow, Terminal
  <1> QED
    BY <1>1 DEF Heard, TellsOf

\* A process that leaves its rows and events as they are says what it said.
LEMMA SameSpoken ==
  ASSUME TypeInv, SubmitInv, ReversalInv, OutcomeInv, NEW p \in Process, StepOf(p),
         NEW q \in Process, uow'[q].events = uow[q].events, uow'[q].writes = uow[q].writes
  PROVE  Spoken(q)'
  <1> SUFFICES ASSUME NEW t \in Request, NEW w \in Wallet
               PROVE  Heard(uow[q].events[w], uow[q].writes[t], t, w)'
    BY DEF Spoken
  <1>1. Heard(uow[q].events[w], uow[q].writes[t], t, w)
    BY DEF OutcomeInv, Spoken
  <1>2. CASE t \in Staged(q)
    <2>1. input'[t] = input[t]
      BY <1>2, StagedKnown DEF StepOf
    <2> QED
      BY <1>1, <2>1 DEF Heard
  <1>3. CASE t \notin Staged(q)
    <2>1. uow[q].writes[t] = NoRow
      BY <1>3 DEF Staged
    <2>2. Untold(uow[q].events[w], t)
      BY <1>1, <2>1, NothingHeard
    <2>3. NoRow.status \notin Terminal /\ NoRow.status # "PROCESSED" /\ NoRow.status # "REJECTED"
      BY DEF NoRow, Terminal
    <2> QED
      BY <2>1, <2>2, <2>3 DEF Heard, TellsOf
  <1> QED
    BY <1>2, <1>3

\* A process that has given everything back says nothing.
LEMMA EmptySpoken ==
  ASSUME NEW p \in Process, uow'[p] = EmptyUow
  PROVE  Spoken(p)'
  <1>1. \A t \in Request : EmptyUow.writes[t] = NoRow
    BY DEF EmptyUow
  <1>2. \A w \in Wallet : EmptyUow.events[w] = <<>>
    BY DEF EmptyUow
  <1>3. \A t : Untold(<<>>, t)
    BY DEF Untold
  <1>4. NoRow.status \notin Terminal /\ NoRow.status # "PROCESSED" /\ NoRow.status # "REJECTED"
    BY DEF NoRow, Terminal
  <1> QED
    BY <1>1, <1>2, <1>3, <1>4 DEF Spoken, Heard, TellsOf

\* The events with which a row is settled tell its outcome and that of no other.
LEMMA NewTells ==
  ASSUME NEW u \in UowType, NEW t \in Request, NEW v,
         SettlesQuietly(u, v, t) \/ SettlesLoudly(u, v, t)
  PROVE  \E new \in Seq(EventType) :
           /\ Adds(u, v, input[t].wallet, new)
           /\ TellsOf(new, t, v.writes[t])
           /\ \A s : s # t => Untold(new, s)
  <1> DEFINE row == v.writes[t]
             P(new) == /\ new \in Seq(EventType)
                       /\ TellsOf(new, t, row)
                       /\ \A s : s # t => Untold(new, s)
  <1>1. CASE SettlesQuietly(u, v, t)
    <2>1. PICK type \in {"Processed", "Rejected", "PendingReference"} :
                 Tells(type, row) /\ Adds(u, v, input[t].wallet, <<Event(type, t, 0)>>)
      BY <1>1 DEF SettlesQuietly
    <2> DEFINE e == Event(type, t, 0)
               new == <<e>>
    <2>2. e \in EventType /\ e.tx = t /\ e.type = type
      BY DEF Event, EventType
    <2> HIDE DEF e
    <2>3. new \in Seq(EventType) /\ DOMAIN new = {1} /\ new[1] = e
      BY <2>2
    <2> HIDE DEF new, row
    <2>4. \A s : s # t => Untold(new, s)
      BY <2>2, <2>3 DEF Untold, TellsOutcome
    <2>5. TellsOf(new, t, row)
      BY <2>1, <2>2, <2>3 DEF TellsOf, Tells, Terminal, ToldOnce, Untold, TellsOutcome
    <2> QED
      BY <2>1, <2>3, <2>4, <2>5 DEF new, row, e
  <1>2. CASE SettlesLoudly(u, v, t)
    <2> DEFINE e == Event("Processed", t, 0)
               f == Event("BalanceChanged", t, u.wallet.version + 1)
               new == <<e, f>>
    <2>1. Tells("Processed", row) /\ Adds(u, v, input[t].wallet, new)
      BY <1>2 DEF SettlesLoudly
    <2>2. /\ e \in EventType /\ e.tx = t /\ e.type = "Processed"
          /\ f \in EventType /\ f.tx = t /\ f.type = "BalanceChanged"
      BY DEF Event, EventType, UowType, WalletType
    <2> HIDE DEF e, f
    <2>3. new \in Seq(EventType) /\ DOMAIN new = {1, 2} /\ new[1] = e /\ new[2] = f
      BY <2>2
    <2> HIDE DEF new, row
    <2>4. \A s : s # t => Untold(new, s)
      BY <2>2, <2>3 DEF Untold, TellsOutcome
    <2>5. TellsOf(new, t, row)
      BY <2>1, <2>2, <2>3 DEF TellsOf, Tells, Terminal, ToldOnce, TellsOutcome
    <2> QED
      BY <2>1, <2>3, <2>4, <2>5 DEF row
  <1> QED
    BY <1>1, <1>2

\* A process that settles a row it had not settled tells its outcome.
LEMMA SettleSpoken ==
  ASSUME TypeInv, OutcomeInv, NEW p \in Process, NEW t \in Request, t \notin Staged(p), NEW v,
         SettlesQuietly(uow[p], v, t) \/ SettlesLoudly(uow[p], v, t), Settles(uow[p], v, t),
         uow'[p].events = v.events, uow'[p].writes = v.writes, input' = input
  PROVE  Spoken(p)'
  <1> DEFINE u == uow[p]
             x == input[t].wallet
  <1>1. u \in UowType /\ u.writes[t] = NoRow
    BY DEF TypeInv, UowOK, Staged
  <1>2. PICK new \in Seq(EventType) : /\ Adds(u, v, x, new)
                                      /\ TellsOf(new, t, v.writes[t])
                                      /\ \A s : s # t => Untold(new, s)
    BY <1>1, NewTells
  <1>3. \A s \in Request \ {t} : v.writes[s] = u.writes[s]
    BY DEF Settles
  <1>4. NoRow.status \notin Terminal
    BY DEF NoRow, Terminal
  <1>5. \A s \in Request : \A w \in Wallet : Heard(u.events[w], u.writes[s], s, w)
    BY DEF OutcomeInv, Spoken
  <1> HIDE DEF u, x
  <1>6. ASSUME NEW s \in Request, NEW w \in Wallet
        PROVE  Heard(v.events[w], v.writes[s], s, w)
    <2>1. u.events[w] \in Seq(EventType) /\ Heard(u.events[w], u.writes[s], s, w)
      BY <1>1, <1>5 DEF UowType
    <2>2. CASE s = t
      <3>1. Untold(u.events[w], t)
        BY <1>1, <2>1, <2>2, NothingHeard
      <3>2. CASE w = x
        <4>1. v.events[w] = u.events[w] \o new
          BY <1>2, <3>2 DEF Adds
        <4>2. TellsOf(u.events[w], t, NoRow)
          BY <1>1, <2>1, <2>2, <3>2 DEF Heard, x
        <4> QED
          BY <1>2, <1>4, <2>1, <2>2, <3>2, <4>1, <4>2, TellsConcat DEF Heard, x
      <3>3. CASE w # x
        <4>1. v.events[w] = u.events[w]
          BY <1>2, <3>3 DEF Adds
        <4> QED
          BY <2>2, <3>1, <3>3, <4>1 DEF Heard, x
      <3> QED
        BY <3>2, <3>3
    <2>3. CASE s # t
      <3>1. v.writes[s] = u.writes[s]
        BY <1>3, <2>3
      <3>2. v.events[w] = u.events[w] \o new \/ v.events[w] = u.events[w]
        BY <1>2 DEF Adds
      <3>3. Untold(new, s)
        BY <1>2, <2>3
      <3> QED
        BY <2>1, <3>1, <3>2, <3>3, TellsStays, UntoldConcat DEF Heard
    <2> QED
      BY <2>2, <2>3
  <1> QED
    BY <1>6 DEF Spoken, Heard

\* The tables say of every row what they said, and of a row that is committed its outcome.
LEMMA TablesHeard ==
  ASSUME NamesWithinWallet, TypeInv, SubmitInv, ReversalInv, OutcomeInv,
         NEW p \in Process, StepOf(p), NEW t \in Request, NEW w \in Wallet
  PROVE  Heard(outbox[w], rows[t], t, w)'
  <1>a. NoRow.status \notin Terminal /\ NoRow.status # "PROCESSED" /\ NoRow.status # "REJECTED"
    BY DEF NoRow, Terminal
  <1>b. Heard(outbox[w], rows[t], t, w)
    BY DEF OutcomeInv
  <1>c. rows[t] # NoRow => input'[t] = input[t]
    BY StoredHaveRows, StepKeeps
  <1>1. CASE UNCHANGED Database
    <2>1. CASE rows[t] = NoRow
      <3>1. Untold(outbox[w], t)
        BY <1>b, <2>1, NothingHeard
      <3> QED
        BY <1>1, <1>a, <2>1, <3>1 DEF Database, Heard, TellsOf
    <2>2. CASE rows[t] # NoRow
      BY <1>1, <1>b, <1>c, <2>2 DEF Database, Heard
    <2> QED
      BY <2>1, <2>2
  <1>2. CASE pc[p] = "commit" /\ Apply(p)
    <2> DEFINE new == uow[p].events[w]
               row == uow[p].writes[t]
    <2>1. /\ outbox[w] \in Seq(EventType) /\ new \in Seq(EventType)
          /\ outbox'[w] = outbox[w] \o new
          /\ row # NoRow => rows'[t] = row
          /\ row = NoRow => rows'[t] = rows[t]
      BY <1>2 DEF Apply, TypeInv, DatabaseOK, UowOK, UowType
    <2>2. Heard(new, row, t, w)
      BY DEF OutcomeInv, Spoken
    <2>3. CASE t \in Staged(p)
      <3>1. rows[t].status \notin Terminal
        BY <1>2, <2>3, StagedIsOpen
      <3>2. input'[t] = input[t] /\ row # NoRow
        BY <2>3, StagedKnown DEF StepOf, Staged
      <3> HIDE DEF new, row
      <3>3. CASE w = input[t].wallet
        <4>1. TellsOf(outbox[w], t, rows[t]) /\ TellsOf(new, t, row)
          BY <1>b, <2>2, <3>3 DEF Heard
        <4>2. TellsOf(outbox[w] \o new, t, row)
          BY <2>1, <3>1, <4>1, TellsConcat
        <4> QED
          BY <2>1, <3>2, <3>3, <4>2 DEF Heard
      <3>4. CASE w # input[t].wallet
        <4>1. Untold(outbox[w], t) /\ Untold(new, t)
          BY <1>b, <2>2, <3>4 DEF Heard
        <4>2. Untold(outbox[w] \o new, t)
          BY <2>1, <4>1, UntoldConcat
        <4> QED
          BY <2>1, <3>2, <3>4, <4>2 DEF Heard
      <3> QED
        BY <3>3, <3>4
    <2>4. CASE t \notin Staged(p)
      <3>1. row = NoRow
        BY <2>4 DEF Staged
      <3>2. Untold(new, t)
        BY <2>2, <3>1, NothingHeard
      <3> HIDE DEF new, row
      <3>3. CASE rows[t] = NoRow
        <4>1. Untold(outbox[w], t)
          BY <1>b, <3>3, NothingHeard
        <4>2. Untold(outbox[w] \o new, t)
          BY <2>1, <3>2, <4>1, UntoldConcat
        <4> QED
          BY <1>a, <2>1, <3>1, <3>3, <4>2 DEF Heard, TellsOf
      <3>4. CASE rows[t] # NoRow
        <4>1. /\ w = input[t].wallet => TellsOf(outbox[w] \o new, t, rows[t])
              /\ w # input[t].wallet => Untold(outbox[w] \o new, t)
          BY <1>b, <2>1, <3>2, TellsStays, UntoldConcat DEF Heard
        <4> QED
          BY <1>c, <2>1, <3>1, <3>4, <4>1 DEF Heard
      <3> QED
        BY <3>3, <3>4
    <2> QED
      BY <2>3, <2>4
  <1> QED
    BY <1>1, <1>2 DEF StepOf

LEMMA ExecuteStepSpoken ==
  ASSUME TypeInv, SubmitInv, LedgerInv, ReversalInv, OutcomeInv,
         NEW p \in Request, StepOf(p), ExecuteStep(p)
  PROVE  Spoken(p)'
  <1>a. p \in Process /\ uow \in [Process -> UowType]
    BY DEF Process, TypeInv, UowOK
  <1>b. ASSUME uow' = uow
        PROVE  Spoken(p)'
    BY <1>a, <1>b, SameSpoken
  <1>c. ASSUME Release(p)
        PROVE  Spoken(p)'
    BY <1>a, <1>c, ReleaseFrame, EmptySpoken
  <1>1. CASE RejectKind(p)
    <2> DEFINE v == Rejected(uow[p], p, "INVALID_KIND")
    <2>1. uow'[p] = v /\ input' = input /\ p \notin Staged(p)
      BY <1>a, <1>1, StagedAsFar DEF RejectKind, Stage, Staging
    <2>2. SettlesQuietly(uow[p], v, p) /\ Settles(uow[p], v, p)
      BY <1>a, RejectedTells, RejectedSettles DEF FailureCode
    <2> HIDE DEF v
    <2> QED
      BY <1>a, <2>1, <2>2, SettleSpoken
  <1>2. CASE CheckKey(p) \/ CheckExt(p) \/ WalletNotFound(p) \/ LostRace(p)
    BY <1>2, <1>b DEF CheckKey, CheckExt, WalletNotFound, LostRace
  <1>3. CASE LockSubmittedWallet(p)
    <2>1. uow'[p] = [uow[p] EXCEPT !.wallet = wallets[input[p].wallet]]
      BY <1>a, <1>3, LockFrame DEF LockSubmittedWallet
    <2>2. uow'[p].events = uow[p].events /\ uow'[p].writes = uow[p].writes
      BY <1>a, <2>1 DEF UowType
    <2> QED
      BY <1>a, <2>2, SameSpoken
  <1>4. CASE Decide(p)
    <2>1. PICK v : /\ Stage(p, v)
                   /\ SettlesQuietly(uow[p], v, p) \/ SettlesLoudly(uow[p], v, p)
      BY <1>4, DecideTells
    <2>2. uow'[p] = v /\ input' = input /\ p \notin Staged(p)
      BY <1>a, <1>4, <2>1, StagedAsFar DEF Decide, Stage, Staging
    <2>3. Settles(uow[p], v, p)
      BY <1>a, <1>4, <2>2, DecideSettles DEF Stage
    <2> QED
      BY <1>a, <2>1, <2>2, <2>3, SettleSpoken
  <1>5. CASE Insert(p)
    BY <1>5, <1>b, <1>c DEF Insert, Rollback
  <1>6. CASE CheckForeignKey(p)
    BY <1>6, <1>b, <1>c DEF CheckForeignKey, Rollback
  <1>7. CASE FindPending(p)
    <2> DEFINE v == [uow[p] EXCEPT !.todo = PendingFor(input[p].ext),
                                   !.reversed = AlreadyReversed(input[p].ext)]
    <2>1. uow'[p] = v
      BY <1>a, <1>7 DEF FindPending
    <2>2. v.events = uow[p].events /\ v.writes = uow[p].writes
      BY <1>a DEF UowType
    <2> HIDE DEF v
    <2> QED
      BY <1>a, <2>1, <2>2, SameSpoken
  <1>8. CASE \E t \in Request : ResolvePending(p, t)
    <2> PICK t \in Request : ResolvePending(p, t)
      BY <1>8
    <2> DEFINE u == Reverse(uow[p], t, p, input[p].wallet, uow[p].reversed)
               v == [u EXCEPT !.todo = uow[p].todo \ {t},
                              !.reversed = @ \/ u.writes[t].status = "PROCESSED"]
    <2>1. /\ t \in uow[p].todo /\ rowLock[t] = None
          /\ uow'[p] = v /\ input' = input
      BY <1>a DEF ResolvePending, Stage
    <2>2. Submitted(t) /\ Submitted(p) /\ input[p].ext = input[t].ref
      BY <1>a, <2>1
         DEF ReversalInv, ProcessOK, RequestRows, TypeInv, UowOK, ControlOK, Known, ResolvePending
    <2>3. t \notin Staged(p)
      <3>1. t # p
        BY <1>a, <2>1 DEF SubmitInv, RowsKnown, StepOf
      <3>2. t \notin Foreign(p)
        BY <1>a, <2>1, ConstantsAssumption DEF ReversalInv, ProcessOK, Guarded, Process
      <3> QED
        BY <3>1, <3>2 DEF Foreign
    <2>4. Settles(uow[p], u, t)
      BY <1>a, <2>2, ReverseSettles
    <2>5. SettlesQuietly(uow[p], u, t) \/ SettlesLoudly(uow[p], u, t)
      BY <1>a, <2>2, ReverseTells
    <2>6. v.events = u.events /\ v.writes = u.writes
      BY <2>4 DEF Settles, UowType
    <2> HIDE DEF u, v
    <2> QED
      BY <1>a, <2>1, <2>3, <2>4, <2>5, <2>6, SettleSpoken
  <1>9. CASE Commit(p)
    BY <1>9, <1>c DEF Commit
  <1> QED
    BY <1>1, <1>2, <1>3, <1>4, <1>5, <1>6, <1>7, <1>8, <1>9 DEF ExecuteStep

LEMMA WorkerSpoken ==
  ASSUME TypeInv, SubmitInv, LedgerInv, ReversalInv, OutcomeInv,
         NEW k \in Worker, StepOf(k), Pick(k) \/ RetryStep(k) \/ AbortWorker(k)
  PROVE  Spoken(k)'
  <1>a. k \in Process /\ uow \in [Process -> UowType]
    BY DEF Process, TypeInv, UowOK
  <1>b. ASSUME uow' = uow
        PROVE  Spoken(k)'
    BY <1>a, <1>b, SameSpoken
  <1>c. ASSUME Release(k)
        PROVE  Spoken(k)'
    BY <1>a, <1>c, ReleaseFrame, EmptySpoken
  <1>1. CASE Pick(k)
    BY <1>1, <1>b DEF Pick
  <1>2. CASE AbortWorker(k) \/ PutOff(k) \/ WorkerCommit(k)
    BY <1>2, <1>c DEF AbortWorker, PutOff, Rollback, WorkerCommit
  <1>3. CASE WorkerLockWallet(k)
    <2>1. uow'[k] = [uow[k] EXCEPT !.wallet = wallets[WalletOf(k)]]
      BY <1>a, <1>3, LockFrame DEF WorkerLockWallet, WalletOf, TypeInv, ControlOK, Known
    <2>2. uow'[k].events = uow[k].events /\ uow'[k].writes = uow[k].writes
      BY <1>a, <2>1 DEF UowType
    <2> QED
      BY <1>a, <2>2, SameSpoken
  <1>4. CASE WorkerLockRow(k)
    BY <1>4, <1>b, <1>c DEF WorkerLockRow
  <1>5. CASE Retry(k)
    <2>1. PICK v : /\ Stage(k, v)
                   /\ SettlesQuietly(uow[k], v, target[k]) \/ SettlesLoudly(uow[k], v, target[k])
      BY <1>5, RetryTells
    <2>2. uow'[k] = v /\ input' = input /\ target[k] \notin Staged(k) /\ target[k] \in Request
      BY <1>a, <1>5, <2>1
         DEF Retry, Stage, ReversalInv, ProcessOK, WorkerRows, TypeInv, ControlOK
    <2>3. Settles(uow[k], v, target[k])
      BY <1>a, <1>5, <2>2, RetrySettles DEF Stage
    <2> QED
      BY <1>a, <2>1, <2>2, <2>3, SettleSpoken
  <1> QED
    BY <1>1, <1>2, <1>3, <1>4, <1>5 DEF RetryStep

LEMMA RequestSpoken ==
  ASSUME TypeInv, SubmitInv, ReversalInv, OutcomeInv,
         NEW p \in Request, StepOf(p), Arrive(p) \/ AbortRequest(p)
  PROVE  Spoken(p)'
  <1>a. p \in Process
    BY DEF Process
  <1>1. CASE Arrive(p)
    BY <1>a, <1>1, SameSpoken DEF Arrive
  <1>2. CASE AbortRequest(p)
    BY <1>a, <1>2, ReleaseFrame, EmptySpoken DEF AbortRequest, Rollback
  <1> QED
    BY <1>1, <1>2

LEMMA InitOutcomeInv == Init => OutcomeInv
  <1> SUFFICES ASSUME Init PROVE OutcomeInv
    OBVIOUS
  <1>1. NoRow.status \notin Terminal /\ NoRow.status # "PROCESSED" /\ NoRow.status # "REJECTED"
    BY DEF NoRow, Terminal
  <1>2. \A t : Untold(<<>>, t)
    BY DEF Untold
  <1>3. \A w \in Wallet : \A t \in Request : outbox[w] = <<>> /\ rows[t] = NoRow
    BY DEF Init
  <1>4. ASSUME NEW p \in Process, NEW w \in Wallet, NEW t \in Request
        PROVE  uow[p].events[w] = <<>> /\ uow[p].writes[t] = NoRow
    BY DEF Init, EmptyUow
  <1> QED
    BY <1>1, <1>2, <1>3, <1>4 DEF OutcomeInv, Spoken, Heard, TellsOf

LEMMA NextOutcomeInv ==
  ASSUME NamesWithinWallet, TypeInv, SubmitInv, LedgerInv, ReversalInv, OutcomeInv, [Next]_vars
  PROVE  OutcomeInv'
  <1>1. ASSUME NEW p \in Process, StepOf(p), Spoken(p)'
        PROVE  OutcomeInv'
    <2>1. \A t \in Request : \A w \in Wallet : (Heard(outbox[w], rows[t], t, w))'
      BY <1>1, TablesHeard
    <2>2. \A q \in Process \ {p} : Spoken(q)'
      BY <1>1, SameSpoken DEF StepOf
    <2> QED
      BY <1>1, <2>1, <2>2 DEF OutcomeInv
  <1>2. CASE Next
    BY <1>1, <1>2, NextStepOf, ExecuteStepSpoken, WorkerSpoken, RequestSpoken DEF Process
  <1>3. CASE UNCHANGED vars
    BY <1>3 DEF vars, OutcomeInv, Spoken, Heard
  <1> QED
    BY <1>2, <1>3

\* The positions of the events that tell the outcome of t.
LEMMA OutcomesCounted ==
  ASSUME TypeInv, OutcomeInv, NEW t \in Request,
         NEW outcomes,
         outcomes = UNION {{<<w, n>> : n \in {m \in DOMAIN outbox[w] :
                              outbox[w][m].tx = t /\ outbox[w][m].type \in {"Processed", "Rejected"}}}
                           : w \in Wallet}
  PROVE  /\ rows[t].status \notin Terminal => outcomes = {}
         /\ rows[t].status \in Terminal =>
              \E o : /\ outcomes = {o}
                     /\ rows[t].status = "PROCESSED" => outbox[o[1]][o[2]].type = "Processed"
                     /\ rows[t].status = "REJECTED" => outbox[o[1]][o[2]].type = "Rejected"
  <1>1. \A o : o \in outcomes <=> \E w \in Wallet : \E n \in DOMAIN outbox[w] :
                                    o = <<w, n>> /\ TellsOutcome(outbox[w][n], t)
    BY DEF TellsOutcome
  <1>2. \A w \in Wallet : Heard(outbox[w], rows[t], t, w)
    BY DEF OutcomeInv
  <1>3. ASSUME rows[t].status \notin Terminal
        PROVE  outcomes = {}
    <2>1. \A w \in Wallet : Untold(outbox[w], t)
      BY <1>2, <1>3 DEF Heard, TellsOf
    <2> QED
      BY <1>1, <2>1 DEF Untold
  <1>4. ASSUME rows[t].status \in Terminal
        PROVE  \E o : /\ outcomes = {o}
                      /\ rows[t].status = "PROCESSED" => outbox[o[1]][o[2]].type = "Processed"
                      /\ rows[t].status = "REJECTED" => outbox[o[1]][o[2]].type = "Rejected"
    <2> DEFINE w == input[t].wallet
    <2>1. w \in Wallet
      BY <1>4 DEF TypeInv, DatabaseOK, Known, NoRow, Terminal
    <2>2. /\ TellsOf(outbox[w], t, rows[t])
          /\ \A v \in Wallet : v # w => Untold(outbox[v], t)
      BY <1>2, <2>1 DEF Heard
    <2> HIDE DEF w
    <2>3. PICK type \in {"Processed", "Rejected"} :
                 /\ ToldOnce(outbox[w], t, type)
                 /\ rows[t].status = "PROCESSED" => type = "Processed"
                 /\ rows[t].status = "REJECTED" => type = "Rejected"
      BY <1>4, <2>2 DEF TellsOf, Terminal
    <2>4. PICK n \in DOMAIN outbox[w] :
                 /\ outbox[w][n].tx = t /\ outbox[w][n].type = type
                 /\ \A m \in DOMAIN outbox[w] : TellsOutcome(outbox[w][m], t) => m = n
      BY <2>3 DEF ToldOnce
    <2> DEFINE o == <<w, n>>
    <2>5. o[1] = w /\ o[2] = n
      OBVIOUS
    <2>6. o \in outcomes
      BY <1>1, <2>1, <2>3, <2>4 DEF TellsOutcome
    <2>7. ASSUME NEW x \in outcomes
          PROVE  x = o
      <3>1. PICK v \in Wallet : \E m \in DOMAIN outbox[v] :
                                  x = <<v, m>> /\ TellsOutcome(outbox[v][m], t)
        BY <1>1, <2>7
      <3>2. PICK m \in DOMAIN outbox[v] : x = <<v, m>> /\ TellsOutcome(outbox[v][m], t)
        BY <3>1
      <3>3. v = w
        BY <2>2, <3>1, <3>2 DEF Untold
      <3> QED
        BY <2>4, <3>2, <3>3
    <2> HIDE DEF o
    <2>8. outcomes = {o}
      BY <2>6, <2>7
    <2> QED
      BY <2>3, <2>4, <2>5, <2>8
  <1> QED
    BY <1>3, <1>4

\* Each transaction tells its outcome once: one Processed event when it is PROCESSED, one
\* Rejected event when it is REJECTED, none before; if no reversal names a transaction of
\* another wallet.
THEOREM OutcomesAreToldOnce ==
  ASSUME NamesWithinWallet
  PROVE  Spec => []OneOutcome
  <1>1. ASSUME TypeInv, OutcomeInv
        PROVE  OneOutcome
    <2> SUFFICES ASSUME NEW t \in Request, NEW outcomes,
                        outcomes = UNION {{<<w, n>> : n \in {m \in DOMAIN outbox[w] :
                                      outbox[w][m].tx = t
                                      /\ outbox[w][m].type \in {"Processed", "Rejected"}}}
                                   : w \in Wallet}
                 PROVE  /\ Cardinality(outcomes) = IF rows[t].status \in Terminal THEN 1 ELSE 0
                        /\ \A o \in outcomes :
                             outbox[o[1]][o[2]].type =
                               IF rows[t].status = "PROCESSED" THEN "Processed" ELSE "Rejected"
      BY DEF OneOutcome
    <2>1. /\ rows[t].status \notin Terminal => outcomes = {}
          /\ rows[t].status \in Terminal =>
               \E o : /\ outcomes = {o}
                      /\ rows[t].status = "PROCESSED" => outbox[o[1]][o[2]].type = "Processed"
                      /\ rows[t].status = "REJECTED" => outbox[o[1]][o[2]].type = "Rejected"
      BY <1>1, OutcomesCounted
    <2>2. CASE rows[t].status \notin Terminal
      BY <2>1, <2>2, FS_EmptySet
    <2>3. CASE rows[t].status \in Terminal
      <3>1. PICK o : /\ outcomes = {o}
                     /\ rows[t].status = "PROCESSED" => outbox[o[1]][o[2]].type = "Processed"
                     /\ rows[t].status = "REJECTED" => outbox[o[1]][o[2]].type = "Rejected"
        BY <2>1, <2>3
      <3>2. Cardinality(outcomes) = 1
        BY <3>1, FS_Singleton
      <3> QED
        BY <2>3, <3>1, <3>2 DEF Terminal
    <2> QED
      BY <2>2, <2>3
  <1>2. TypeInv /\ SubmitInv /\ LedgerInv /\ ReversalInv /\ OutcomeInv /\ [Next]_vars
          => OutcomeInv'
    BY NextOutcomeInv
  <1>3. TypeInv /\ OutcomeInv => OneOutcome
    BY <1>1
  <1> QED
    BY <1>2, <1>3, TypeInvHolds, SubmitInvHolds, LedgerInvHolds, ReversalInvHolds,
       InitOutcomeInv, PTL DEF Spec
=============================================================================
