---------------------------- MODULE ProcessWager ----------------------------
(***************************************************************************)
(* ProcessWagerUseCase, the single entry point through which a wager       *)
(* command moves money, run concurrently by requests (execute) and by      *)
(* pending-reference workers (retryPendingReference) on one PostgreSQL     *)
(* database at READ COMMITTED.                                             *)
(*                                                                         *)
(* Every process runs one database transaction.  What it writes stays in   *)
(* its unit of work uow[p] until Commit publishes it at once; Abort drops  *)
(* it.  The transaction identifier a request mints is the request itself,  *)
(* so rows[p] is the wager_transactions row that request p inserted.       *)
(*                                                                         *)
(* Time is not modelled here: a worker may find a row due or not, and its  *)
(* retries exhausted or not, whenever it looks.  The CHECK on the balance  *)
(* and the partial unique index on processed reversals are left out on     *)
(* purpose, so that what is checked is the code's own locking.             *)
(***************************************************************************)
EXTENDS WagerRules, Sequences, FiniteSetsExt

CONSTANTS
  Request,         \* calls of execute
  Worker,          \* pending-reference workers, one per application instance
  Wallet,          \* the wallets that exist
  WalletPlayer,    \* the owner of each wallet
  WalletCurrency,  \* the currency of each wallet
  Opening,         \* the balance each wallet was opened with
  Inputs           \* the submissions a request may carry

OpeningTx == "opening"   \* the OPENING transaction of a wallet, in its ledger

ASSUME ConstantsAssumption ==
  /\ Request \cap Worker = {} /\ OpeningTx \notin Request
  /\ None \notin Request \cup Worker \cup Inputs
  /\ Opening \in [Wallet -> Nat]
  /\ \A i \in Inputs : /\ DOMAIN i = Fields
                       /\ i.kind \in WagerKind /\ i.amount \in Nat /\ i.ext # None

VARIABLES
  input,       \* the submission each request carries
  target,      \* the row each worker is retrying
  pc,          \* where each process is
  uow,         \* its uncommitted unit of work
  wallets,     \* committed: table wallets
  ledger,      \* committed: table wallet_ledger_entries, per wallet, in order
  rows,        \* committed: table wager_transactions
  outbox,      \* committed: table outbox_events, per aggregate, in order
  walletLock,  \* the holder of each wallet row's FOR UPDATE lock
  rowLock,     \* the holder of each wager_transactions row's lock
  answer       \* what execute returned to each request, or threw

vars == <<input, target, pc, uow, wallets, ledger, rows, outbox, walletLock, rowLock, answer>>

Process == Request \cup Worker
Database == <<wallets, ledger, rows, outbox>>
Locks == <<walletLock, rowLock>>

Terminal == {"PROCESSED", "REJECTED"}
NoRow == [status |-> "NONE", failure |-> None, balance |-> None, refTx |-> None]

Failed(status) ==
  [status |-> status, tx |-> None, balance |-> None, failure |-> None, replay |-> FALSE]

EmptyUow ==
  [wallet   |-> [balance |-> 0, version |-> 0],   \* the locked wallet as this process sees it
   entries  |-> <<>>,                             \* ledger entries to append to it
   writes   |-> [t \in Request |-> NoRow],        \* rows to insert or update
   events   |-> [w \in Wallet |-> <<>>],          \* outbox events to append
   todo     |-> {},                               \* pending rows still to resolve
   reversed |-> FALSE]                            \* the alreadyReversed flag of the loop

Init ==
  /\ input = [p \in Request |-> None]
  /\ target = [k \in Worker |-> None]
  /\ pc = [p \in Process |-> "idle"]
  /\ uow = [p \in Process |-> EmptyUow]
  /\ wallets = [w \in Wallet |-> [balance |-> Opening[w], version |-> 1]]
  /\ ledger = [w \in Wallet |->
                 IF Opening[w] > 0 THEN <<LedgerEntry(OpeningTx, "CREDIT", Opening[w], 0)>>
                                   ELSE <<>>]
  /\ rows = [t \in Request |-> NoRow]
  /\ outbox = [w \in Wallet |-> <<>>]
  /\ walletLock = [w \in Wallet |-> None]
  /\ rowLock = [t \in Request |-> None]
  /\ answer = [p \in Request |-> Failed("NONE")]

-----------------------------------------------------------------------------
(* Reads of committed rows *)

Stored == {t \in Request : rows[t].status # "NONE"}
FindByKey(key) == {t \in Stored : input[t].key = key}
FindByExt(ext) == {t \in Stored : input[t].ext = ext}
ProcessedReference(ext) == {t \in FindByExt(ext) : rows[t].status = "PROCESSED"}
\* Fault: nobody asks whether the reference was reversed before.
AlreadyReversed_NotAsked(ext) == FALSE

AlreadyReversed(ext) ==
  \E t \in Stored : /\ rows[t].status = "PROCESSED"
                    /\ input[t].kind \in Reversal
                    /\ input[t].ref = ext
PendingFor(ext) ==
  {t \in Stored : rows[t].status = "PENDING_REFERENCE" /\ input[t].ref = ext}

-----------------------------------------------------------------------------
(* What a process adds to its unit of work *)

Event(type, t, version) == [type |-> type, tx |-> t, version |-> version]

Rejected(u, t, code) ==
  [u EXCEPT !.writes[t] = [NoRow EXCEPT !.status = "REJECTED", !.failure = code],
            !.events[input[t].wallet] = Append(@, Event("Rejected", t, 0))]

PendingReference(u, t) ==
  [u EXCEPT !.writes[t] = [NoRow EXCEPT !.status = "PENDING_REFERENCE"],
            !.events[input[t].wallet] = Append(@, Event("PendingReference", t, 0))]

\* Fault: a LOSS settled without a result balance.
Settled_NoBalance(u, t, w) ==
  [u EXCEPT !.writes[t] = [NoRow EXCEPT !.status = "PROCESSED"],
            !.events[w] = Append(@, Event("Processed", t, 0))]

\* PROCESSED without moving money: a LOSS.
Settled(u, t, w) ==
  [u EXCEPT !.writes[t] = [NoRow EXCEPT !.status = "PROCESSED", !.balance = u.wallet.balance],
            !.events[w] = Append(@, Event("Processed", t, 0))]

\* Fault: the event carries the version the wallet had before the move.
Moved_OldVersion(u, t, r, w, e) ==
  [u EXCEPT !.wallet = [balance |-> e.after, version |-> @.version + 1],
            !.entries = Append(@, e),
            !.writes[t] = [status |-> "PROCESSED", failure |-> None,
                           balance |-> e.after, refTx |-> r],
            !.events[w] = @ \o <<Event("Processed", t, 0),
                                 Event("BalanceChanged", t, u.wallet.version)>>]

\* PROCESSED with entry e on wallet w; r is the transaction t reverses, or None.
Moved(u, t, r, w, e) ==
  [u EXCEPT !.wallet = [balance |-> e.after, version |-> @.version + 1],
            !.entries = Append(@, e),
            !.writes[t] = [status |-> "PROCESSED", failure |-> None,
                           balance |-> e.after, refTx |-> r],
            !.events[w] = @ \o <<Event("Processed", t, 0),
                                 Event("BalanceChanged", t, u.wallet.version + 1)>>]

ApplyToWallet(u, t, r, w) ==
  LET money     == IF r = None THEN input[t] ELSE input[r]
      direction == DirectionOf(input[t].kind, IF r = None THEN None ELSE input[r].kind)
      why == ApplyRejection(u.wallet.balance, WalletCurrency[w],
                            direction, money.amount, money.currency)
  IN IF why = None
     THEN Moved(u, t, r, w, LedgerEntry(t, direction, money.amount, u.wallet.balance))
     ELSE Rejected(u, t, IF r # None /\ why = "INSUFFICIENT_FUNDS"
                         THEN "REVERSAL_WOULD_MAKE_BALANCE_NEGATIVE" ELSE why)

\* Fault: the wallet as committed, not as this unit of work has left it.
Reverse_StaleWallet(u, t, r, w, reversed) ==
  LET why == ReversalRejection(input[t], input[r], input[r].wallet, reversed)
  IN IF why = None THEN ApplyToWallet([u EXCEPT !.wallet = wallets[w]], t, r, w)
     ELSE Rejected(u, t, why)

\* Reversal t of r, checked and applied: the same rules on all three paths.
Reverse(u, t, r, w, reversed) ==
  LET why == ReversalRejection(input[t], input[r], input[r].wallet, reversed)
  IN IF why = None THEN ApplyToWallet(u, t, r, w) ELSE Rejected(u, t, why)

-----------------------------------------------------------------------------
(* Locks *)

\* A request that inserts without holding the wallet's lock (INVALID_KIND) holds
\* the KEY SHARE lock of its foreign key until it commits.
KeyShareHolders(w) ==
  {p \in Request : pc[p] = "commit" /\ input[p].wallet = w /\ walletLock[w] # p}

\* Fault: the wallet is read without FOR UPDATE.
WalletFree_Unlocked(w) == TRUE

WalletFree(w) == walletLock[w] = None /\ KeyShareHolders(w) = {}

\* Inserted rows that have not committed yet.
Inserting == {p \in Request : pc[p] \in {"fk", "find", "resolve", "commit"}}

\* Fault: no unique constraint on the external identifier.
Collide_KeyOnly(i, j) == i.key = j.key

\* Both unique constraints of wager_transactions.
Collide(i, j) == i.key = j.key \/ i.ext = j.ext

\* The in-flight inserts that the insert of p has to wait for.
InsertBlockers(p) == {q \in Inserting \ {p} : Collide(input[p], input[q])}

Holding(p) == {w \in Wallet : walletLock[w] = p}

\* The wallet whose money process p moves.
WalletOf(p) == input[IF p \in Worker THEN target[p] ELSE p].wallet

Release(p) ==
  /\ walletLock' = [w \in Wallet |-> IF walletLock[w] = p THEN None ELSE walletLock[w]]
  /\ rowLock' = [t \in Request |-> IF rowLock[t] = p THEN None ELSE rowLock[t]]
  /\ uow' = [uow EXCEPT ![p] = EmptyUow]

Rollback(p) == Release(p) /\ UNCHANGED Database

Apply(p) ==
  LET u == uow[p] IN
  /\ rows' = [t \in Request |-> IF u.writes[t] = NoRow THEN rows[t] ELSE u.writes[t]]
  /\ wallets' = [w \in Wallet |->
                   IF w = WalletOf(p) /\ u.entries # <<>> THEN u.wallet ELSE wallets[w]]
  /\ ledger' = [w \in Wallet |->
                  IF w = WalletOf(p) THEN ledger[w] \o u.entries ELSE ledger[w]]
  /\ outbox' = [w \in Wallet |-> outbox[w] \o u.events[w]]

Go(p, label) == pc' = [pc EXCEPT ![p] = label]
Stage(p, u) == uow' = [uow EXCEPT ![p] = u]
Return(p, a) == answer' = [answer EXCEPT ![p] = a] /\ Go(p, "done")

-----------------------------------------------------------------------------
(* execute *)

Result(t, replay) ==
  [status |-> rows[t].status, tx |-> t, balance |-> rows[t].balance,
   failure |-> rows[t].failure, replay |-> replay]

ReplayOrConflict(p, t) ==
  IF SamePayload(input[p], input[t]) THEN Result(t, TRUE) ELSE Failed("CONFLICT")

Arrive(p) ==
  /\ pc[p] = "idle"
  /\ \E i \in Inputs : input' = [input EXCEPT ![p] = i]
  /\ Go(p, "checkKey")
  /\ UNCHANGED <<target, uow, Database, Locks, answer>>

RejectKind(p) ==
  /\ pc[p] = "checkKey"
  /\ ~ExternallySubmittable(input[p].kind)
  /\ Stage(p, Rejected(uow[p], p, "INVALID_KIND"))
  /\ Go(p, "insert")
  /\ UNCHANGED <<input, target, Database, Locks, answer>>

CheckKey(p) ==
  /\ pc[p] = "checkKey"
  /\ ExternallySubmittable(input[p].kind)
  /\ \/ \E t \in FindByKey(input[p].key) : Return(p, ReplayOrConflict(p, t))
     \/ FindByKey(input[p].key) = {} /\ Go(p, "checkExt") /\ UNCHANGED answer
  /\ UNCHANGED <<input, target, uow, Database, Locks>>

CheckExt(p) ==
  /\ pc[p] = "checkExt"
  /\ \/ \E t \in FindByExt(input[p].ext) : Return(p, ReplayOrConflict(p, t))
     \/ FindByExt(input[p].ext) = {} /\ Go(p, "lockWallet") /\ UNCHANGED answer
  /\ UNCHANGED <<input, target, uow, Database, Locks>>

WalletNotFound(p) ==
  /\ pc[p] = "lockWallet"
  /\ input[p].wallet \notin Wallet
  /\ Return(p, Failed("NOT_FOUND"))
  /\ UNCHANGED <<input, target, uow, Database, Locks>>

\* findByIdForUpdate: waits for the row lock, then reads the row it locked.
LockWallet(p, w, next) ==
  /\ WalletFree(w)
  /\ walletLock' = [walletLock EXCEPT ![w] = p]
  /\ uow' = [uow EXCEPT ![p].wallet = wallets[w]]
  /\ Go(p, next)

LockSubmittedWallet(p) ==
  /\ pc[p] = "lockWallet"
  /\ input[p].wallet \in Wallet
  /\ LockWallet(p, input[p].wallet, "decide")
  /\ UNCHANGED <<input, target, Database, rowLock, answer>>

\* Everything between the wallet lock and the first write.
Decide(p) ==
  LET i == input[p]
      u == uow[p]
      owner == WalletPlayer[i.wallet]
      refs == ProcessedReference(i.ref)
  IN
  /\ pc[p] = "decide"
  /\ \/ /\ i.player # owner
        /\ Stage(p, Rejected(u, p, "PLAYER_MISMATCH"))
     \/ /\ i.player = owner /\ i.kind \in Reversal /\ i.ref = None
        /\ Stage(p, Rejected(u, p, "REFERENCE_NOT_FOUND"))
     \/ /\ i.player = owner /\ i.kind \in Reversal /\ i.ref # None /\ refs = {}
        /\ Stage(p, PendingReference(u, p))
     \/ /\ i.player = owner /\ i.kind \in Reversal
        /\ \E r \in refs : Stage(p, Reverse(u, p, r, i.wallet, AlreadyReversed(i.ref)))
     \/ /\ i.player = owner /\ i.kind = "LOSS"
        /\ Stage(p, Settled(u, p, i.wallet))
     \/ /\ i.player = owner /\ i.kind \in {"BET", "WIN"}
        /\ Stage(p, ApplyToWallet(u, p, None, i.wallet))
  /\ Go(p, "insert")
  /\ UNCHANGED <<input, target, Database, Locks, answer>>

\* The INSERT waits for in-flight rows it collides with; a committed one is a
\* unique violation, which rolls the transaction back.
Insert(p) ==
  /\ pc[p] = "insert"
  /\ InsertBlockers(p) = {}
  /\ \/ /\ \E t \in Stored : Collide(input[p], input[t])
        /\ Rollback(p)
        /\ Go(p, "lost")
     \/ /\ \A t \in Stored : ~Collide(input[p], input[t])
        /\ Go(p, IF Holding(p) = {} THEN "fk"
                 ELSE IF uow[p].writes[p].status = "PROCESSED" THEN "find" ELSE "commit")
        /\ UNCHANGED <<uow, Database, Locks>>
  /\ UNCHANGED <<input, target, answer>>

\* The foreign key on wallet_id, for a row inserted without the wallet's lock.
CheckForeignKey(p) ==
  /\ pc[p] = "fk"
  /\ \/ /\ input[p].wallet \notin Wallet
        /\ Rollback(p)
        /\ Return(p, Failed("ERROR"))
     \/ /\ input[p].wallet \in Wallet
        /\ walletLock[input[p].wallet] = None
        /\ Go(p, "commit")
        /\ UNCHANGED <<uow, Database, Locks, answer>>
  /\ UNCHANGED <<input, target>>

\* Fault: the loser looks under its idempotency key only.
Winners_KeyOnly(p) == FindByKey(input[p].key)

\* Where a transaction that lost the insert race looks for the one that won it.
Winners(p) ==
  IF FindByKey(input[p].key) # {} THEN FindByKey(input[p].key) ELSE FindByExt(input[p].ext)

LostRace(p) ==
  /\ pc[p] = "lost"
  /\ Return(p, IF Winners(p) = {} THEN Failed("ERROR")
               ELSE ReplayOrConflict(p, CHOOSE t \in Winners(p) : TRUE))
  /\ UNCHANGED <<input, target, uow, Database, Locks>>

\* resolvePendingReferences begins: plain reads, no row is locked.
FindPending(p) ==
  LET todo == PendingFor(input[p].ext) IN
  /\ pc[p] = "find"
  /\ uow' = [uow EXCEPT ![p].todo = todo, ![p].reversed = AlreadyReversed(input[p].ext)]
  /\ Go(p, IF todo = {} THEN "commit" ELSE "resolve")
  /\ UNCHANGED <<input, target, Database, Locks, answer>>

\* One turn of its loop, in any order.  The UPDATE waits for the row's lock, then
\* overwrites the row whatever it has become since it was read.
ResolvePending(p, t) ==
  LET u == Reverse(uow[p], t, p, input[p].wallet, uow[p].reversed)
      left == uow[p].todo \ {t}
  IN
  /\ pc[p] = "resolve"
  /\ t \in uow[p].todo
  /\ rowLock[t] = None
  /\ rowLock' = [rowLock EXCEPT ![t] = p]
  /\ Stage(p, [u EXCEPT !.todo = left,
                        !.reversed = @ \/ u.writes[t].status = "PROCESSED"])
  /\ Go(p, IF left = {} THEN "commit" ELSE "resolve")
  /\ UNCHANGED <<input, target, Database, walletLock, answer>>

\* The first answer carries the balance after the pending reversals were resolved.
FirstAnswer(p) ==
  LET row == uow[p].writes[p] IN
  [status |-> row.status, tx |-> p, failure |-> row.failure, replay |-> FALSE,
   balance |-> IF row.status = "PROCESSED" THEN uow[p].wallet.balance ELSE None]

Commit(p) ==
  /\ pc[p] = "commit"
  /\ Apply(p)
  /\ Release(p)
  /\ Return(p, FirstAnswer(p))
  /\ UNCHANGED <<input, target>>

-----------------------------------------------------------------------------
(* retryPendingReference *)

\* Fault: the row is locked as it is picked, before the wallet.
Pick_RowFirst(k) ==
  /\ pc[k] = "idle"
  /\ \E t \in Stored : /\ rows[t].status = "PENDING_REFERENCE"
                       /\ rowLock[t] = None
                       /\ rowLock' = [rowLock EXCEPT ![t] = k]
                       /\ target' = [target EXCEPT ![k] = t]
  /\ Go(k, "lockWallet")
  /\ UNCHANGED <<input, uow, Database, walletLock, answer>>

\* The worker's query and the unlocked snapshot it re-reads by identifier.
Pick(k) ==
  /\ pc[k] = "idle"
  /\ \E t \in Stored : /\ rows[t].status = "PENDING_REFERENCE"
                       /\ target' = [target EXCEPT ![k] = t]
  /\ Go(k, "lockWallet")
  /\ UNCHANGED <<input, uow, Database, Locks, answer>>

WorkerLockWallet(k) ==
  /\ pc[k] = "lockWallet"
  /\ LockWallet(k, WalletOf(k), "lockRow")
  /\ UNCHANGED <<input, target, Database, rowLock, answer>>

\* Fault: the row is trusted as the snapshot showed it.
WorkerLockRow_NoRecheck(k) ==
  /\ pc[k] = "lockRow"
  /\ rowLock[target[k]] \in {None, k}
  /\ rowLock' = [rowLock EXCEPT ![target[k]] = k]
  /\ Go(k, "decide")
  /\ UNCHANGED <<input, target, uow, walletLock, Database, answer>>

\* Locks the row and re-reads it: somebody may have settled it meanwhile.
WorkerLockRow(k) ==
  /\ pc[k] = "lockRow"
  /\ rowLock[target[k]] \in {None, k}
  /\ \/ /\ rows[target[k]].status = "PENDING_REFERENCE"
        /\ rowLock' = [rowLock EXCEPT ![target[k]] = k]
        /\ Go(k, "decide")
        /\ UNCHANGED <<uow, walletLock>>
     \/ /\ rows[target[k]].status # "PENDING_REFERENCE"
        /\ Release(k)
        /\ Go(k, "idle")
  /\ UNCHANGED <<input, target, Database, answer>>

\* Not due yet, or put off: attempts and due time are not modelled.
PutOff(k) ==
  /\ pc[k] = "decide"
  /\ Rollback(k)
  /\ Go(k, "idle")
  /\ UNCHANGED <<input, target, answer>>

Retry(k) ==
  LET t == target[k]
      refs == ProcessedReference(input[t].ref)
  IN
  /\ pc[k] = "decide"
  /\ \/ /\ refs = {}
        /\ Stage(k, Rejected(uow[k], t, "REFERENCE_NOT_FOUND"))
     \/ \E r \in refs :
          Stage(k, Reverse(uow[k], t, r, input[t].wallet, AlreadyReversed(input[t].ref)))
  /\ Go(k, "commit")
  /\ UNCHANGED <<input, target, Database, Locks, answer>>

WorkerCommit(k) ==
  /\ pc[k] = "commit"
  /\ Apply(k)
  /\ Release(k)
  /\ Go(k, "idle")
  /\ UNCHANGED <<input, target, answer>>

-----------------------------------------------------------------------------
(* A connection lost, a statement failing or the process dying before COMMIT. *)

AbortRequest(p) ==
  /\ pc[p] \notin {"idle", "done"}
  /\ Rollback(p)
  /\ Return(p, Failed("ERROR"))
  /\ UNCHANGED <<input, target>>

AbortWorker(k) ==
  /\ pc[k] # "idle"
  /\ Rollback(k)
  /\ Go(k, "idle")
  /\ UNCHANGED <<input, target, answer>>

-----------------------------------------------------------------------------
ExecuteStep(p) ==
  \/ RejectKind(p) \/ CheckKey(p) \/ CheckExt(p)
  \/ WalletNotFound(p) \/ LockSubmittedWallet(p) \/ Decide(p)
  \/ Insert(p) \/ CheckForeignKey(p) \/ LostRace(p)
  \/ FindPending(p) \/ (\E t \in Request : ResolvePending(p, t))
  \/ Commit(p)

RetryStep(k) ==
  \/ WorkerLockWallet(k) \/ WorkerLockRow(k) \/ PutOff(k) \/ Retry(k) \/ WorkerCommit(k)

Next ==
  \/ \E p \in Request : Arrive(p) \/ ExecuteStep(p) \/ AbortRequest(p)
  \/ \E k \in Worker : Pick(k) \/ RetryStep(k) \/ AbortWorker(k)

Spec == Init /\ [][Next]_vars

\* What the scheduling guarantees: a process that is not waiting takes its next step,
\* and one that is waiting is served, since PostgreSQL queues the waiters of a lock and
\* wakes them in turn (strong fairness: the lock may be taken and released meanwhile).
\* Nothing obliges a worker to pick a row, a request to arrive or anything to fail.
Fairness ==
  /\ \A p \in Request : SF_vars(ExecuteStep(p))
  /\ \A k \in Worker : SF_vars(RetryStep(k))

FairSpec == Spec /\ Fairness

-----------------------------------------------------------------------------
(* Properties *)

\* A row or an answer has a failure code exactly when it is REJECTED, and a balance
\* exactly when it is PROCESSED: what toResult asserts with its non-null operators.
RowType ==
  [status : {"NONE", "PENDING_REFERENCE"}, failure : {None}, balance : {None}, refTx : {None}]
  \cup [status : {"REJECTED"}, failure : FailureCode, balance : {None}, refTx : {None}]
  \cup [status : {"PROCESSED"}, failure : {None}, balance : Nat, refTx : Request \cup {None}]

AnswerType ==
  [status : {"NONE", "CONFLICT", "NOT_FOUND", "ERROR"}, tx : {None}, balance : {None},
   failure : {None}, replay : BOOLEAN]
  \cup [status : {"PENDING_REFERENCE"}, tx : Request, balance : {None},
        failure : {None}, replay : BOOLEAN]
  \cup [status : {"REJECTED"}, tx : Request, balance : {None},
        failure : FailureCode, replay : BOOLEAN]
  \cup [status : {"PROCESSED"}, tx : Request, balance : Nat, failure : {None}, replay : BOOLEAN]

EntryType ==
  [tx : Request \cup {OpeningTx}, direction : Direction, amount : Nat, before : Nat, after : Nat]

EventType ==
  [type : {"Processed", "Rejected", "PendingReference", "BalanceChanged"},
   tx : Request, version : Nat]

WalletType == [balance : Nat, version : Nat]

UowType ==
  [wallet : WalletType, entries : Seq(EntryType), writes : [Request -> RowType],
   events : [Wallet -> Seq(EventType)], todo : SUBSET Request, reversed : BOOLEAN]

Label ==
  {"idle", "checkKey", "checkExt", "lockWallet", "decide", "insert", "fk", "find", "resolve",
   "commit", "lost", "lockRow", "done"}

\* Every variable has its type, and so no balance, committed or not, is ever negative
\* (Wallet.debit); a process past its first step has an input or a target to work on.
TypeOK ==
  /\ input \in [Request -> Inputs \cup {None}]
  /\ target \in [Worker -> Request \cup {None}]
  /\ pc \in [Process -> Label]
  /\ uow \in [Process -> UowType]
  /\ wallets \in [Wallet -> WalletType]
  /\ ledger \in [Wallet -> Seq(EntryType)]
  /\ rows \in [Request -> RowType]
  /\ outbox \in [Wallet -> Seq(EventType)]
  /\ walletLock \in [Wallet -> Process \cup {None}]
  /\ rowLock \in [Request -> Process \cup {None}]
  /\ answer \in [Request -> AnswerType]
  /\ \A p \in Request : pc[p] # "idle" => input[p] \in Inputs
  /\ \A k \in Worker : pc[k] # "idle" => target[k] \in Request

\* Each entry moves the balance by its amount, in its direction, never below zero.
EntrySound(e) ==
  /\ e.after = IF e.direction = "DEBIT" THEN e.before - e.amount ELSE e.before + e.amount
  /\ e.after >= 0

\* A ledger is a chain of sound entries from zero to the balance of its wallet.
Chained(entries, balance) ==
  /\ \A n \in 1..Len(entries) :
       /\ EntrySound(entries[n])
       /\ entries[n].before = IF n = 1 THEN 0 ELSE entries[n - 1].after
  /\ balance = IF entries = <<>> THEN 0 ELSE entries[Len(entries)].after

\* However requests and workers interleave on a wallet, its committed ledger is an
\* unbroken, never negative chain that ends at its committed balance: no update of
\* the balance is lost (wallet lock of executeWithinTransaction and retryPendingReference).
LedgerSound == \A w \in Wallet : Chained(ledger[w], wallets[w].balance)

\* Of all the reversals that name one transaction, at most one is ever PROCESSED,
\* whether they are applied directly, by the loop of the reference, or by a worker.
AtMostOneReversal ==
  \A s, t \in Stored :
    /\ rows[s].status = "PROCESSED" /\ rows[t].status = "PROCESSED"
    /\ input[s].kind \in Reversal /\ input[t].kind \in Reversal
    /\ input[s].ref = input[t].ref
    => s = t

\* A PROCESSED reversal points at a PROCESSED transaction of a kind it may undo and
\* of the same wallet, player, round, currency and amount, and both are named alike.
ReversalMatches ==
  \A t \in Stored :
    rows[t].status = "PROCESSED" /\ input[t].kind \in Reversal =>
      LET i == input[t]
          r == input[rows[t].refTx]
      IN /\ rows[rows[t].refTx].status = "PROCESSED"
         /\ r.ext = i.ref
         /\ r.kind \in {"BET"} \cup (IF i.kind = "ROLLBACK" THEN {"WIN", "REFUND"} ELSE {})
         /\ \A field \in {"wallet", "player", "round", "currency", "amount"} :
              r[field] = i[field]

\* A reversal is not left waiting for a transaction of its own wallet that is
\* already PROCESSED: the wallet lock lets either the reversal see its reference or
\* the reference see the reversal.  The exception is a reference that was itself
\* resolved from PENDING_REFERENCE, whose own waiters only a worker resolves.
NoLostWakeup ==
  \A t \in Stored : \A r \in ProcessedReference(input[t].ref) :
    /\ rows[t].status = "PENDING_REFERENCE"
    /\ input[r].wallet = input[t].wallet
    => \E n \in DOMAIN outbox[input[r].wallet] :
         outbox[input[r].wallet][n] = Event("PendingReference", r, 0)

\* An answer that names a transaction names one stored with the caller's own
\* payload, and two such answers for one external identifier name the same one.
AnswersAgree ==
  \A p, q \in Request :
    /\ answer[p].tx # None
    => /\ answer[p].tx \in Stored
       /\ SamePayload(input[p], input[answer[p].tx])
       /\ answer[q].tx # None /\ input[q].ext = input[p].ext => answer[q].tx = answer[p].tx

\* A transaction that lost the insert race always finds the row that won it, by
\* key or by external identifier: the unique violation never surfaces as an error.
LoserFindsWinner == \A p \in Request : pc[p] = "lost" => Winners(p) # {}

\* Who waits for whom.
WaitsFor(p) ==
  CASE pc[p] = "lockWallet" ->
         LET w == WalletOf(p)
         IN IF w \in Wallet THEN ({walletLock[w]} \ {None}) \cup KeyShareHolders(w) ELSE {}
    [] pc[p] = "insert"  -> InsertBlockers(p)
    [] pc[p] = "fk"      ->
         IF input[p].wallet \in Wallet THEN {walletLock[input[p].wallet]} \ {None} ELSE {}
    [] pc[p] = "lockRow" -> {rowLock[target[p]]} \ {None, p}
    [] pc[p] = "resolve" -> {rowLock[t] : t \in uow[p].todo} \ {None}
    [] OTHER -> {}

\* No set of processes waits for itself, so that the database's deadlock detector has
\* nothing to break: both paths lock the wallet first and the row second.  Kinds nobody
\* may submit are left out: an INVALID_KIND insert takes no wallet lock, so its foreign
\* key can wait for a wallet whose holder waits for its key.
NoWaitCycle ==
  \A S \in (SUBSET Process) \ {{}} :
    (\A p \in S \cap Request : pc[p] # "idle" => ExternallySubmittable(input[p].kind))
      => \E p \in S : WaitsFor(p) \cap S = {}

\* The BalanceChanged events among es carry the versions that follow `version` without gap
\* or repetition, one for each of the entries and in their order.
Announces(es, entries, version) ==
  LET moves == {n \in DOMAIN es : es[n].type = "BalanceChanged"}
  IN /\ \A n \in moves : /\ es[n].version \in version + 1..version + Len(entries)
                         /\ es[n].tx = entries[es[n].version - version].tx
     /\ \A v \in version + 1..version + Len(entries) : \E n \in moves : es[n].version = v
     /\ \A m, n \in moves : m < n => es[m].version < es[n].version

\* The WalletBalanceChanged events of a wallet carry the versions 2, 3, ... up to
\* its committed version without gap or repetition, one per ledger entry after the
\* opening one and in the order of the ledger.
BalanceEventsInOrder ==
  \A w \in Wallet :
    LET entries == IF Opening[w] > 0 THEN Tail(ledger[w]) ELSE ledger[w]
    IN /\ wallets[w].version = 1 + Len(entries)
       /\ Announces(outbox[w], entries, 1)

\* Each transaction announces its outcome once: one Processed event when it is
\* PROCESSED, one Rejected event when it is REJECTED, none before.
OneOutcome ==
  \A t \in Request :
    LET outcomes == UNION {{<<w, n>> : n \in {m \in DOMAIN outbox[w] :
                              outbox[w][m].tx = t /\ outbox[w][m].type \in {"Processed", "Rejected"}}}
                           : w \in Wallet}
    IN /\ Cardinality(outcomes) = IF rows[t].status \in Terminal THEN 1 ELSE 0
       /\ \A o \in outcomes :
            outbox[o[1]][o[2]].type = IF rows[t].status = "PROCESSED" THEN "Processed" ELSE "Rejected"

\* A committed PROCESSED or REJECTED row never changes again.
TerminalIsFinal ==
  [][\A t \in Request : rows[t].status \in Terminal => rows'[t] = rows[t]]_vars

\* A replay of a PROCESSED transaction returns the balance its first answer did.
ReplaysFirstBalance ==
  \A p, q \in Request :
    /\ answer[p].tx = answer[q].tx /\ answer[p].tx # None
    /\ answer[p].status = "PROCESSED" /\ answer[q].status = "PROCESSED"
    /\ answer[p].tx = p /\ ~answer[p].replay
    => answer[q].balance = answer[p].balance

\* Every request that arrives is answered, whatever it races with.
Answered == \A p \in Request : pc[p] # "idle" ~> pc[p] = "done"
=============================================================================
