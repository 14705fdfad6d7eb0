# Verification of the wagering processor

A TLA+ model of the wagering processor: a NestJS service that moves money between
game providers and player wallets, on PostgreSQL and SQS. Paths below are relative to
the repository; its code is in `src/`.

## The system

### Components

| Component | State it keeps | Operations | Correct when |
| --- | --- | --- | --- |
| Wagering rules (`wagering/domain`, `wallet/domain`) | none (immutable objects) | validate a reversal, pick a direction, debit, credit | a reversal undoes exactly what it names |
| Process-wager use case (`process-wager.use-case.ts`) | tables `wallets`, `wallet_ledger_entries`, `wager_transactions`, `outbox_messages` | `execute`, `retryPendingReference` | no update lost, nothing applied or reversed twice, no reversal forgotten, one answer per submission |
| Pending-reference worker | attempts and due times in `wager_transactions` | `tick` every 2 s | every waiting reversal ends PROCESSED or REJECTED |
| HTTP adapter and idempotency cache | `idempotency_keys` | `submit`, `handle` | one key, one answer, also across races and crashes |
| SQS consumer, inbox, dead-letter queue | `inbox_messages`, the queue | `pollLoop`, `handleMessage`, `ack` | each message acts at most once, none is lost silently |
| Outbox publisher | `published_at`, `attempts`, `next_attempt_at` of `outbox_messages` | `processDueBatch` every 2 s | every event is published at least once, in order per wallet |
| Wallet opening | `wallets`, an OPENING transaction and ledger entry | `CreateWalletUseCase.execute` | one wallet per player and currency |
| Reconciliation, ledger paging | none | two reads; a cursor over the ledger | no false drift; every entry on exactly one page |
| Health, authentication, wiring, logging, mappers | none | - | - |

### How they interact

HTTP requests and SQS messages enter through their adapters and call the same
`ProcessWagerUseCase.execute`; the pending-reference worker calls
`retryPendingReference`. Each call is one database transaction at READ COMMITTED.
They meet only in the database: through the row lock of a wallet (`FOR UPDATE`), the row
lock of a transaction, the two unique constraints of `wager_transactions` and the
foreign key to `wallets`. Events are appended to the outbox in the same transaction
and published later by another worker. Several instances of the application may run.

The adapters differ in what surrounds the transaction. HTTP reads its cache of answers
before it and writes the answer after it, in a transaction of its own. The consumer makes
the inbox row part of it and deletes the message after it. The publisher sends inside its
transaction, so a send can happen whose mark does not commit.

A REFUND or ROLLBACK can be applied along three paths: directly, when its reference is
already PROCESSED; in the loop of `resolvePendingReferences`, when its reference arrives
after it; and by a worker.

### What is hard

Concurrent updates of one hot wallet; copies of one submission racing for the unique
constraints; reversals that race with their reference or with each other across the three
paths; rows decided on from an unlocked read; lock order; events in the order of the
ledger; a process that dies anywhere before COMMIT, or after COMMIT and before its answer;
ticks that overlap; messages delivered again while they are handled, lost receipts, and
the limit on receives; sends that cannot be taken back; reads without a snapshot.
`PROJECT.json` lists these hazards with the line where each one bites and the
properties that cover it, or the reason none does.

## Modules

| Module | What it is | Depends on |
| --- | --- | --- |
| `WagerRules` | the pure rules: kinds, what may reverse what, direction of money, debit, credit, the payload hash | |
| `ProcessWager` | the use case as concurrent transactions: state, actions, fairness, properties | `WagerRules` |
| `WagerLedger` | abstract: a ledger that takes one submission at a time | `WagerRules` |
| `LedgerRefinement` | the mapping under which `ProcessWager` implements `WagerLedger` | both |
| `PendingReference` | the clock, ticks, batches, attempts and expiry of waiting reversals | |
| `HttpSubmission` | the idempotency cache around the use case | |
| `Consumer` | the queue of commands, its consumers, the inbox and the dead-letter queue | |
| `OutboxPublisher` | the outbox, its publishers and the queue of events | |
| `WalletOpening` | racing creations of wallets | |
| `WalletReads` | reconciliation and ledger pages while money moves | |
| `MCProcessWager`, `MC...` | the instances of each module, for TLC | |
| `ProcessWagerProofs` | proofs, in three parts: types, and that every ledger is sound and sums to its balance; nothing is stored or reversed twice, answers agree, no reversal is forgotten, nobody waits in a circle; events in the order of the ledger, one outcome per transaction | `ProcessWager` |
| `RefinementProofs` | proofs: `ProcessWager` implements `WagerLedger` | `LedgerRefinement`, `ProcessWagerProofs` |
| `PendingReferenceProofs`, `HttpSubmissionProofs`, `ConsumerProofs`, `OutboxPublisherProofs`, `WalletOpeningProofs`, `WalletReadsProofs` | proofs: types and every safety property of the component | the component's module |

The modules compose by abstraction. `ProcessWager` shows that concurrent calls of the use
case behave as `WagerLedger`, where each takes effect at once; `PendingReference`,
`HttpSubmission` and `Consumer` therefore take a call of it as one step and put
around it what their component adds: time, the cache, the queue. `OutboxPublisher` relies on
the events of a wallet being appended in order (`BalanceEventsInOrder`), and `WalletReads` on
movements that commit an entry with its balance, of which the balance is the sum
(`LedgerIsSound`, `LedgerSumsToBalance`).

### State of `ProcessWager`

- `wallets`, `ledger`, `rows`, `outbox`: the committed tables. `rows[p]` is the
  `wager_transactions` row that request `p` inserts: the identifier `newTransaction` mints is
  the request itself. The columns of a row that never change are those of `input[p]`.
- `uow[p]`: what process `p` has written and not committed: the locked wallet as it sees it,
  ledger entries, row writes, events, and the local variables of the loop
  (`pendingRows` as `todo`, `alreadyReversed` as `reversed`).
- `walletLock`, `rowLock`: holders of the `FOR UPDATE` locks and of the locks UPDATEs take.
- `pc`, `input`, `target`, `answer`: where each process is, what it works on, what it returned.

### Actions of `ProcessWager`

Steps are cut where the code awaits a statement that another transaction can come before.

| Code | Actions |
| --- | --- |
| `execute`, a call arrives | `Arrive` |
| kind check, `rejectNew(INVALID_KIND)` | `RejectKind` |
| the two existence checks | `CheckKey`, `CheckExt` |
| `walletRepository.findByIdForUpdate` | `LockSubmittedWallet`, `WalletNotFound` |
| everything between the lock and the first write | `Decide` |
| the INSERT, its unique violation, its foreign key | `Insert`, `CheckForeignKey` |
| the `catch` of `execute` | `LostRace` |
| `resolvePendingReferences` | `FindPending`, then `ResolvePending` once per row |
| COMMIT and the answer | `Commit` |
| worker: query and snapshot, wallet lock, row lock | `Pick`, `WorkerLockWallet`, `WorkerLockRow` |
| worker: not due or put off; settle; COMMIT | `PutOff`, `Retry`, `WorkerCommit` |
| an error, a lost connection, the process dying | `AbortRequest`, `AbortWorker` |

`Decide` is one step although it issues several reads: what these reads ask about (the
reference, a processed reversal of it) may change under it only by a transaction that
holds another wallet's lock, and the reads happen in one order that a single moment
represents up to that case.

Points of translation worth knowing:

- A submission that MikroORM persists is inserted at the latest by the flush before
  the pending-rows query (automatic flush) or by the explicit flush before the ledger
  entry; so `Insert` precedes `FindPending`. For answers that end the transaction at once the
  INSERT is part of the final flush and `Commit` follows.
- An INSERT that collides with a row another transaction has inserted and not committed
  waits for it (`InsertBlockers`), and fails if that row commits.
- The foreign key takes a KEY SHARE lock on the wallet, which matters only to a row
  inserted without the wallet's lock (`INVALID_KIND`).
- Row UPDATEs take the row's lock one after another as the loop goes; the code issues
  them at its flushes, in the same transaction.
- A request that dies after COMMIT and before its answer is a repeated submission:
  another request that carries the same input.
- `SamePayload` compares every field the payload hash covers, which excludes the key.

### The abstract ledger

`WagerLedger` knows of each transaction its submission, its status and what it has moved,
and of each wallet its balance. `Process` stores a submission and settles, in the same step,
the reversals that wait for it on its wallet; `Wait`, `Reject`, `Reply` and `Fail` are the
other answers, and `Resolve` settles a waiting reversal later. A step tells its request what
it has just stored. `Reject` is possible only if nothing could be moved (`Gain`), so the
refinement shows both that a refusal is justified and that an acceptance is. The answer is
mapped without its balance, which differs as `replay_balance` shows; failure codes, versions
and events are left to the properties of `ProcessWager`.

A `Resolve` that `ProcessWager` takes as part of the processing of a reference on another
wallet may be rejected for what it is; the abstract `Process` allows this
(`S` is any superset of the reversals on the wallet).

### The other modules

| Module | State | Code | Actions |
| --- | --- | --- | --- |
| `PendingReference` | `status`, `failure`, `attempts`, `due`, `life`: columns of `wager_transactions`, times relative to now; `ticking`, `batch`, `age`: a tick of each worker | `markPendingReference`, `execute` | `Submit` |
| | | `tick`: flag and query | `TickStart` |
| | | `retryPendingReference`, next identifier | `RetryNext`, `RetryFails` |
| | | the process dies in a tick; a second passes | `Crash`, `Second` |
| `HttpSubmission` | `rows`, `cache`: the tables; `sent`, `pc`, `held`, `answer`, `seen`: each client and the handler of its request | `submit`, `IdempotencyService.handle` | `Send`, `Lookup`, `Execute`, `Save`, `Reply` |
| | | an error or crash at any point, the client trying again | `Fail`, `Resend` |
| | | the two lookups; a worker settling a reversal | `Get`, `Settle` |
| `Consumer` | `place`, `visible`, `receives`: the queue; `mode`, `stopped`, `batch`, `phase`, `found`: the loop of each instance; `inbox`, `done`: the tables | `pollLoop` | `Receive`, `ReceiveFails` |
| | | `handleMessage` up to the command; the command and its commit; a transient error | `Begin`, `Run`, `Fail` |
| | | `ack` | `Ack`, `AckFails` |
| | | `onModuleInit`, `onModuleDestroy`, death | `Start`, `Stop`, `Exit`, `Crash` |
| | | visibility timeout, redrive policy, the same command by HTTP | `Expire`, `Redrive`, `SubmitElsewhere` |
| `OutboxPublisher` | `stored`, `published`, `putOff`: the table; `ticking`, `claimed`, `mark`: each publisher's tick and its uncommitted updates; `log`, `window`: the queue and its deduplication | `append` | `Store` |
| | | `tick`, the SELECT | `Tick` |
| | | the callback and the UPDATE after it | `Send` |
| | | COMMIT; a failure, shutdown or death before it | `Commit`, `Abort` |
| | | five seconds, or five minutes, pass | `DueAgain`, `Forget` |
| `WalletOpening` | `table`: committed rows; `tx`: each open transaction; `pc`, `answer` | `findByPlayerAndCurrency`, first flush, second flush, commit | `Check`, `Insert`, `WriteCredit`, `Commit`, `Abort` |
| `WalletReads` | `ledger`, `balance`; each reader's reads and pages | a movement; `execute` of the reconciliation; `getLedger` | `Move`, `ReadBalance`, `Reconcile`, `Fetch` |

Points of translation worth knowing:

- `PendingReference` counts seconds. A tick retries its rows with the time at which it began
  (`age`), so a row put off by an old tick is due earlier than a delay from now.
  `nextReferenceAttemptAt` is compared again under the row's lock (`StillDue`), which is all
  that keeps two overlapping ticks from counting one due time twice.
- In `HttpSubmission` `Save` is the INSERT of the cached answer. `em.flush` reports a
  collision on its primary key as an error to the client.
- In `Consumer` `execute` runs in a savepoint of the consumer's transaction, which holds the
  inbox row. Whether the unique violation of a lost race is raised within the savepoint,
  where `execute` catches it, or by the final flush, depends on the moment MikroORM
  flushes: both are allowed (`Replay`, `Throw`), as is that the inbox row goes with the
  savepoint.
- A message of class `broken` stands for every failure that repeats and is no business error:
  a body without `data`, or an amount `numeric(19,4)` cannot hold.
- A FIFO queue delivers nothing of a group while part of it is in flight, and a group in its
  order. The delete works with the receipt of the last receive; SQS may also accept it after
  the timeout.
- `OutboxPublisher` treats rows of one transaction as simultaneous (`At`): they are created
  in one millisecond or in order, and the SELECT orders by `occurred_at` only.
- In `WalletReads` the creation time and the identifier of an entry are arbitrary: clocks of
  instances differ and identifiers are random.

## Runs

Ten runs check properties that hold, two show a disagreement with what the repository says.
A run checks everything its instance is good for: safety, refinement and, under fairness,
liveness share one state graph.

The runs of `ProcessWager` use a few short identifiers per field, and wallets opened with 2 and
0 minor units, so that one bet empties a wallet and one more debit is refused. Every request
may carry any submission of its scenario, so duplicates arise by themselves. Requests,
workers and instances are symmetric except where liveness is checked. Everything may be
answered or published in the end, so deadlock is not checked in the runs of `ProcessWager`,
`HttpSubmission`, `OutboxPublisher` and `WalletOpening`: that nobody waits for ever is
`NoWaitCycle` and the liveness properties.

| Run | Instance | Checks |
| --- | --- | --- |
| `submissions` | 3 requests with any of 16 submissions, 1 worker, 1 wallet | `TypeOK`, `AnswersAgree`, `LoserFindsWinner`, `ReversalMatches`, `ImplementsLedger` |
| `reversals` | 4 requests with any of 4 submissions, 1 worker, 1 wallet | `LedgerSound`, `AtMostOneReversal`, `NoLostWakeup`, `BalanceEventsInOrder`, `OneOutcome`, `ImplementsLedger` |
| `cross_wallet` | 3 requests with any of 3 submissions, 1 worker, 2 wallets, fair | `NoWaitCycle`, `ImplementsLedger`, `Answered` |
| `pending` | a bet, a refund and a rollback of it, 2 workers, batches of 1, 3 attempts, expiry after 8 s, ticks of up to 1 s, fair | `TypeOK`, `NotGivenUpEarly`, `EventuallySettled` |
| `cache` | 2 clients, 3 submissions over 2 keys and 2 identifiers, fair | `TypeOK`, `OneAnswerPerKey`, `AnswerMatchesRow`, `FirstAnswerOnce`, `Served` |
| `deliveries` | 2 messages of one group, 2 instances, 3 receives | `TypeOK`, `DeletedOnlyWhenDone`, `InboxMeansDone`, `DeadLetterNeedsFaults` |
| `messages_leave` | 5 messages of four classes in one group, 2 of them under one key, 1 instance, fair | `MessagesLeave`, `InboxMeansDone` |
| `publishing` | 3 events, 2 wallets, 2 publishers, 2 faults, fair | `TypeOK`, `PublishedMeansDelivered`, `CopiesNeedLoss`, `EventuallyPublished` |
| `opening` | 4 requests, 2 accounts, fair | `TypeOK`, `OneWalletPerAccount`, `OpenedWhole`, `RefusedForAWallet`, `AllAnswered` |
| `reads` | 3 entries, 2 times, pages of 2, one fault | `TypeOK`, `DifferenceExplained`, `ListedOnce` |
| `terminal_overwritten` | 2 requests, 1 worker, 2 wallets | `TerminalIsFinal` (violated) |
| `replay_balance` | 3 requests, 1 wallet | `ReplaysFirstBalance` (violated) |

Why these bounds are enough for the cases meant:

- `ProcessWager`: a lost race takes two requests and a witness; four requests carry a bet,
  both ways to reverse it and a reversal of the reversal at once; one worker suffices for every
  race of a worker with requests, and races of two workers reduce to the recheck of the row
  that `OneOutcome` exercises. Two wallets are needed only where locks of different wallets
  fail to exclude each other. Each rule that refuses a reversal has a submission that breaks
  it and no other; a win, a bet it alone covers and a rollback of the win leave the rollback
  without funds.
- `pending` cuts the limits of the code (five attempts, whose delays sum to 31 s, and 300 s) to
  three attempts, 7 s and 8 s: a row is still put off more than once, and both ways to give up
  remain, since ticks that come late let the expiry win. `NotGivenUpEarly` is stated for any
  limits. `MaxAge` caps how long a tick may take: overdue times beyond it compare alike. Two
  reversals and batches of one instead of twenty let a row that fails again and again stand
  in the way of another.
- `cache`: a race for the cache takes two clients; the second key is shared by two
  submissions, and one submission has two keys.
- Three receives instead of five (`deliveries`) are enough for a delivery, its copy and the
  one that finds the message dead; the inequality of `DeadLetterNeedsFaults` is stated
  for any limit. `messages_leave` asks only whether a message leaves, and takes one receive.
- `MaxFaults` bounds failing sends and transactions: two let a message be lost, sent again
  after its deduplication interval, and lost again.
- A page of two, three entries and two creation times give a tie within a page, one across
  its end, and an entry that comes before the cursor.

### What the violations show

- `terminal_overwritten`. `resolvePendingReferences` reads the pending rows unlocked and
  by reference only, so it may read a row of another wallet, whose lock it does not hold.
  A worker that holds that lock may reject the row (`REFERENCE_NOT_FOUND`) and commit; the
  request then overwrites it (`WALLET_MISMATCH`) and announces a second rejection. No money
  moves, but a terminal row changes, which `WagerTransaction.assertNotTerminal` is meant to
  exclude.
- `replay_balance`. `execute` answers with the balance after the waiting reversals were
  resolved and stores the balance before, so a replay answers differently.

### What else the models do

The models do some things a reader of the documentation may not expect. Each is in the
state graph of the run named, and the properties are stated so as to allow it.

- `cache`: of two requests with one key that both miss the cache, the one that saves its answer
  second gets an error for a command that was committed, where `src/ARCHITECTURE.md:148`
  promises a replay: the INSERT into `idempotency_keys` collides (`Save`). Sent again it is
  served from the cache (`Served`).
- `cache`: a submission repeated under a second key is cached under that key. If a new submission
  with the second key has missed the cache before, it is stored, but its own answer cannot be
  saved, and its retry is refused as a conflict with the cached one. That the rule about
  conflicts does not depend on the cache (`src/ARCHITECTURE.md:155`) is true of the use case
  only.
- `cache`: an answer PENDING_REFERENCE stays cached; the outcome is shown by GET alone.
- `messages_leave`: a `ReceiveMessage` that throws ends `pollLoop` (`ReceiveFails`), unlike the
  transient errors inside `handleMessage`.
- `messages_leave`: an envelope without `data` fails with a `TypeError`, which is not a business
  error (class `broken`), and so it uses up its receives and holds up its group meanwhile; the
  design document has malformed payloads acknowledged at once.
- `deliveries`: a delete with a receipt that a later delivery replaced fails and leaves the
  message in the queue, where the comment on `ack` calls it gone. The inbox makes this
  harmless unless it was the last receive.
- `publishing`: the later event of a wallet is sent while another publisher holds the earlier
  one, or while the earlier one is put off. Versions in the events let a reader notice.
- `reads`: a movement between the two reads of a reconciliation is reported as drift;
  `DifferenceExplained` says by how much.

### Fairness

- `ProcessWager`: strong fairness of each process: a process that can take a step again
  and again takes one. This is what Node and PostgreSQL give: an awaited statement
  returns, and the waiters of a lock are queued and woken in turn, so one cannot be
  overtaken for ever. A process need not arrive, a worker need not pick a row, and nothing
  needs to fail: the deadlock detector of PostgreSQL is not relied on.
- `PendingReference`: time passes, and ticks and retries happen. They may crash and fail as
  often as they like, but a retry that is attempted for ever succeeds at some time (strong
  fairness of `RetryNext`, next to which `RetryFails` may always be taken instead).
- `HttpSubmission`: steps of a handler likewise, and clients retry after an error.
- `Consumer`: timeouts run out, a loop that is running goes on, and an instance that is off
  is started. A loop that is dead stays dead: nothing in the repository restarts it
  (`docker-compose.yml` has no restart policy), which is why `MessagesLeave` assumes
  that some instance polls now and then.
- `OutboxPublisher`: weak fairness of the timers, sends and commits. Faults are finitely
  many, by the bound.
- `WalletOpening`: as `ProcessWager`.

## Proofs

The theorems hold for every set of requests, workers, wallets, submissions, clients, messages,
events and readers, finite or not (the reversals of `PendingReference` are finitely many), where
the runs take a few of each. They are safety properties, of the form `Spec => []Inv`,
`Spec => [][A]_vars` or, for the refinement, `Spec => Promise!Spec`, proved from an inductive
invariant that the proofs state first. Every safety property that a run checks, and the
refinement, is proved; what stays with TLC is under "Only model-checked". The theorems are
listed in `PROJECT.json`.

### Assumptions

- `NoneAssumption` and the `ConstantsAssumption` of each module: the absent value is none of
  the others; requests and workers are different; the transaction that opens a wallet is no
  request's; wallets are opened with natural amounts; a
  submission has exactly the `Fields` of `ProcessWagerInput`, a natural amount and an identifier;
  limits are positive. TLC evaluates them on every run.
- In `PendingReference` the transactions are a finite set, since a tick chooses among sequences of
  rows, and each delay is a positive natural: a fact about powers of two that is stated rather
  than proved, and evaluated for the instance. In `WalletReads` the absent value is neither an
  entry nor a reading. That a ledger is finite is no assumption: it is proved.
- `NamesWithinWallet`, a hypothesis of `TerminalRowsAreFinal` and `OutcomesAreToldOnce` alone:
  who names a transaction as its reference does so for the wallet of that transaction. The code
  does not enforce it before a row waits, and without it both properties fail, as
  `terminal_overwritten` shows. What is left without it is `ProcessedRowsAreFinal`: a row that
  moved money is never written again, so only a rejected row can be overwritten.

### The use case

Each invariant builds on the ones before it. All but the first two are proved in the same
way: `StepOf` says what a step of one process leaves alone, so that whatever is said of
the others is kept for a reason that does not depend on the step, and the step itself is
looked at for the process that takes it.

- `TypeOK` is not inductive: a balance is a natural because the amount added to it is one,
  and the amount comes from the submission of a row read from the table. `TypeInv` adds
  that every row that is stored, staged, waiting in the loop or retried carries a
  submission for an existing wallet, that a request past its decision has a row to insert,
  and that processes outside a transaction hold no wallet lock. `Settles` states what
  settling a row may do to a unit of work; one lemma per way of settling shows it.
- `LedgerSound` speaks of committed tables only. `LedgerInv` adds that the holder of a
  wallet's lock sees the balance its uncommitted entries lead to (`HolderInSync`) and that
  nobody decides about a wallet, or has entries for it, without that lock (`LockHeld`).
  `Moves`, the part of `Settles` about money, extends a chain by one sound entry
  (`ChainGrows`); the rest classifies each action as working on the unit of work, taking a
  lock, or ending with or without a commit.
- `SubmitInv`, for `LoserFindsWinner` and `AnswersAgree`: the rows that are stored *or inserted
  and not committed* never collide (`Unique`), since an INSERT waits for the ones in flight;
  and who has lost the race collides with a row that is stored.
- `ReversalInv`, for `AtMostOneReversal`, `ReversalMatches`, `NoLostWakeup` and
  `ProcessedRowsAreFinal`: a process holds the row lock of every foreign row it has staged, and
  the wallet lock of every row it moves money for or leaves waiting (`Guarded`). Two reversals
  of one transaction are of its wallet, so the second asks for a processed reversal only
  after the first has committed (`Undoes`). A reversal that decides to wait holds the
  wallet lock until its row is committed, and so does the reference until it has listed the
  rows that wait, so that one of them sees the other (`Wakes`). The row of a request that is
  resolving may meanwhile turn REJECTED only if it belongs to another wallet.
- `WaitInv`, for `NoWaitCycle`: locks are taken in one order, wallet, then row to insert or
  to retry, then rows to resolve (`Rank`), and a process waits only for one of higher rank. Two
  requests in the loop could wait for each other's rows, which have the same rank; but they
  resolve different references, since two with one external identifier are never both past
  their INSERT (`SubmitInv`), and a row names one. No bound on the number of processes is used.
- `EventInv`, for `BalanceEventsInOrder`: the events and the entries in a unit of work go on
  where the committed version of its wallet ends, and nobody without the wallet's lock has
  a balance to tell (`Told`). The proof is about concatenations of sequences (`Announces`).
- `OutcomeInv`, for `OneOutcome`: what the outbox tells of a transaction is what its committed row
  says, and what a process is about to tell is what it is about to write over a row that
  is not settled.

- `LedgerSumsToBalance`: that a chain of sound entries sums to where it ends. The sum, credits less
  debits as in `sumLedgerEntries`, is a recursion along the entries; its value up to the n-th is
  the balance after it, for where the first n that differs would be, it does not
  (`ChainAddsUp`).

### The refinement

`LedgerIsImplemented` says that `ProcessWager` implements `WagerLedger`: there is no
hypothesis about who names what, and no bound.

- The mapping shows what a transaction has moved as the sum of its ledger entries (`Net`). The
  sum is a fold, of which only the empty set and singletons are needed (`NetOfNone`,
  `NetOfOne`): a transaction never has two entries.
- `BooksInv` relates what a process has in hand to what the abstract ledger would allow at the
  moment of its commit. A row that is about to be rejected or to wait is `Vain`: there is
  nothing it could add to its wallet, and since the process holds the wallet's lock nobody
  can change that before it commits (`VainStays`). A row that is about to be processed has
  one entry that starts from the committed balance (`Ready`), and if the loop has applied a
  reversal of it, a second entry that brings the balance back. Once the loop meets a
  reversal that matches, it applies one (`Resolves`). In the tables, a transaction that may be
  undone has moved exactly what it is worth (`Booked`).
- `GainIs` translates what the abstract ledger lets a transaction add into the code's terms.
  `NoGain` and `HasGain` then justify a refusal and an acceptance, `CommitShows` says what a
  commit changes of the abstract state, and `CommitPutsAside`, `CommitProcesses` and
  `WorkerCommitMaps` put the steps together. All other steps change nothing of it but an
  answer (`RequestMaps`, `WorkerMaps`).

### The other components

- `OpeningInv`: what a transaction has written follows from where its request is, rows of a
  request are in the table all together or not at all, and of the requests for one account
  at most one has a wallet stored or in flight (`Alone`), which is what the unique index sees.
- `CacheInv`: a response held or cached is true to its row (`Good`); by the time a handler
  returns one the cache has it; rows keep their submission and their settled status, and the
  cache its responses (`RowsGrow`, `CacheGrows`). `FirstOnce` follows the right to be told
  "first" from the commit to the client.
- `ConsumerInv`: for `DeadLetterNeedsFaults`, a potential argument: every receive of a message
  is paid for by a fault, by the `Slack` of two events that happen at most once, or is the one
  under way (`Paid`); a delivery that is no longer live has cost a fault. The rest says what a
  handler knows between its lookup and its acknowledgement. `CanBeHandled` excludes the
  messages for which the inequality is false: a body that is broken, and a kind that nobody
  may submit whose key another message uses, since `rejectNew` inserts it unseen and may collide
  at each receive.
- `PublisherInv`: a row is held by one publisher and not once it is published, so that of all its
  deliveries one is recorded and the others are losses (`Balanced`). The count of a row's
  deliveries is the cardinality of its positions in the queue.

- `PendingReference`: `NotGivenUpEarly` holds because every row that waits is on time
  (`WaitsInTime`): counted from its arrival, its due time is no earlier than the backoff of its
  attempts, unless its expiry has come. A retry adds the next delay to a due time that has
  passed, which is where the recheck under the row's lock is needed: without it a second tick
  would count an attempt against a due time in the future. The delay counts from the
  beginning of the tick, and the row became due before that. The backoff is a recursive function
  of the number of attempts; that it has a value at all is shown by its smallest
  counterexample (`AddsExist`, `BackoffIs`).
- `WalletReads`, reconciliation: the stored balance is at every moment the sum of the ledger and the
  drift (`Balanced`), and so was what a reader has read. The sum is a fold over a set in
  whatever order `CHOOSE` takes its elements. That the order does not matter is proved by taking
  a smallest set for which it would (`Smallest`, `UnfoldsUnique`, `SumOf`), and from it
  that the sum of disjoint parts is the sum of their sums (`SumOfParts`), which gives
  `DifferenceExplained`. For a wallet that nothing moved in between it says that the report is
  the drift (`QuietReportIsDrift`).
- `WalletReads`, pages: the n-th entry is the one that n - 1 others precede. This number (`Rank`)
  puts a finite ledger of distinct identifiers in one-to-one correspondence with the
  positions (`RankDecides`, `RankOnto`), so a page is well defined and nothing outside it precedes
  anything in it (`PageIs`). The invariant `Follows` says that what a listing has shown is
  ascending, ends at the cursor, and lacks nothing that precedes the cursor and was
  there when the listing began; `NextPage` shows that a fetch preserves it.

### Only model-checked

Liveness: `Answered`, `EventuallySettled`, `Served`, `MessagesLeave`, `EventuallyPublished` and
`AllAnswered`. Liveness under fairness and ENABLED are beyond the prover.

## Not modelled, and why

- The CHECK on the balance, the trigger that keeps the ledger append-only and the partial
  unique index on processed reversals: second lines of defence; leaving them out means
  the properties rest on the code's locks.
- Callers without `playerId` or `roundId`: both adapters always send them.
- Amounts are unbounded naturals: `numeric(19,4)` overflow is a failing statement, an
  `Abort`, or a message of class `broken`. Money parsing and rounding are pure string
  arithmetic.
- `OPENING` submitted by SQS can deadlock with a wager under the same key (foreign
  key against unique constraint); PostgreSQL breaks the cycle. `NoWaitCycle` says so.
- The outbox of `ProcessWager` holds the events of the use case, not those of wallet creation,
  which `WalletOpening` has; a wallet starts at version 1.
- Validation of request bodies, headers and query strings, which refuse a request before it
  reads anything.
- `OutboxPublisher` lets a row that was put off become due at any time; that rows which fail
  for ever can fill every batch is noted as a hazard.
- Health probes, the no-op authentication guard, dependency injection, logging and mappers
  have no state of their own.

## Plan

All modules of the plan are written and checked, and every safety property and the refinement
are proved. What is left is what the model leaves out, listed above; the hazards in
`PROJECT.json` that no property covers carry a note with the reason.
