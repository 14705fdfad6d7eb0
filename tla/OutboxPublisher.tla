--------------------------- MODULE OutboxPublisher ---------------------------
(***************************************************************************)
(* The outbox and the workers that publish it to the FIFO queue of events, *)
(* one per instance of the application.  A tick claims the oldest due rows *)
(* with FOR UPDATE SKIP LOCKED, sends them one by one and marks each one   *)
(* in the same transaction, so that a mark counts only once it commits     *)
(* while a send cannot be taken back.                                      *)
(*                                                                         *)
(* A row is appended in the transaction that changed the wallet: the rows  *)
(* of one transaction have one At here, and those of a wallet are appended *)
(* in the order of At, for they are written under the lock of the wallet.  *)
(***************************************************************************)
EXTENDS Integers, Sequences, FiniteSets

CONSTANTS
  Event,      \* rows of outbox_messages
  Wallet,     \* aggregate_id of each row, the message group
  At,         \* occurred_at of each row
  Publisher,
  BatchSize,  \* 10 in the code
  MaxFaults   \* bound: sends and transactions that fail

ASSUME ConstantsAssumption ==
  /\ At \in [Event -> Nat]
  /\ DOMAIN Wallet = Event
  /\ BatchSize \in Nat \ {0} /\ MaxFaults \in Nat

VARIABLES
  stored,     \* committed: the rows there are
  published,  \* committed: those with a published_at
  putOff,     \* those whose next_attempt_at is still to come
  ticking,    \* of each publisher: a tick is running
  claimed,    \* the rows its transaction has locked
  mark,       \* what it did to each of them: none, published or put off
  log,        \* the queue of events, every message ever delivered
  window,     \* the rows whose deduplication interval is running
  lost,       \* history: accepted sends of each row that are not marked published
  faults      \* how many faults there were

rowVars == <<stored, published, putOff>>
tickVars == <<ticking, claimed, mark>>
queueVars == <<log, window>>
vars == <<rowVars, tickVars, queueVars, lost, faults>>

Init ==
  /\ stored = {} /\ published = {} /\ putOff = {}
  /\ ticking = [p \in Publisher |-> FALSE]
  /\ claimed = [p \in Publisher |-> {}]
  /\ mark = [p \in Publisher |-> [e \in Event |-> "none"]]
  /\ log = <<>> /\ window = {}
  /\ lost = [e \in Event |-> 0]
  /\ faults = 0

Fault == faults < MaxFaults /\ faults' = faults + 1

-----------------------------------------------------------------------------
(* Rows come in, and time passes *)

Store(e) ==
  LET older == {f \in Event : Wallet[f] = Wallet[e] /\ At[f] < At[e]} IN
  /\ e \notin stored /\ older \subseteq stored
  /\ stored' = stored \cup {f \in Event : Wallet[f] = Wallet[e] /\ At[f] = At[e]}
  /\ UNCHANGED <<published, putOff, tickVars, queueVars, lost, faults>>

DueAgain(e) ==
  /\ e \in putOff
  /\ putOff' = putOff \ {e}
  /\ UNCHANGED <<stored, published, tickVars, queueVars, lost, faults>>

Forget(e) ==
  /\ e \in window
  /\ window' = window \ {e}
  /\ UNCHANGED <<rowVars, tickVars, log, lost, faults>>

-----------------------------------------------------------------------------
(* A tick *)

Locked == UNION {claimed[p] : p \in Publisher}

\* Fault: FOR UPDATE without regard to the rows another publisher holds.
Due_Unlocked == stored \ (published \cup putOff)

Due == stored \ (published \cup putOff \cup Locked)

\* M is what the ordered SELECT with its LIMIT may return.
Batch(M) ==
  /\ Cardinality(M) = IF Cardinality(Due) < BatchSize THEN Cardinality(Due) ELSE BatchSize
  /\ \A e \in M : \A f \in Due \ M : At[e] <= At[f]

Tick(p) ==
  /\ ~ticking[p] /\ Due # {}
  /\ \E M \in SUBSET Due : Batch(M) /\ claimed' = [claimed EXCEPT ![p] = M]
  /\ ticking' = [ticking EXCEPT ![p] = TRUE]
  /\ UNCHANGED <<rowVars, mark, queueVars, lost, faults>>

\* Fault: the rows are read again to be sent, without their locks.
Unsent_NotClaimed(p) == {e \in stored : mark[p][e] = "none"}

Unsent(p) == {e \in claimed[p] : mark[p][e] = "none"}
Oldest(p) == {e \in Unsent(p) : \A f \in Unsent(p) : At[e] <= At[f]}

\* The queue accepts a message, and delivers it unless it knows its deduplication id.
Accept(e) ==
  IF e \in window
  THEN UNCHANGED queueVars
  ELSE log' = log \o <<e>> /\ window' = window \cup {e}

Sent(p, e) ==
  /\ Accept(e)
  /\ mark' = [mark EXCEPT ![p][e] = "published"]
  /\ UNCHANGED <<lost, faults>>

\* Fault: an error of the queue is logged and forgotten.
NotSent_MarksPublished(p, e) ==
  /\ mark' = [mark EXCEPT ![p][e] = "published"]
  /\ \/ Accept(e) \/ UNCHANGED queueVars
  /\ Fault /\ UNCHANGED lost

\* The call fails, whether the queue accepted the message before or not.
NotSent(p, e) ==
  /\ mark' = [mark EXCEPT ![p][e] = "put off"]
  /\ \/ Accept(e) /\ lost' = [lost EXCEPT ![e] = @ + 1]
     \/ UNCHANGED <<queueVars, lost>>
  /\ Fault

Send(p) ==
  /\ \E e \in Oldest(p) : Sent(p, e) \/ NotSent(p, e)
  /\ UNCHANGED <<rowVars, ticking, claimed>>

Marked(p, what) == {e \in claimed[p] : mark[p][e] = what}

Unlock(p) ==
  /\ claimed' = [claimed EXCEPT ![p] = {}]
  /\ mark' = [mark EXCEPT ![p] = [e \in Event |-> "none"]]

Commit(p) ==
  /\ claimed[p] # {} /\ Unsent(p) = {}
  /\ published' = published \cup Marked(p, "published")
  /\ putOff' = putOff \cup Marked(p, "put off")
  /\ Unlock(p)
  /\ ticking' = [ticking EXCEPT ![p] = FALSE]
  /\ UNCHANGED <<stored, queueVars, lost, faults>>

RollBack(p) ==
  /\ lost' = [e \in Event |-> lost[e] + (IF e \in Marked(p, "published") THEN 1 ELSE 0)]
  /\ Unlock(p)
  /\ Fault
  /\ UNCHANGED <<rowVars, queueVars>>

\* Fault: ticking is reset on success only.
Abort_KeepsTicking(p) == claimed[p] # {} /\ RollBack(p) /\ UNCHANGED ticking

\* A statement or the commit fails, or the process dies or is stopped (onModuleDestroy
\* waits for no tick): the marks are lost.
Abort(p) ==
  /\ claimed[p] # {} /\ RollBack(p)
  /\ ticking' = [ticking EXCEPT ![p] = FALSE]

Next ==
  \/ \E e \in Event : Store(e) \/ DueAgain(e) \/ Forget(e)
  \/ \E p \in Publisher : Tick(p) \/ Send(p) \/ Commit(p) \/ Abort(p)

Spec == Init /\ [][Next]_vars

\* The interval timer fires again and again, a transaction goes on, and time passes.
Fairness ==
  /\ \A e \in Event : WF_vars(DueAgain(e))
  /\ \A p \in Publisher : WF_vars(Tick(p)) /\ WF_vars(Send(p)) /\ WF_vars(Commit(p))

FairSpec == Spec /\ Fairness

-----------------------------------------------------------------------------
(* Properties *)

Copies(e) == Cardinality({n \in DOMAIN log : log[n] = e})

\* Every variable has its type; a row has a mark only from the publisher that claims it.
TypeOK ==
  /\ stored \subseteq Event /\ published \subseteq stored /\ putOff \subseteq stored
  /\ ticking \in [Publisher -> BOOLEAN]
  /\ claimed \in [Publisher -> SUBSET stored]
  /\ mark \in [Publisher -> [Event -> {"none", "published", "put off"}]]
  /\ log \in Seq(Event) /\ window \subseteq Event
  /\ lost \in [Event -> 0..MaxFaults] /\ faults \in 0..MaxFaults
  /\ \A p \in Publisher, e \in Event : mark[p][e] # "none" => e \in claimed[p]

\* An event is marked published only after the queue has it: a failed call, a rollback or
\* a crash never drops an event (processDueBatch marks after publish has succeeded).
PublishedMeansDelivered == \A e \in published : Copies(e) > 0

\* An event is delivered again only after a send that the queue had accepted was not
\* recorded, for its call or its transaction failed: publishers that run at the same time
\* never deliver one row twice (FOR UPDATE SKIP LOCKED, MessageDeduplicationId).
CopiesNeedLoss == \A e \in Event : Copies(e) <= 1 + lost[e]

\* As long as calls and transactions do not fail for ever, every row is published in the
\* end: no failure leaves a row locked, or a publisher busy, for good.
EventuallyPublished == \A e \in Event : (e \in stored) ~> (e \in published)
=============================================================================
