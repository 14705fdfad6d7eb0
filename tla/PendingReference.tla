-------------------------- MODULE PendingReference --------------------------
(***************************************************************************)
(* The life of a reversal that arrived before its reference: stored as     *)
(* PENDING_REFERENCE, retried by the ticks of PendingReferenceWorker with  *)
(* exponential backoff, and given up after too many attempts or too long.  *)
(*                                                                         *)
(* One call of execute or retryPendingReference is one step here, because  *)
(* ProcessWager shows that the locks serialise them.  A tick is not: its   *)
(* rows are listed at once and retried one after another, against the time *)
(* at which it began.                                                      *)
(*                                                                         *)
(* Times are relative to now, in seconds.  An overdue time stops counting  *)
(* at -MaxAge, which no comparison tells apart since no tick is older.     *)
(***************************************************************************)
EXTENDS Integers, Sequences, FiniteSets, FiniteSetsExt

CONSTANTS
  Transaction,   \* submissions, each with an external identifier of its own
  Worker,        \* the worker of each application instance
  Ref,           \* what each reversal names, None for a plain wager
  None,
  MaxAttempts,   \* 5 in the code
  Expiry,        \* 300 in the code
  BatchSize,     \* 20 in the code
  MaxAge         \* bound: how long a tick may take

FirstDelay == 1

Delay(attempts) == Min({2 ^ attempts, 30})

ASSUME ConstantsAssumption ==
  /\ Ref \in [Transaction -> Transaction \cup {None}]
  /\ None \notin Transaction \cup {"NOT_FOUND", "RULE"}
  /\ IsFiniteSet(Transaction)
  /\ MaxAttempts \in Nat \ {0} /\ Expiry \in Nat \ {0}
  /\ BatchSize \in Nat \ {0} /\ MaxAge \in Nat \ {0}
  /\ \A n \in 1..MaxAttempts : Delay(n) \in Nat \ {0}

VARIABLES
  status,     \* column status, NONE before the row exists
  failure,    \* column failure_code: NOT_FOUND, or RULE for any other one
  attempts,   \* column reference_attempts
  due,        \* next_reference_attempt_at - now
  life,       \* reference_expires_at - now
  ticking,    \* the flag of each worker
  batch,      \* the identifiers its tick has still to retry
  age         \* how long ago its tick began

rowVars == <<status, failure, attempts, due, life>>
workerVars == <<ticking, batch, age>>
vars == <<rowVars, workerVars>>

Pending == {t \in Transaction : status[t] = "PENDING_REFERENCE"}
Waiters(r) == {t \in Pending : Ref[t] = r}

\* findProcessedReversalFor
Reversed(r) == \E t \in Transaction : Ref[t] = r /\ status[t] = "PROCESSED"

Init ==
  /\ status = [t \in Transaction |-> "NONE"]
  /\ failure = [t \in Transaction |-> None]
  /\ attempts = [t \in Transaction |-> 0]
  /\ due = [t \in Transaction |-> 0]
  /\ life = [t \in Transaction |-> 0]
  /\ ticking = [k \in Worker |-> FALSE]
  /\ batch = [k \in Worker |-> <<>>]
  /\ age = [k \in Worker |-> 0]

-----------------------------------------------------------------------------
(* Settling rows *)

\* The rows of done become PROCESSED and those of refused REJECTED; a settled row
\* keeps neither counters nor times that anybody reads again.
SettleAll(done, refused, code) ==
  LET settled == done \cup refused IN
  /\ status' = [t \in Transaction |-> IF t \in done THEN "PROCESSED"
                                      ELSE IF t \in refused THEN "REJECTED" ELSE status[t]]
  /\ failure' = [t \in Transaction |-> IF t \in refused THEN code ELSE failure[t]]
  /\ attempts' = [t \in Transaction |-> IF t \in settled THEN 0 ELSE attempts[t]]
  /\ due' = [t \in Transaction |-> IF t \in settled THEN 0 ELSE due[t]]
  /\ life' = [t \in Transaction |-> IF t \in settled THEN 0 ELSE life[t]]

\* What the rules and the balance make of a reversal whose reference is PROCESSED:
\* refused for any reason, or applied unless the reference was reversed before.
Judge(t) ==
  \/ ~Reversed(Ref[t]) /\ SettleAll({t}, {}, None)
  \/ SettleAll({}, {t}, "RULE")

\* A PROCESSED submission settles its waiters in the same transaction: each may be
\* refused, and at most one is applied.
ProcessWithWaiters(t) ==
  \E done \in {{}} \cup {{w} : w \in Waiters(t)} :
    SettleAll({t} \cup done, Waiters(t) \ done, "RULE")

\* execute, for a submission that was not stored before.
Submit(t) ==
  /\ status[t] = "NONE"
  /\ \/ /\ Ref[t] # None /\ status[Ref[t]] # "PROCESSED"
        /\ status' = [status EXCEPT ![t] = "PENDING_REFERENCE"]
        /\ due' = [due EXCEPT ![t] = FirstDelay]
        /\ life' = [life EXCEPT ![t] = Expiry]
        /\ UNCHANGED <<failure, attempts>>
     \/ /\ Ref[t] # None => status[Ref[t]] = "PROCESSED"
        /\ \/ (Ref[t] # None => ~Reversed(Ref[t])) /\ ProcessWithWaiters(t)
           \/ SettleAll({}, {t}, "RULE")
  /\ UNCHANGED workerVars

-----------------------------------------------------------------------------
(* The worker *)

\* findDuePendingReferenceIds: the longest overdue first, at most BatchSize.
Due == {t \in Pending : due[t] <= 0}

Batches ==
  LET size == Min({BatchSize, Cardinality(Due)}) IN
  {b \in [1..size -> Due] :
     /\ \A m, n \in 1..size : m < n => b[m] # b[n] /\ due[b[m]] <= due[b[n]]
     /\ \A t \in Due : (\A n \in 1..size : b[n] # t) => \A n \in 1..size : due[b[n]] <= due[t]}

TickStart(k) ==
  /\ ~ticking[k]
  /\ Due # {}
  /\ \E b \in Batches : batch' = [batch EXCEPT ![k] = b]
  /\ ticking' = [ticking EXCEPT ![k] = TRUE]
  /\ age' = [age EXCEPT ![k] = 0]
  /\ UNCHANGED rowVars

\* Fault: the flag stays set when a tick ends.
Proceed_NoFinally(k) ==
  /\ batch' = [batch EXCEPT ![k] = Tail(@)]
  /\ age' = [age EXCEPT ![k] = IF Len(batch[k]) = 1 THEN 0 ELSE @]
  /\ UNCHANGED ticking

\* On to the next identifier; after the last one the tick ends.
Proceed(k) ==
  /\ batch' = [batch EXCEPT ![k] = Tail(@)]
  /\ age' = [age EXCEPT ![k] = IF Len(batch[k]) = 1 THEN 0 ELSE @]
  /\ ticking' = [ticking EXCEPT ![k] = Len(batch[k]) > 1]

\* Fault: the due time is not looked at again under the row's lock.
StillDue_Unchecked(k, t) == TRUE

\* Of the row read again under its lock, against the time at which the tick began.
StillDue(k, t) == due[t] + age[k] <= 0

\* Fault: the expiry alone ends a wait.
Exhausted_ExpiryOnly(k, t) == life[t] + age[k] <= 0

Exhausted(k, t) == attempts[t] + 1 >= MaxAttempts \/ life[t] + age[k] <= 0

Reschedule(k, t) ==
  /\ attempts' = [attempts EXCEPT ![t] = @ + 1]
  /\ due' = [due EXCEPT ![t] = Delay(attempts[t] + 1) - age[k]]
  /\ UNCHANGED <<status, failure, life>>

RetryNext(k) ==
  LET t == Head(batch[k]) IN
  /\ batch[k] # <<>>
  /\ \/ /\ t \notin Pending \/ ~StillDue(k, t)
        /\ UNCHANGED rowVars
     \/ /\ t \in Pending /\ StillDue(k, t)
        /\ status[Ref[t]] = "PROCESSED"
        /\ Judge(t)
     \/ /\ t \in Pending /\ StillDue(k, t)
        /\ status[Ref[t]] # "PROCESSED"
        /\ IF Exhausted(k, t) THEN SettleAll({}, {t}, "NOT_FOUND") ELSE Reschedule(k, t)
  /\ Proceed(k)

\* An exception rolls the row's transaction back and is logged.
RetryFails(k) ==
  /\ batch[k] # <<>>
  /\ Proceed(k)
  /\ UNCHANGED rowVars

\* The process dies in a tick, or the query of the tick fails; it ticks again later.
Crash(k) ==
  /\ ticking[k]
  /\ batch' = [batch EXCEPT ![k] = <<>>]
  /\ ticking' = [ticking EXCEPT ![k] = FALSE]
  /\ age' = [age EXCEPT ![k] = 0]
  /\ UNCHANGED rowVars

-----------------------------------------------------------------------------
\* A second passes.
Elapse(times) ==
  [t \in Transaction |-> IF t \in Pending THEN Max({times[t] - 1, -MaxAge}) ELSE times[t]]

Second ==
  /\ \A k \in Worker : ticking[k] => age[k] < MaxAge
  /\ due' = Elapse(due)
  /\ life' = Elapse(life)
  /\ age' = [k \in Worker |-> IF ticking[k] THEN age[k] + 1 ELSE 0]
  /\ UNCHANGED <<status, failure, attempts, ticking, batch>>

Next ==
  \/ \E t \in Transaction : Submit(t)
  \/ \E k \in Worker : TickStart(k) \/ RetryNext(k) \/ RetryFails(k) \/ Crash(k)
  \/ Second

Spec == Init /\ [][Next]_vars

\* Time passes, setInterval keeps ticking, and a retry that is attempted again and
\* again succeeds now and then.  Nobody has to submit anything, fail or crash.
Fairness ==
  /\ SF_vars(Second)
  /\ \A k \in Worker : SF_vars(TickStart(k)) /\ SF_vars(RetryNext(k))

FairSpec == Spec /\ Fairness

-----------------------------------------------------------------------------
(* Properties *)

\* A row waits with fewer attempts than the limit and with times within their bounds;
\* a worker has rows to retry exactly while it ticks.
TypeOK ==
  /\ status \in [Transaction -> {"NONE", "PENDING_REFERENCE", "PROCESSED", "REJECTED"}]
  /\ failure \in [Transaction -> {None, "NOT_FOUND", "RULE"}]
  /\ attempts \in [Transaction -> 0..(MaxAttempts - 1)]
  /\ due \in [Transaction -> (-MaxAge)..Max({FirstDelay} \cup {Delay(n) : n \in 1..MaxAttempts})]
  /\ life \in [Transaction -> (-MaxAge)..Expiry]
  /\ ticking \in [Worker -> BOOLEAN]
  /\ batch \in [Worker -> Seq(Transaction)]
  /\ age \in [Worker -> 0..MaxAge]
  /\ \A k \in Worker : ticking[k] <=> batch[k] # <<>>

\* The shortest time in which n retries can find their reference missing and be put off.
Backoff[n \in 0..(MaxAttempts - 1)] ==
  IF n = 0 THEN FirstDelay ELSE Backoff[n - 1] + Delay(n)

\* The shortest time in which all attempts can be used up: 31 with the five of the code.
Patience == Backoff[MaxAttempts - 1]

\* However the ticks of several workers overlap on a row, it is never given up before
\* its whole backoff has passed or its expiry has come: no two overlapping ticks count
\* two attempts for one due time (the recheck of nextReferenceAttemptAt).
NotGivenUpEarly ==
  [][\A t \in Transaction :
       failure[t] = None /\ failure'[t] = "NOT_FOUND"
         => Expiry - life[t] >= Patience \/ life[t] <= 0]_vars

\* Every reversal that waits is settled in the end, PROCESSED or REJECTED, whether its
\* reference comes or not, its retries fail or the workers crash.
EventuallySettled == \A t \in Transaction : t \in Pending ~> t \notin Pending
=============================================================================
