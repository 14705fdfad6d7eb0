------------------------------ MODULE Consumer ------------------------------
(***************************************************************************)
(* WagerTransactionConsumer: instances that poll the FIFO queue of         *)
(* commands, handle each message in one transaction together with its      *)
(* inbox row, and delete it afterwards.  The queue delivers a message      *)
(* again when its visibility timeout expires, and moves it to the          *)
(* dead-letter queue after MaxReceive receives.                            *)
(*                                                                         *)
(* A command is known by its idempotency key, and done[k] is the payload   *)
(* of the transaction stored under key k.  Messages are numbered in the    *)
(* order they were sent.  Their classes:                                   *)
(*   command   a submission ProcessWagerUseCase stores, whatever it decides *)
(*   kind      a command of a kind nobody may submit: stored as REJECTED   *)
(*             without a look at what is stored already                    *)
(*   business  fails for good: bad amount, unknown wallet                  *)
(*   foreign   not JSON, or not a WagerTransactionRequested                *)
(*   broken    fails always, but not as a business error: a field is       *)
(*             missing, or numeric(19,4) cannot hold the amount            *)
(*                                                                         *)
(* execute runs in a savepoint of the consumer's transaction.  Whether a   *)
(* unique violation is raised inside it, where it is caught, or by the     *)
(* flush at the end, where it is not, and whether the inbox row survives   *)
(* the savepoint, depends on what MikroORM flushes when: both may happen.  *)
(***************************************************************************)
EXTENDS Integers, Sequences

CONSTANTS
  Message,     \* numbers, in the order of the queue
  Instance,    \* application instances, each with one consumer
  Class,       \* the class of each message
  Key,         \* its idempotency key
  Payload,     \* its payload
  Group,       \* its message group
  MaxReceive,  \* 5 in the code
  BatchSize,   \* 10 in the code
  None

ASSUME ConstantsAssumption ==
  /\ Message \subseteq Nat
  /\ Class \in [Message -> {"command", "kind", "business", "foreign", "broken"}]
  /\ \A m \in Message : {Key[m], Payload[m], Group[m]} \cap {None} = {}
  /\ MaxReceive \in Nat \ {0} /\ BatchSize \in Nat \ {0}

Keys == {Key[m] : m \in Message}

VARIABLES
  place,     \* where each message is: queued, gone or dlq
  visible,   \* whether the queue may deliver it
  receives,  \* how often it was received; the last one has the valid receipt handle
  mode,      \* of each instance: off, polling, or dead once its loop has thrown
  stopped,   \* the flag set by onModuleDestroy
  batch,     \* the messages of its last receive still to handle, with receipts
  phase,     \* of the first of them: next, run or ack
  found,     \* whether execute found its command stored when it looked
  inbox,     \* committed: table inbox_messages
  done,      \* committed: the payload stored under each key in wager_transactions
  faults     \* history: receives of each message lost to a fault

queueVars == <<place, visible, receives>>
loopVars == <<mode, stopped, batch, phase, found>>
Database == <<inbox, done>>
vars == <<queueVars, loopVars, Database, faults>>

Init ==
  /\ place = [m \in Message |-> "queued"]
  /\ visible = [m \in Message |-> TRUE]
  /\ receives = [m \in Message |-> 0]
  /\ mode = [c \in Instance |-> "off"]
  /\ stopped = [c \in Instance |-> FALSE]
  /\ batch = [c \in Instance |-> <<>>]
  /\ phase = [c \in Instance |-> "next"]
  /\ found = [c \in Instance |-> FALSE]
  /\ inbox = {}
  /\ done = [k \in Keys |-> None]
  /\ faults = [m \in Message |-> 0]

Taken(c) == {batch[c][n].msg : n \in DOMAIN batch[c]}
Current(c) == Head(batch[c])
Blame(M) ==
  faults' = [m \in Message |-> IF m \in M /\ faults[m] < MaxReceive THEN faults[m] + 1 ELSE faults[m]]

-----------------------------------------------------------------------------
(* The queue *)

Queued == {m \in Message : place[m] = "queued"}
InGroup(m) == {n \in Queued : Group[n] = Group[m]}

\* Fault: the redrive policy is missing; nothing limits the receives.
Deliverable_NoLimit(M) ==
  \A m \in M : \A n \in InGroup(m) : visible[n] /\ (n < m => n \in M)

\* A FIFO queue delivers a group in order, and nothing of it while part is in flight.
Deliverable(M) ==
  \A m \in M :
    /\ receives[m] < MaxReceive
    /\ \A n \in InGroup(m) : visible[n] /\ (n < m => n \in M)

\* The visibility timeout of a message expires, whether or not it is being handled.
Expire(m) ==
  /\ m \in Queued /\ ~visible[m]
  /\ visible' = [visible EXCEPT ![m] = TRUE]
  /\ Blame({n \in {m} : \E c \in Instance : n \in Taken(c)})
  /\ UNCHANGED <<place, receives, loopVars, Database>>

\* Fault: the redrive policy is missing; the message starts over.
Redrive_StartsOver(m) ==
  /\ m \in Queued /\ visible[m] /\ receives[m] = MaxReceive
  /\ receives' = [receives EXCEPT ![m] = 0]
  /\ UNCHANGED <<place, visible, loopVars, Database, faults>>

\* A receive finds a message that was received too often.
Redrive(m) ==
  /\ m \in Queued /\ visible[m] /\ receives[m] = MaxReceive
  /\ place' = [place EXCEPT ![m] = "dlq"]
  /\ UNCHANGED <<visible, receives, loopVars, Database, faults>>

-----------------------------------------------------------------------------
(* The polling loop *)

Start(c) ==
  /\ mode[c] = "off"
  /\ mode' = [mode EXCEPT ![c] = "polling"]
  /\ UNCHANGED <<queueVars, stopped, batch, phase, found, Database, faults>>

Polling(c) == mode[c] = "polling" /\ batch[c] = <<>>

\* A receive returns messages s, in their order; the loop drops them if it was stopped
\* meanwhile.
Receive(c) ==
  /\ Polling(c)
  /\ \E k \in 1..BatchSize : \E s \in [1..k -> Queued] :
       LET M == {s[n] : n \in 1..k} IN
       /\ \A i, j \in 1..k : i < j => s[i] < s[j]
       /\ Deliverable(M)
       /\ visible' = [m \in Message |-> visible[m] /\ m \notin M]
       /\ receives' = [m \in Message |-> IF m \in M THEN receives[m] + 1 ELSE receives[m]]
       /\ IF stopped[c]
          THEN /\ mode' = [mode EXCEPT ![c] = "off"]
               /\ stopped' = [stopped EXCEPT ![c] = FALSE]
               /\ Blame(M)
               /\ UNCHANGED batch
          ELSE /\ batch' = [batch EXCEPT ![c] =
                     [n \in 1..k |-> [msg |-> s[n], receipt |-> receives[s[n]] + 1]]]
               /\ UNCHANGED <<mode, stopped, faults>>
  /\ UNCHANGED <<place, phase, found, Database>>

\* send throws: nothing in pollLoop catches it.
ReceiveFails(c) ==
  /\ Polling(c)
  /\ mode' = [mode EXCEPT ![c] = "dead"]
  /\ UNCHANGED <<queueVars, stopped, batch, phase, found, Database, faults>>

\* On to the next message of the batch.
Proceed(c) ==
  /\ batch' = [batch EXCEPT ![c] = Tail(@)]
  /\ phase' = [phase EXCEPT ![c] = "next"]
  /\ found' = [found EXCEPT ![c] = FALSE]
  /\ UNCHANGED <<mode, stopped>>

Stop(c) ==
  /\ mode[c] = "polling" /\ ~stopped[c]
  /\ stopped' = [stopped EXCEPT ![c] = TRUE]
  /\ UNCHANGED <<queueVars, mode, batch, phase, found, Database, faults>>

Down(c) ==
  /\ mode' = [mode EXCEPT ![c] = "off"]
  /\ stopped' = [stopped EXCEPT ![c] = FALSE]
  /\ batch' = [batch EXCEPT ![c] = <<>>]
  /\ phase' = [phase EXCEPT ![c] = "next"]
  /\ found' = [found EXCEPT ![c] = FALSE]
  /\ Blame(Taken(c))
  /\ UNCHANGED <<queueVars, Database>>

\* onModuleDestroy returns between two messages; the rest of the batch is dropped.
Exit(c) == mode[c] = "polling" /\ stopped[c] /\ phase[c] = "next" /\ Down(c)

\* The process dies.
Crash(c) == mode[c] # "off" /\ Down(c)

-----------------------------------------------------------------------------
(* handleMessage *)

Handling(c, label) == mode[c] = "polling" /\ batch[c] # <<>> /\ phase[c] = label

\* Fault: the inbox is not consulted.
Recognised_Never(m) == FALSE

Recognised(m) == m \in inbox

Begin(c) ==
  LET m == Current(c).msg IN
  /\ Handling(c, "next") /\ ~stopped[c]
  /\ IF Class[m] = "foreign" \/ Recognised(m)
     THEN phase' = [phase EXCEPT ![c] = "ack"] /\ UNCHANGED found
     ELSE /\ phase' = [phase EXCEPT ![c] = "run"]
          /\ found' = [found EXCEPT ![c] = Class[m] = "command" /\ done[Key[m]] # None]
  /\ UNCHANGED <<queueVars, mode, stopped, batch, Database, faults>>

Throw(c) == Proceed(c) /\ UNCHANGED <<queueVars, Database, faults>>

\* The transaction ends well, or in a business error: the message is deleted next.
Finish(c) ==
  /\ phase' = [phase EXCEPT ![c] = "ack"]
  /\ found' = [found EXCEPT ![c] = FALSE]
  /\ UNCHANGED <<queueVars, mode, stopped, batch, faults>>

\* Fault: the inbox row is committed before the command.
Store_InboxFirst(c, m) ==
  /\ inbox' = inbox \cup {m}
  /\ \/ done' = [done EXCEPT ![Key[m]] = Payload[m]] /\ Finish(c)
     \/ UNCHANGED <<done, queueVars, faults>> /\ Proceed(c)

\* The command and the inbox row commit together.
Store(c, m) ==
  /\ inbox' = inbox \cup {m}
  /\ done' = [done EXCEPT ![Key[m]] = Payload[m]]
  /\ Finish(c)

\* Fault: the inbox row is kept when execute throws a conflict.
Replay_KeepsInbox(c, m) ==
  /\ inbox' = inbox \cup {m}
  /\ UNCHANGED done
  /\ Finish(c)

\* execute answers with what is stored under the key, or throws a conflict.
Replay(c, m) ==
  /\ inbox' \in IF done[Key[m]] # Payload[m] THEN {inbox}
                ELSE {inbox \cup {m}} \cup (IF found[c] THEN {} ELSE {inbox})
  /\ UNCHANGED done
  /\ Finish(c)

\* An INSERT, of the transaction or of the inbox row, meets a committed one.
Collides(c, m) == IF found[c] THEN m \in inbox ELSE done[Key[m]] # None

\* Fault: every error is taken for a business error.
Run_AcksEverything(c) ==
  /\ Handling(c, "run")
  /\ Finish(c)
  /\ UNCHANGED Database

Run(c) ==
  LET m == Current(c).msg
      stores == Class[m] \in {"command", "kind"}
  IN
  /\ Handling(c, "run")
  /\ \/ Class[m] = "broken" /\ Throw(c)
     \/ Class[m] = "business" /\ Finish(c) /\ UNCHANGED Database
     \/ stores /\ done[Key[m]] = None /\ Store(c, m)
     \/ stores /\ found[c] /\ ~Collides(c, m) /\ Replay(c, m)
     \/ stores /\ ~found[c] /\ Collides(c, m) /\ Replay(c, m)
     \/ stores /\ Collides(c, m) /\ Throw(c)

\* A transient error: the transaction rolls back and the message stays unacknowledged.
Fail(c) ==
  /\ Handling(c, "run")
  /\ Blame({Current(c).msg})
  /\ Proceed(c)
  /\ UNCHANGED <<queueVars, Database>>

\* The delete works with the handle of the last receive, and may work with it after the
\* timeout; otherwise its error is swallowed.
Ack(c) ==
  LET m == Current(c).msg
      valid == m \in Queued /\ Current(c).receipt = receives[m]
  IN
  /\ Handling(c, "ack")
  /\ \/ valid /\ place' = [place EXCEPT ![m] = "gone"]
     \/ ~(valid /\ ~visible[m]) /\ UNCHANGED place
  /\ Proceed(c)
  /\ UNCHANGED <<visible, receives, Database, faults>>

AckFails(c) ==
  /\ Handling(c, "ack")
  /\ Blame({Current(c).msg})
  /\ Proceed(c)
  /\ UNCHANGED <<queueVars, Database>>

\* The same command arrives by HTTP, where OPENING is refused before the use case.
SubmitElsewhere(m) ==
  /\ Class[m] = "command" /\ done[Key[m]] = None
  /\ done' = [done EXCEPT ![Key[m]] = Payload[m]]
  /\ UNCHANGED <<queueVars, loopVars, inbox, faults>>

Loop(c) == Receive(c) \/ Begin(c) \/ Run(c) \/ Ack(c) \/ Exit(c)

Next ==
  \/ \E m \in Message : Expire(m) \/ Redrive(m) \/ SubmitElsewhere(m)
  \/ \E c \in Instance :
       \/ Loop(c) \/ Fail(c) \/ AckFails(c)
       \/ Start(c) \/ Stop(c) \/ Crash(c) \/ ReceiveFails(c)

Spec == Init /\ [][Next]_vars

\* The queue's timeouts run out, a running loop goes on, and an instance that is off is
\* started in the end.  Nothing restarts an instance whose loop is dead.
Fairness ==
  /\ \A m \in Message : SF_vars(Expire(m)) /\ SF_vars(Redrive(m))
  /\ \A c \in Instance : SF_vars(Loop(c)) /\ SF_vars(Receive(c)) /\ WF_vars(Start(c))

FairSpec == Spec /\ Fairness

-----------------------------------------------------------------------------
(* Properties *)

\* Every variable has its type; receipts are those of receives that happened.
TypeOK ==
  /\ place \in [Message -> {"queued", "gone", "dlq"}]
  /\ visible \in [Message -> BOOLEAN]
  /\ receives \in [Message -> 0..MaxReceive]
  /\ mode \in [Instance -> {"off", "polling", "dead"}]
  /\ stopped \in [Instance -> BOOLEAN]
  /\ batch \in [Instance -> Seq([msg : Message, receipt : 1..MaxReceive])]
  /\ phase \in [Instance -> {"next", "run", "ack"}]
  /\ found \in [Instance -> BOOLEAN]
  /\ inbox \subseteq Message
  /\ done \in [Keys -> {Payload[m] : m \in Message} \cup {None}]
  /\ faults \in [Message -> 0..MaxReceive]
  /\ \A c \in Instance : \A n \in DOMAIN batch[c] : batch[c][n].receipt <= receives[batch[c][n].msg]

\* A command leaves the queue for good only after a transaction is stored under its key,
\* whoever stored it and however often it was delivered: no command is lost between a
\* rollback and an acknowledgement (handleMessage acks after the commit).
DeletedOnlyWhenDone ==
  \A m \in Message :
    place[m] = "gone" /\ Class[m] \in {"command", "kind"} => done[Key[m]] # None

\* A message is in the inbox only if its own command is stored: the inbox row shares the
\* fate of the command, also through savepoints and races with another channel.
InboxMeansDone == \A m \in inbox : done[Key[m]] = Payload[m]

\* A message that can be handled is dead-lettered only after faults have cost it its
\* receives.  A race with a copy of itself costs at most one receive more for each
\* fault, since only an expired delivery has a copy; a race with another channel one.
\* A kind nobody may submit has no part in this if its key is used elsewhere: inserted
\* without a look at what is stored, it may collide at every receive.
CanBeHandled(m) ==
  /\ Class[m] # "broken"
  /\ Class[m] = "kind" => \A n \in Message \ {m} : Key[n] # Key[m]
DeadLetterNeedsFaults ==
  \A m \in Message :
    /\ place[m] = "dlq" /\ CanBeHandled(m)
    => 2 * faults[m] + (IF Class[m] = "command" THEN 1 ELSE 0) >= MaxReceive

\* As long as some instance keeps polling now and then, every message leaves the queue,
\* handled or dead-lettered, whatever fails and whoever dies.
MessagesLeave ==
  \A m \in Message :
    ([]<>(\E c \in Instance : Polling(c) /\ ~stopped[c])) => <>(m \notin Queued)
=============================================================================
