---------------------------- MODULE ConsumerProofs ----------------------------
(***************************************************************************)
(* What at-least-once delivery comes to, for every number of consumers and *)
(* messages and every limit on receives: no command is deleted undone, the *)
(* inbox knows only commands that are stored, and a message pays for its   *)
(* way into the dead-letter queue with faults.                             *)
(***************************************************************************)
EXTENDS Consumer, TLAPS

\* The deliveries an instance still has to handle.  One is live while the queue waits for
\* it: it is the last one of its message, and its visibility timeout is running.
Deliveries(c) == {batch[c][n] : n \in DOMAIN batch[c]}
Live(d) == d.receipt = receives[d.msg] /\ ~visible[d.msg]
Exposed(m) == \E c \in Instance : \E d \in Deliveries(c) : d.msg = m /\ Live(d)

Stores(m) == Class[m] \in {"command", "kind"}
Done(m) == done[Key[m]] # None

\* What an instance knows of the message it handles stays true while others act; a
\* delivery that is no longer live has cost its message a fault.
Informed(c) ==
  LET m == Current(c).msg IN
  /\ batch[c] = <<>> => phase[c] = "next"
  /\ phase[c] = "run" =>
       /\ Class[m] # "foreign"
       /\ found[c] => Class[m] = "command" /\ Done(m)
       /\ m \in inbox => faults[m] >= 1
  /\ phase[c] = "ack" /\ Stores(m) => Done(m)
StaleCostsFault(c) == \A d \in Deliveries(c) : ~Live(d) => faults[d.msg] >= 1
OwnReceipts(c) == \A e \in Instance \ {c} : Deliveries(c) \cap Deliveries(e) = {}

\* The fate of a message and its rows.
Accounted(m) ==
  /\ place[m] = "gone" /\ Stores(m) => Done(m)
  /\ m \in inbox => done[Key[m]] = Payload[m]
  /\ Class[m] = "kind" /\ CanBeHandled(m) /\ Done(m) => m \in inbox
  /\ place[m] = "dlq" => receives[m] = MaxReceive /\ visible[m]

\* Besides faults, a message may lose one receive because another channel stored its
\* command meanwhile, and one because a copy of itself put it into the inbox.
Slack(m) ==
  (IF Class[m] = "command" /\ Done(m) THEN 1 ELSE 0)
  + (IF m \in inbox /\ faults[m] >= 1 THEN 1 ELSE 0)

\* Every receive is paid for by a fault or the slack, but for the one under way.  A handler
\* that has looked at the rows can meet only what has changed since.
Paid(m) ==
  CanBeHandled(m) /\ place[m] # "gone" =>
    /\ receives[m] <= faults[m] + Slack(m) + 1
    /\ ~Exposed(m) => receives[m] <= faults[m] + Slack(m)
    /\ \A c \in Instance :
         phase[c] = "run" /\ Current(c).msg = m /\ Live(Current(c))
           => receives[m] <= faults[m] + 1 + (IF found[c] THEN 1 ELSE 0)

ConsumerInv ==
  /\ TypeOK
  /\ \A c \in Instance : Informed(c) /\ StaleCostsFault(c) /\ OwnReceipts(c)
  /\ \A m \in Message : Accounted(m) /\ Paid(m)

-----------------------------------------------------------------------------
\* What handling the first delivery of a batch leaves of it.
LEMMA TailOfBatch ==
  ASSUME NEW S, NEW s \in Seq(S), s # <<>>
  PROVE  /\ Tail(s) \in Seq(S) /\ Head(s) \in S
         /\ 1 \in DOMAIN s /\ Head(s) = s[1]
         /\ DOMAIN Tail(s) = 1..Len(s) - 1
         /\ \A n \in DOMAIN Tail(s) : n + 1 \in DOMAIN s /\ Tail(s)[n] = s[n + 1]
         /\ \A n \in DOMAIN s : n = 1 \/ (n - 1 \in DOMAIN Tail(s) /\ s[n] = Tail(s)[n - 1])
  OBVIOUS

LEMMA ElementsOfBatch ==
  ASSUME NEW S, NEW s \in Seq(S)
  PROVE  \A n \in DOMAIN s : s[n] \in S
  OBVIOUS

LEMMA BlameCounts ==
  ASSUME TypeOK, NEW M, Blame(M)
  PROVE  /\ faults' \in [Message -> 0..MaxReceive]
         /\ \A m \in Message :
              /\ faults'[m] >= faults[m]
              /\ m \in M => faults'[m] >= 1
              /\ m \in M => faults'[m] = faults[m] + 1 \/ faults'[m] = MaxReceive
              /\ m \notin M => faults'[m] = faults[m]
  BY ConstantsAssumption DEF Blame, TypeOK

\* The message an instance handles.
LEMMA CurrentKnown ==
  ASSUME TypeOK, NEW c \in Instance, batch[c] # <<>>
  PROVE  /\ Current(c) \in [msg : Message, receipt : 1..MaxReceive]
         /\ Current(c) \in Deliveries(c)
         /\ Current(c).msg \in Message /\ Current(c).msg \in Taken(c)
         /\ Current(c).receipt \in 1..receives[Current(c).msg]
  <1> DEFINE s == batch[c]
  <1>1. s \in Seq([msg : Message, receipt : 1..MaxReceive])
    BY DEF TypeOK
  <1>2. 1 \in DOMAIN s /\ Head(s) = s[1] /\ Head(s) \in [msg : Message, receipt : 1..MaxReceive]
    BY <1>1, TailOfBatch
  <1>3. batch[c][1].receipt <= receives[batch[c][1].msg] /\ receives \in [Message -> 0..MaxReceive]
    BY <1>2 DEF TypeOK
  <1>4. Current(c) = s[1] /\ s[1].msg \in Message /\ s[1].receipt \in Nat /\ s[1].receipt >= 1
    BY <1>2 DEF Current
  <1>5. s[1] \in Deliveries(c) /\ s[1].msg \in Taken(c)
    BY <1>2 DEF Deliveries, Taken
  <1> QED
    BY <1>2, <1>3, <1>4, <1>5, ConstantsAssumption DEF Current

LEMMA DeliveryKnown ==
  ASSUME TypeOK, NEW c \in Instance, NEW d \in Deliveries(c)
  PROVE  /\ d \in [msg : Message, receipt : 1..MaxReceive]
         /\ d.msg \in Message /\ d.msg \in Taken(c) /\ d.receipt <= receives[d.msg]
  <1>1. PICK n \in DOMAIN batch[c] : d = batch[c][n]
    BY DEF Deliveries
  <1>2. batch[c] \in Seq([msg : Message, receipt : 1..MaxReceive])
    BY DEF TypeOK
  <1>3. batch[c][n] \in [msg : Message, receipt : 1..MaxReceive]
    BY <1>2, ElementsOfBatch
  <1> QED
    BY <1>1, <1>3 DEF Taken, TypeOK

\* Going on to the next message drops one delivery.
LEMMA ProceedDrops ==
  ASSUME TypeOK, NEW c \in Instance, batch[c] # <<>>, Proceed(c)
  PROVE  /\ batch' \in [Instance -> Seq([msg : Message, receipt : 1..MaxReceive])]
         /\ phase' \in [Instance -> {"next", "run", "ack"}] /\ found' \in [Instance -> BOOLEAN]
         /\ phase'[c] = "next"
         /\ Deliveries(c)' \subseteq Deliveries(c)
         /\ Deliveries(c) \subseteq Deliveries(c)' \cup {Current(c)}
         /\ \A n \in DOMAIN batch'[c] : batch'[c][n] \in Deliveries(c)
         /\ \A e \in Instance \ {c} :
              batch'[e] = batch[e] /\ phase'[e] = phase[e] /\ found'[e] = found[e]
  <1> DEFINE s == batch[c]
             D == [msg : Message, receipt : 1..MaxReceive]
  <1>1. s \in Seq(D)
    BY DEF TypeOK
  <1>2. batch'[c] = Tail(s)
    BY DEF Proceed, TypeOK
  <1>3. /\ Tail(s) \in Seq(D) /\ Current(c) = s[1]
        /\ \A n \in DOMAIN Tail(s) : n + 1 \in DOMAIN s /\ Tail(s)[n] = s[n + 1]
        /\ \A n \in DOMAIN s : n = 1 \/ (n - 1 \in DOMAIN Tail(s) /\ s[n] = Tail(s)[n - 1])
    BY <1>1, TailOfBatch DEF Current
  <1>4. /\ batch' \in [Instance -> Seq(D)]
        /\ phase' \in [Instance -> {"next", "run", "ack"}] /\ found' \in [Instance -> BOOLEAN]
        /\ phase'[c] = "next"
        /\ \A e \in Instance \ {c} :
             batch'[e] = batch[e] /\ phase'[e] = phase[e] /\ found'[e] = found[e]
    BY <1>3 DEF Proceed, TypeOK
  <1> HIDE DEF D
  <1>5. \A n \in DOMAIN batch'[c] : batch'[c][n] \in Deliveries(c)
    BY <1>2, <1>3 DEF Deliveries
  <1>6. Deliveries(c)' \subseteq Deliveries(c)
    BY <1>5 DEF Deliveries
  <1>7. Deliveries(c) \subseteq Deliveries(c)' \cup {Current(c)}
    <2> SUFFICES ASSUME NEW n \in DOMAIN s, s[n] # Current(c)
                 PROVE  s[n] \in Deliveries(c)'
      BY DEF Deliveries
    <2>1. n - 1 \in DOMAIN batch'[c] /\ s[n] = batch'[c][n - 1]
      BY <1>2, <1>3
    <2> QED
      BY <2>1 DEF Deliveries
  <1> QED
    BY <1>4, <1>5, <1>6, <1>7 DEF D

-----------------------------------------------------------------------------
\* What no step takes back.
DoneGrows == \A k \in Keys : done[k] # None => done'[k] = done[k]
FaultsGrow == \A m \in Message : faults'[m] >= faults[m]

LEMMA KeysKnown == \A m \in Message : Key[m] \in Keys /\ Payload[m] # None
  BY ConstantsAssumption DEF Keys

\* An instance that does nothing keeps its part, as long as the others cost its deliveries
\* a fault when they outdate them, or put its message into the inbox.
LEMMA InstanceKept ==
  ASSUME ConsumerInv, NEW e \in Instance, TypeOK',
         batch'[e] = batch[e], phase'[e] = phase[e], found'[e] = found[e],
         DoneGrows, FaultsGrow,
         \A d \in Deliveries(e) : ~Live(d)' => ~Live(d) \/ faults'[d.msg] >= 1,
         phase[e] = "run" /\ Current(e).msg \in inbox'
           => Current(e).msg \in inbox \/ faults'[Current(e).msg] >= 1
  PROVE  Informed(e)' /\ StaleCostsFault(e)'
  <1>0. TypeOK /\ Informed(e) /\ StaleCostsFault(e)
    BY DEF ConsumerInv
  <1>1. Current(e)' = Current(e) /\ Deliveries(e)' = Deliveries(e)
    BY DEF Current, Deliveries
  <1>2. \A m \in Message : faults[m] \in Nat /\ faults'[m] \in Nat /\ faults'[m] >= faults[m]
    BY <1>0 DEF FaultsGrow, TypeOK
  <1>3. StaleCostsFault(e)'
    <2> SUFFICES ASSUME NEW d \in Deliveries(e), ~Live(d)'
                 PROVE  faults'[d.msg] >= 1
      BY <1>1 DEF StaleCostsFault
    <2>1. d.msg \in Message
      BY <1>0, DeliveryKnown
    <2>2. ~Live(d) => faults[d.msg] >= 1
      BY <1>0 DEF StaleCostsFault
    <2> QED
      BY <1>2, <2>1, <2>2
  <1>4. Informed(e)'
    <2>1. CASE batch[e] = <<>>
      BY <1>0, <2>1 DEF Informed
    <2>2. CASE batch[e] # <<>>
      <3> DEFINE m == Current(e).msg
      <3>1. m \in Message /\ Key[m] \in Keys
        BY <1>0, <2>2, CurrentKnown, KeysKnown
      <3>2. (done[Key[m]] # None) => (done'[Key[m]] # None)
        BY <3>1 DEF DoneGrows
      <3>3. m \in inbox /\ faults[m] >= 1 => faults'[m] >= 1
        BY <1>2, <3>1
      <3> QED
        BY <1>0, <1>1, <2>2, <3>1, <3>2, <3>3 DEF Informed, Done
    <2> QED
      BY <2>1, <2>2
  <1> QED
    BY <1>3, <1>4

\* The slack of a message only grows.
LEMMA SlackGrows ==
  ASSUME TypeOK, TypeOK', NEW m \in Message, DoneGrows, FaultsGrow, inbox \subseteq inbox'
  PROVE  /\ Slack(m) \in 0..2 /\ Slack(m)' \in 0..2
         /\ Slack(m) <= Slack(m)'
  <1>1. Done(m) => Done(m)'
    BY KeysKnown DEF Done, DoneGrows
  <1>2. m \in inbox /\ faults[m] >= 1 => m \in inbox' /\ faults'[m] >= 1
    BY DEF FaultsGrow, TypeOK
  <1> QED
    BY <1>1, <1>2 DEF Slack

\* A message whose rows and receives do not change is as well paid as before, unless a
\* delivery of its own goes.
LEMMA PaidKept ==
  ASSUME ConsumerInv, TypeOK', NEW m \in Message,
         DoneGrows, FaultsGrow, inbox \subseteq inbox',
         receives'[m] = receives[m], place[m] = "gone" => place'[m] = "gone",
         ~Exposed(m)' => ~Exposed(m) \/ receives[m] <= faults'[m] + Slack(m)',
         \A c \in Instance :
           phase'[c] = "run" /\ Current(c)'.msg = m /\ Live(Current(c))'
             => phase[c] = "run" /\ Current(c) = Current(c)' /\ found'[c] = found[c] /\ Live(Current(c))
  PROVE  Paid(m)'
  <1>0. TypeOK /\ Paid(m)
    BY DEF ConsumerInv
  <1>1. /\ Slack(m) \in 0..2 /\ Slack(m)' \in 0..2 /\ Slack(m) <= Slack(m)'
        /\ receives[m] \in Nat /\ faults[m] \in Nat /\ faults'[m] \in Nat /\ faults'[m] >= faults[m]
    <2>1. Slack(m) \in 0..2 /\ Slack(m)' \in 0..2 /\ Slack(m) <= Slack(m)'
      BY <1>0, SlackGrows
    <2> QED
      BY <1>0, <2>1 DEF FaultsGrow, TypeOK
  <1> SUFFICES ASSUME CanBeHandled(m), place'[m] # "gone"
               PROVE  /\ receives'[m] <= faults'[m] + Slack(m)' + 1
                      /\ ~Exposed(m)' => receives'[m] <= faults'[m] + Slack(m)'
                      /\ \A c \in Instance :
                           phase'[c] = "run" /\ Current(c)'.msg = m /\ Live(Current(c))'
                             => receives'[m] <= faults'[m] + 1 + (IF found'[c] THEN 1 ELSE 0)
    BY DEF Paid, CanBeHandled
  <1>2. /\ receives[m] <= faults[m] + Slack(m) + 1
        /\ ~Exposed(m) => receives[m] <= faults[m] + Slack(m)
    BY <1>0 DEF Paid
  <1>3. ASSUME NEW c \in Instance, phase'[c] = "run", Current(c)'.msg = m, Live(Current(c))'
        PROVE  receives'[m] <= faults'[m] + 1 + (IF found'[c] THEN 1 ELSE 0)
    <2>1. phase[c] = "run" /\ Current(c).msg = m /\ Live(Current(c)) /\ found'[c] = found[c]
      BY <1>3
    <2>2. receives[m] <= faults[m] + 1 + (IF found[c] THEN 1 ELSE 0)
      BY <1>0, <2>1 DEF Paid
    <2> QED
      BY <1>1, <2>1, <2>2
  <1>4. ~Exposed(m)' => receives'[m] <= faults'[m] + Slack(m)'
    <2> HIDE DEF Exposed
    <2> QED
      BY <1>1, <1>2
  <1>5. receives'[m] <= faults'[m] + Slack(m)' + 1
    BY <1>1, <1>2
  <1> QED
    BY <1>3, <1>4, <1>5

-----------------------------------------------------------------------------
\* The end of a delivery: its message is deleted, or the receive is paid for.
LEMMA Dropped ==
  ASSUME ConsumerInv, NEW c \in Instance, batch[c] # <<>>, Proceed(c),
         UNCHANGED <<visible, receives, inbox, done>>,
         place' \in [Message -> {"queued", "gone", "dlq"}],
         faults' \in [Message -> 0..MaxReceive], FaultsGrow,
         NEW m \in Message, m = Current(c).msg,
         \A n \in Message : n # m => place'[n] = place[n],
         place'[m] # place[m] => place'[m] = "gone" /\ (Stores(m) => Done(m)),
         CanBeHandled(m) /\ place'[m] # "gone" /\ Live(Current(c))
           => receives[m] <= faults'[m] + Slack(m)'
  PROVE  ConsumerInv'
  <1>0. TypeOK
    BY DEF ConsumerInv
  <1>1. /\ batch' \in [Instance -> Seq([msg : Message, receipt : 1..MaxReceive])]
        /\ phase' \in [Instance -> {"next", "run", "ack"}] /\ found' \in [Instance -> BOOLEAN]
        /\ phase'[c] = "next"
        /\ Deliveries(c)' \subseteq Deliveries(c)
        /\ Deliveries(c) \subseteq Deliveries(c)' \cup {Current(c)}
        /\ \A n \in DOMAIN batch'[c] : batch'[c][n] \in Deliveries(c)
        /\ \A e \in Instance \ {c} :
             batch'[e] = batch[e] /\ phase'[e] = phase[e] /\ found'[e] = found[e]
    BY <1>0, ProceedDrops
  <1>2. /\ \A e \in Instance : e # c => Deliveries(e)' = Deliveries(e) /\ Current(e)' = Current(e)
        /\ \A d : Live(d)' <=> Live(d)
    BY <1>1 DEF Deliveries, Current, Live
  <1>3. TypeOK'
    <2>1. ASSUME NEW e \in Instance, NEW n \in DOMAIN batch'[e]
          PROVE  batch'[e][n].receipt <= receives'[batch'[e][n].msg]
      <3>1. CASE e = c
        <4>1. batch'[c][n] \in Deliveries(c)
          BY <1>1, <2>1, <3>1
        <4>2. batch'[c][n].receipt <= receives[batch'[c][n].msg]
          BY <1>0, <4>1, DeliveryKnown
        <4> QED
          BY <3>1, <4>2
      <3>2. CASE e # c
        BY <1>0, <1>1, <2>1, <3>2 DEF TypeOK
      <3> QED
        BY <3>1, <3>2
    <2>2. mode' = mode /\ stopped' = stopped
      BY DEF Proceed
    <2> QED
      BY <1>0, <1>1, <2>1, <2>2 DEF TypeOK
  <1>4. DoneGrows
    BY DEF DoneGrows
  <1>5. ASSUME NEW e \in Instance PROVE Informed(e)' /\ StaleCostsFault(e)'
    <2>1. CASE e # c
      <3>1. phase[e] = "run" /\ Current(e).msg \in inbox' => Current(e).msg \in inbox
        OBVIOUS
      <3> QED
        BY <1>1, <1>2, <1>3, <1>4, <2>1, <3>1, InstanceKept
    <2>2. CASE e = c
      <3>1. Informed(c)'
        BY <1>1 DEF Informed
      <3>2. ASSUME NEW d \in Deliveries(c)', ~Live(d) PROVE faults'[d.msg] >= 1
        <4>1. d \in Deliveries(c) /\ d.msg \in Message
          BY <1>0, <1>1, <3>2, DeliveryKnown
        <4>2. faults[d.msg] >= 1
          BY <3>2, <4>1 DEF ConsumerInv, StaleCostsFault
        <4> QED
          BY <1>0, <4>1, <4>2 DEF FaultsGrow, TypeOK
      <3> QED
        BY <1>2, <2>2, <3>1, <3>2 DEF StaleCostsFault
    <2> QED
      BY <2>1, <2>2
  <1>6. ASSUME NEW e \in Instance PROVE OwnReceipts(e)'
    <2>1. \A f \in Instance : Deliveries(f)' \subseteq Deliveries(f)
      BY <1>1, <1>2
    <2>2. OwnReceipts(e)
      BY DEF ConsumerInv
    <2> QED
      BY <2>1, <2>2 DEF OwnReceipts
  <1>7. ASSUME NEW n \in Message PROVE Accounted(n)'
    <2>1. Accounted(n)
      BY DEF ConsumerInv
    <2> QED
      BY <2>1 DEF Accounted, Done, CanBeHandled
  <1>8. ASSUME NEW n \in Message PROVE Paid(n)'
    <2>1. ASSUME Exposed(n), ~Exposed(n)' PROVE n = m /\ Live(Current(c))
      <3>1. PICK e \in Instance : \E d \in Deliveries(e) : d.msg = n /\ Live(d)
        BY <2>1 DEF Exposed
      <3>2. PICK d \in Deliveries(e) : d.msg = n /\ Live(d)
        BY <3>1
      <3>3. d \notin Deliveries(e)'
        BY <1>2, <2>1, <3>2 DEF Exposed
      <3> QED
        BY <1>1, <1>2, <3>2, <3>3
    <2>2. CASE CanBeHandled(n) /\ place'[n] # "gone"
      <3>1. ~Exposed(n)' => ~Exposed(n) \/ receives[n] <= faults'[n] + Slack(n)'
        BY <2>1, <2>2
      <3>2. \A e \in Instance :
              phase'[e] = "run" /\ Current(e)'.msg = n /\ Live(Current(e))'
                => phase[e] = "run" /\ Current(e) = Current(e)' /\ found'[e] = found[e] /\ Live(Current(e))
        <4> SUFFICES ASSUME NEW e \in Instance, phase'[e] = "run", Current(e)'.msg = n, Live(Current(e))'
                     PROVE  phase[e] = "run" /\ Current(e) = Current(e)' /\ found'[e] = found[e] /\ Live(Current(e))
          OBVIOUS
        <4>1. e # c
          BY <1>1
        <4> QED
          BY <1>1, <1>2, <4>1 DEF Live
      <3>3. inbox \subseteq inbox' /\ receives'[n] = receives[n] /\ (place[n] = "gone" => place'[n] = "gone")
        OBVIOUS
      <3> QED
        BY <1>3, <1>4, <3>1, <3>2, <3>3, PaidKept
    <2>3. CASE ~(CanBeHandled(n) /\ place'[n] # "gone")
      BY <2>3 DEF Paid, CanBeHandled
    <2> QED
      BY <2>2, <2>3
  <1> QED
    BY <1>3, <1>5, <1>6, <1>7, <1>8 DEF ConsumerInv

\* The end of a handler's transaction: it may have stored the command, the inbox row, or
\* both, and it goes on to delete the message.
LEMMA Finished ==
  ASSUME ConsumerInv, NEW c \in Instance, Handling(c, "run"), Finish(c),
         NEW m \in Message, m = Current(c).msg,
         \/ done' = done
         \/ done[Key[m]] = None /\ done' = [done EXCEPT ![Key[m]] = Payload[m]] /\ m \in inbox',
         inbox \subseteq inbox', inbox' \subseteq inbox \cup {m},
         m \in inbox' => done'[Key[m]] = Payload[m],
         Stores(m) => Done(m)'
  PROVE  ConsumerInv'
  <1>0. TypeOK /\ batch[c] # <<>> /\ phase[c] = "run"
    BY DEF ConsumerInv, Handling
  <1>1. /\ phase' = [phase EXCEPT ![c] = "ack"] /\ found' = [found EXCEPT ![c] = FALSE]
        /\ UNCHANGED <<place, visible, receives, mode, stopped, batch, faults>>
    BY DEF Finish, queueVars
  <1>2. /\ phase'[c] = "ack"
        /\ \A e \in Instance \ {c} : phase'[e] = phase[e] /\ found'[e] = found[e]
    BY <1>0, <1>1 DEF TypeOK
  <1>3. /\ \A d : Live(d)' <=> Live(d)
        /\ \A e \in Instance : Deliveries(e)' = Deliveries(e) /\ Current(e)' = Current(e)
        /\ \A n : Exposed(n)' <=> Exposed(n)
    BY <1>1 DEF Live, Deliveries, Current, Exposed
  <1>4. done' \in [Keys -> {Payload[n] : n \in Message} \cup {None}] /\ DoneGrows
    <2>1. done \in [Keys -> {Payload[n] : n \in Message} \cup {None}] /\ Key[m] \in Keys
      BY <1>0, KeysKnown DEF TypeOK
    <2>2. Payload[m] \in {Payload[n] : n \in Message}
      OBVIOUS
    <2>3. done' \in [Keys -> {Payload[n] : n \in Message} \cup {None}]
      BY <2>1, <2>2
    <2> QED
      BY <2>1, <2>3 DEF DoneGrows
  <1>5. TypeOK'
    <2>1. phase' \in [Instance -> {"next", "run", "ack"}] /\ found' \in [Instance -> BOOLEAN]
      BY <1>0, <1>1 DEF TypeOK
    <2> QED
      BY <1>0, <1>1, <1>4, <2>1 DEF TypeOK
  <1>6. FaultsGrow
    BY <1>0, <1>1 DEF FaultsGrow, TypeOK
  <1>7. ASSUME NEW e \in Instance PROVE Informed(e)' /\ StaleCostsFault(e)' /\ OwnReceipts(e)'
    <2>1. OwnReceipts(e)'
      BY <1>3 DEF ConsumerInv, OwnReceipts
    <2>2. CASE e # c
      <3>1. ASSUME phase[e] = "run", Current(e).msg \in inbox', Current(e).msg \notin inbox
            PROVE  faults'[Current(e).msg] >= 1
        <4>1. batch[e] # <<>> /\ Current(e).msg = m
          BY <3>1 DEF ConsumerInv, Informed
        <4>2. /\ Current(e) \in Deliveries(e) /\ Current(c) \in Deliveries(c)
              /\ Current(e) \in [msg : Message, receipt : 1..MaxReceive]
              /\ Current(c) \in [msg : Message, receipt : 1..MaxReceive]
          BY <1>0, <4>1, CurrentKnown
        <4>3. Current(e) # Current(c)
          BY <2>2, <4>2 DEF ConsumerInv, OwnReceipts
        <4>4. Current(e).receipt # Current(c).receipt
          BY <4>1, <4>2, <4>3
        <4>5. ~Live(Current(e)) \/ ~Live(Current(c))
          BY <4>1, <4>4 DEF Live
        <4>6. faults[m] >= 1
          BY <4>1, <4>2, <4>5 DEF ConsumerInv, StaleCostsFault
        <4> QED
          BY <1>1, <4>1, <4>6
      <3> QED
        BY <1>1, <1>2, <1>3, <1>4, <1>5, <1>6, <2>1, <2>2, <3>1, InstanceKept
    <2>3. CASE e = c
      <3>1. Informed(c)'
        BY <1>0, <1>1, <1>2, <1>3 DEF Informed
      <3>2. StaleCostsFault(c)'
        BY <1>1, <1>3 DEF ConsumerInv, StaleCostsFault
      <3> QED
        BY <2>1, <2>3, <3>1, <3>2
    <2> QED
      BY <2>2, <2>3
  <1>8. ASSUME NEW n \in Message PROVE Accounted(n)'
    <2>1. Accounted(n) /\ Key[n] \in Keys /\ Key[m] \in Keys /\ Payload[n] # None
      BY KeysKnown DEF ConsumerInv
    <2>2. CASE done' = done
      BY <1>1, <2>1, <2>2 DEF Accounted, Done, CanBeHandled
    <2>3. CASE /\ done[Key[m]] = None /\ m \in inbox'
               /\ done' = [done EXCEPT ![Key[m]] = Payload[m]]
      <3>1. \A k \in Keys : k # Key[m] => done'[k] = done[k]
        BY <1>0, <2>3 DEF TypeOK
      <3>2. Done(n) => Done(n)' /\ done'[Key[n]] = done[Key[n]]
        BY <2>1, <2>3, <3>1 DEF Done
      <3>3. CanBeHandled(n)' = CanBeHandled(n)
        BY DEF CanBeHandled
      <3>4. Class[n] = "kind" /\ CanBeHandled(n) /\ n # m => Key[n] # Key[m]
        BY DEF CanBeHandled
      <3>5. n \in inbox' => done'[Key[n]] = Payload[n]
        BY <2>1, <3>2 DEF Accounted, Done
      <3>6. Class[n] = "kind" /\ CanBeHandled(n) /\ Done(n)' => n \in inbox'
        BY <2>1, <2>3, <3>1, <3>4 DEF Accounted, Done
      <3> QED
        BY <1>1, <2>1, <3>2, <3>3, <3>5, <3>6 DEF Accounted
    <2> QED
      BY <2>2, <2>3
  <1>9. ASSUME NEW n \in Message PROVE Paid(n)'
    <2>1. \A e \in Instance :
            phase'[e] = "run" /\ Current(e)'.msg = n /\ Live(Current(e))'
              => phase[e] = "run" /\ Current(e) = Current(e)' /\ found'[e] = found[e] /\ Live(Current(e))
      BY <1>1, <1>2, <1>3 DEF Live
    <2>2. receives'[n] = receives[n] /\ (place[n] = "gone" => place'[n] = "gone")
      BY <1>1
    <2> QED
      BY <1>3, <1>4, <1>5, <1>6, <2>1, <2>2, PaidKept
  <1> QED
    BY <1>5, <1>7, <1>8, <1>9 DEF ConsumerInv

-----------------------------------------------------------------------------
\* The steps of a handler.
LEMMA RunKeepsInv ==
  ASSUME ConsumerInv, NEW c \in Instance, Run(c)
  PROVE  ConsumerInv'
  <1>0. /\ TypeOK /\ Handling(c, "run") /\ batch[c] # <<>> /\ phase[c] = "run"
        /\ Informed(c) /\ Current(c).msg \in Message /\ Current(c).msg \in Message
    BY CurrentKnown DEF ConsumerInv, Run, Handling
  <1>1. PICK m \in Message : m = Current(c).msg
    BY <1>0
  <1>2. /\ Accounted(m) /\ Paid(m) /\ Key[m] \in Keys /\ Payload[m] # None
        /\ done \in [Keys -> {Payload[n] : n \in Message} \cup {None}]
    BY <1>0, KeysKnown DEF ConsumerInv, TypeOK
  <1>3. /\ Class[m] # "foreign"
        /\ found[c] => Class[m] = "command" /\ Done(m)
        /\ m \in inbox => faults[m] >= 1
    BY <1>0, <1>1 DEF Informed
  <1>4. CASE (Class[m] = "broken" \/ (Stores(m) /\ Collides(c, m))) /\ Throw(c)
    <2>1. /\ Proceed(c)
          /\ UNCHANGED <<place, visible, receives, inbox, done, faults>>
      BY <1>4 DEF Throw, queueVars, Database
    <2>2. FaultsGrow /\ faults' \in [Message -> 0..MaxReceive]
          /\ place' \in [Message -> {"queued", "gone", "dlq"}]
      BY <1>0, <2>1 DEF FaultsGrow, TypeOK
    <2>3. ASSUME CanBeHandled(m), place'[m] # "gone", Live(Current(c))
          PROVE  receives[m] <= faults'[m] + Slack(m)'
      <3>1. Stores(m) /\ Collides(c, m)
        BY <1>4, <2>3 DEF CanBeHandled
      <3>2. receives[m] <= faults[m] + 1 + (IF found[c] THEN 1 ELSE 0)
        BY <1>0, <1>1, <1>2, <2>1, <2>3 DEF Paid
      <3>3. Slack(m)' = Slack(m)
        BY <2>1 DEF Slack, Done
      <3>4. receives[m] \in Nat /\ faults[m] \in Nat /\ faults'[m] = faults[m]
        BY <1>0, <2>1 DEF TypeOK
      <3>5. CASE found[c]
        <4>1. Class[m] = "command" /\ Done(m) /\ m \in inbox /\ faults[m] >= 1
          BY <1>3, <3>1, <3>5 DEF Collides
        <4>2. Slack(m) = 2
          BY <4>1 DEF Slack
        <4> QED
          BY <3>2, <3>3, <3>4, <3>5, <4>2
      <3>6. CASE ~found[c]
        <4>1. Done(m)
          BY <3>1, <3>6 DEF Collides, Done
        <4>2. Class[m] = "kind" => m \in inbox /\ faults[m] >= 1
          BY <1>2, <1>3, <2>3, <4>1 DEF Accounted
        <4>3. Slack(m) \in {1, 2}
          BY <3>1, <4>1, <4>2 DEF Slack, Stores
        <4> QED
          BY <3>2, <3>3, <3>4, <3>6, <4>3
      <3> QED
        BY <3>5, <3>6
    <2>4. place' = place
      BY <2>1
    <2> QED
      BY <1>0, <1>1, <2>1, <2>2, <2>3, <2>4, Dropped
  <1>5. CASE Class[m] = "business" /\ Finish(c) /\ UNCHANGED Database
    <2>1. done' = done /\ inbox' = inbox /\ ~Stores(m)
      BY <1>5 DEF Database, Stores
    <2>2. m \in inbox' => done'[Key[m]] = Payload[m]
      BY <1>2, <2>1 DEF Accounted
    <2> QED
      BY <1>0, <1>1, <1>5, <2>1, <2>2, Finished
  <1>6. CASE Stores(m) /\ done[Key[m]] = None /\ Store(c, m)
    <2>1. /\ Finish(c) /\ inbox' = inbox \cup {m}
          /\ done' = [done EXCEPT ![Key[m]] = Payload[m]] /\ done[Key[m]] = None
      BY <1>6 DEF Store
    <2>2. done'[Key[m]] = Payload[m] /\ Done(m)'
      BY <1>2, <2>1 DEF Done
    <2> QED
      BY <1>0, <1>1, <2>1, <2>2, Finished
  <1>7. CASE /\ Stores(m) /\ Replay(c, m)
             /\ (found[c] /\ ~Collides(c, m)) \/ (~found[c] /\ Collides(c, m))
    <2>1. Done(m)
      BY <1>3, <1>7 DEF Collides, Done
    <2>2. /\ Finish(c) /\ done' = done
          /\ inbox' \in {inbox, inbox \cup {m}}
          /\ m \in inbox' => m \in inbox \/ done[Key[m]] = Payload[m]
      BY <1>7 DEF Replay
    <2>3. m \in inbox' => done'[Key[m]] = Payload[m]
      BY <1>2, <2>2 DEF Accounted
    <2>4. Done(m)'
      BY <2>1, <2>2 DEF Done
    <2> QED
      BY <1>0, <1>1, <2>2, <2>3, <2>4, Finished
  <1> QED
    BY <1>1, <1>4, <1>5, <1>6, <1>7 DEF Run, Stores

LEMMA EndKeepsInv ==
  ASSUME ConsumerInv, NEW c \in Instance, Fail(c) \/ Ack(c) \/ AckFails(c)
  PROVE  ConsumerInv'
  <1>0. /\ TypeOK /\ batch[c] # <<>> /\ Informed(c) /\ Proceed(c)
        /\ UNCHANGED <<visible, receives, inbox, done>>
    BY DEF ConsumerInv, Fail, Ack, AckFails, Handling, queueVars, Database
  <1>1. PICK m \in Message : m = Current(c).msg
    BY <1>0, CurrentKnown
  <1>2. CASE UNCHANGED place /\ Blame({m})
    <2>1. /\ faults' \in [Message -> 0..MaxReceive]
          /\ \A n \in Message : faults'[n] >= faults[n]
          /\ faults'[m] = faults[m] + 1 \/ faults'[m] = MaxReceive
      BY <1>0, <1>2, BlameCounts
    <2>2. FaultsGrow /\ place' \in [Message -> {"queued", "gone", "dlq"}]
      BY <1>0, <1>2, <2>1 DEF FaultsGrow, TypeOK
    <2>3. ASSUME CanBeHandled(m), place'[m] # "gone" PROVE receives[m] <= faults'[m] + Slack(m)'
      <3>1. receives[m] <= faults[m] + Slack(m) + 1
        BY <1>2, <2>3 DEF ConsumerInv, Paid
      <3>2. Slack(m) \in 0..2 /\ Slack(m)' \in 0..2 /\ Slack(m) <= Slack(m)'
        <4>1. (m \in inbox /\ faults[m] >= 1) => (m \in inbox' /\ faults'[m] >= 1)
          BY <1>0, <2>1 DEF TypeOK
        <4>2. Done(m)' <=> Done(m)
          BY <1>0 DEF Done
        <4> QED
          BY <4>1, <4>2 DEF Slack
      <3>3. receives[m] \in 0..MaxReceive /\ faults[m] \in Nat /\ faults'[m] \in Nat /\ MaxReceive \in Nat
        BY <1>0, <2>1, ConstantsAssumption DEF TypeOK
      <3> QED
        BY <2>1, <3>1, <3>2, <3>3
    <2> QED
      BY <1>0, <1>1, <1>2, <2>1, <2>2, <2>3, Dropped
  <1>3. CASE Ack(c)
    <2> DEFINE valid == m \in Queued /\ Current(c).receipt = receives[m]
    <2>1. faults' = faults /\ phase[c] = "ack"
      BY <1>3 DEF Ack, Handling
    <2>2. FaultsGrow /\ faults' \in [Message -> 0..MaxReceive]
      BY <1>0, <2>1 DEF FaultsGrow, TypeOK
    <2>3. Stores(m) => Done(m)
      BY <1>0, <1>1, <2>1 DEF Informed
    <2>4. CASE valid /\ place' = [place EXCEPT ![m] = "gone"]
      <3>1. /\ place' \in [Message -> {"queued", "gone", "dlq"}] /\ place'[m] = "gone"
            /\ \A n \in Message : n # m => place'[n] = place[n]
        BY <1>0, <2>4 DEF TypeOK
      <3> QED
        BY <1>0, <1>1, <2>2, <2>3, <3>1, Dropped
    <2>5. CASE ~(valid /\ ~visible[m]) /\ UNCHANGED place
      <3>1. place' \in [Message -> {"queued", "gone", "dlq"}]
        BY <1>0, <2>5 DEF TypeOK
      <3>2. ASSUME place'[m] # "gone", Live(Current(c)), CanBeHandled(m)
            PROVE  receives[m] <= faults'[m] + Slack(m)'
        <4>1. m \notin Queued
          BY <1>1, <2>5, <3>2 DEF Live
        <4>2. place[m] = "dlq"
          BY <1>0, <2>5, <3>2, <4>1 DEF Queued, TypeOK
        <4> QED
          BY <1>1, <3>2, <4>2 DEF ConsumerInv, Accounted, Live
      <3> QED
        BY <1>0, <1>1, <2>2, <2>5, <3>1, <3>2, Dropped
    <2> QED
      BY <1>1, <1>3, <2>4, <2>5 DEF Ack
  <1> QED
    BY <1>1, <1>2, <1>3 DEF Fail, AckFails, queueVars

LEMMA BeginKeepsInv ==
  ASSUME ConsumerInv, NEW c \in Instance, Begin(c)
  PROVE  ConsumerInv'
  <1>0. /\ TypeOK /\ batch[c] # <<>> /\ phase[c] = "next" /\ Informed(c)
        /\ UNCHANGED <<place, visible, receives, mode, stopped, batch, inbox, done, faults>>
    BY DEF ConsumerInv, Begin, Handling, queueVars, Database
  <1>1. PICK m \in Message : m = Current(c).msg
    BY <1>0, CurrentKnown
  <1>2. PICK label \in {"run", "ack"}, looked \in BOOLEAN :
          /\ phase' = [phase EXCEPT ![c] = label] /\ found' = [found EXCEPT ![c] = looked]
          /\ label = "ack" => Class[m] = "foreign" \/ m \in inbox
          /\ label = "run" => /\ Class[m] # "foreign" /\ m \notin inbox
                              /\ (looked <=> (Class[m] = "command" /\ Done(m)))
    <2>1. CASE Class[m] = "foreign" \/ m \in inbox
      <3>1. phase' = [phase EXCEPT ![c] = "ack"] /\ found' = found
        BY <1>1, <2>1 DEF Begin, Recognised
      <3>2. found[c] \in BOOLEAN /\ found' = [found EXCEPT ![c] = found[c]]
        BY <1>0, <3>1 DEF TypeOK
      <3> QED
        BY <2>1, <3>1, <3>2
    <2>2. CASE ~(Class[m] = "foreign" \/ m \in inbox)
      <3>1. /\ phase' = [phase EXCEPT ![c] = "run"]
            /\ found' = [found EXCEPT ![c] = Class[m] = "command" /\ done[Key[m]] # None]
        BY <1>1, <2>2 DEF Begin, Recognised
      <3> QED
        BY <2>2, <3>1 DEF Done
    <2> QED
      BY <2>1, <2>2
  <1>3. /\ phase'[c] \in {"run", "ack"}
        /\ phase'[c] = "ack" => Class[m] = "foreign" \/ m \in inbox
        /\ phase'[c] = "run" => /\ Class[m] # "foreign" /\ m \notin inbox
                                /\ (found'[c] <=> (Class[m] = "command" /\ Done(m)))
        /\ \A e \in Instance \ {c} : phase'[e] = phase[e] /\ found'[e] = found[e]
    <2>1. phase'[c] = label /\ found'[c] = looked
      BY <1>0, <1>2 DEF TypeOK
    <2>2. \A e \in Instance \ {c} : phase'[e] = phase[e] /\ found'[e] = found[e]
      BY <1>0, <1>2 DEF TypeOK
    <2> QED
      BY <1>2, <2>1, <2>2
  <1>4. /\ \A d : Live(d)' <=> Live(d)
        /\ \A e \in Instance : Deliveries(e)' = Deliveries(e) /\ Current(e)' = Current(e)
        /\ \A n : /\ Exposed(n)' <=> Exposed(n)
                  /\ Done(n)' <=> Done(n)
                  /\ Slack(n)' = Slack(n)
    BY <1>0 DEF Live, Deliveries, Current, Exposed, Done, Slack
  <1>5. TypeOK'
    <2>1. phase' \in [Instance -> {"next", "run", "ack"}] /\ found' \in [Instance -> BOOLEAN]
      BY <1>0, <1>2 DEF TypeOK
    <2> QED
      BY <1>0, <2>1 DEF TypeOK
  <1>6. ASSUME NEW e \in Instance PROVE Informed(e)' /\ StaleCostsFault(e)' /\ OwnReceipts(e)'
    <2>1. StaleCostsFault(e)' /\ OwnReceipts(e)'
      BY <1>0, <1>4 DEF ConsumerInv, StaleCostsFault, OwnReceipts
    <2>2. CASE e = c
      <3>1. m \in inbox => Done(m)
        BY KeysKnown DEF ConsumerInv, Accounted, Done
      <3>2. Current(c)'.msg = m /\ batch'[c] # <<>> /\ (Done(m)' <=> Done(m)) /\ inbox' = inbox
        BY <1>0, <1>1, <1>4
      <3>3. ASSUME phase'[c] = "run"
            PROVE  Class[m] # "foreign" /\ m \notin inbox /\ (found'[c] => Class[m] = "command" /\ Done(m))
        BY <1>3, <3>3, Zenon
      <3>4. phase'[c] = "ack" /\ Stores(m) => Done(m)
        BY <1>3, <3>1 DEF Stores
      <3>5. Informed(c)'
        BY <3>2, <3>3, <3>4 DEF Informed
      <3> QED
        BY <2>1, <2>2, <3>5
    <2>3. CASE e # c
      <3>1. Informed(e)
        BY DEF ConsumerInv
      <3> QED
        BY <1>0, <1>3, <1>4, <2>1, <2>3, <3>1 DEF Informed
    <2> QED
      BY <2>2, <2>3
  <1>7. ASSUME NEW n \in Message PROVE Accounted(n)' /\ Paid(n)'
    <2>1. Accounted(n) /\ Paid(n)
      BY DEF ConsumerInv
    <2>2. Accounted(n)'
      BY <1>0, <1>4, <2>1 DEF Accounted, CanBeHandled
    <2>3. ASSUME CanBeHandled(n), place[n] # "gone", NEW e \in Instance,
                 phase'[e] = "run", Current(e).msg = n, Live(Current(e))
          PROVE  receives[n] <= faults[n] + 1 + (IF found'[e] THEN 1 ELSE 0)
      <3>1. CASE e = c
        <4>1. n = m /\ m \notin inbox /\ (found'[c] <=> (Class[m] = "command" /\ Done(m)))
          BY <1>1, <1>3, <2>3, <3>1, Zenon
        <4>2. Slack(m) = IF found'[c] THEN 1 ELSE 0
          BY <4>1 DEF Slack
        <4>3. receives[m] <= faults[m] + Slack(m) + 1
          BY <2>1, <2>3, <4>1 DEF Paid
        <4>4. receives[m] \in Nat /\ faults[m] \in Nat
          BY <1>0 DEF TypeOK
        <4> QED
          BY <1>3, <3>1, <4>1, <4>2, <4>3, <4>4
      <3>2. CASE e # c
        BY <1>3, <2>1, <2>3, <3>2 DEF Paid
      <3> QED
        BY <3>1, <3>2
    <2> QED
      BY <1>0, <1>4, <2>1, <2>2, <2>3 DEF Paid, CanBeHandled
  <1> QED
    BY <1>5, <1>6, <1>7 DEF ConsumerInv

\* An instance stops, dies or gives up: the receives of what it held are lost.
LEMMA DownKeepsInv ==
  ASSUME ConsumerInv, NEW c \in Instance, Down(c)
  PROVE  ConsumerInv'
  <1>0. /\ TypeOK /\ Blame(Taken(c))
        /\ UNCHANGED <<place, visible, receives, inbox, done>>
    BY DEF ConsumerInv, Down, queueVars, Database
  <1>1. /\ batch' = [batch EXCEPT ![c] = <<>>] /\ phase' = [phase EXCEPT ![c] = "next"]
        /\ found' = [found EXCEPT ![c] = FALSE] /\ stopped' = [stopped EXCEPT ![c] = FALSE]
        /\ mode' = [mode EXCEPT ![c] = "off"]
    BY DEF Down
  <1>2. /\ batch'[c] = <<>> /\ phase'[c] = "next"
        /\ \A e \in Instance \ {c} :
             batch'[e] = batch[e] /\ phase'[e] = phase[e] /\ found'[e] = found[e]
    BY <1>0, <1>1 DEF TypeOK
  <1>3. /\ faults' \in [Message -> 0..MaxReceive]
        /\ \A n \in Message :
             /\ faults'[n] >= faults[n]
             /\ n \in Taken(c) => faults'[n] = faults[n] + 1 \/ faults'[n] = MaxReceive
    BY <1>0, BlameCounts
  <1>4. /\ Deliveries(c)' = {}
        /\ \A e \in Instance : e # c => Deliveries(e)' = Deliveries(e) /\ Current(e)' = Current(e)
        /\ \A d : Live(d)' <=> Live(d)
    BY <1>0, <1>2 DEF Deliveries, Current, Live
  <1>5. TypeOK'
    <2>1. batch' \in [Instance -> Seq([msg : Message, receipt : 1..MaxReceive])]
      <3>1. <<>> \in Seq([msg : Message, receipt : 1..MaxReceive])
        OBVIOUS
      <3> QED
        BY <1>0, <1>1, <3>1 DEF TypeOK
    <2>2. /\ phase' \in [Instance -> {"next", "run", "ack"}] /\ found' \in [Instance -> BOOLEAN]
          /\ stopped' \in [Instance -> BOOLEAN] /\ mode' \in [Instance -> {"off", "polling", "dead"}]
      BY <1>0, <1>1 DEF TypeOK
    <2>3. ASSUME NEW e \in Instance, NEW n \in DOMAIN batch'[e]
          PROVE  batch'[e][n].receipt <= receives'[batch'[e][n].msg]
      <3>1. e # c
        BY <1>2, <2>3
      <3> QED
        BY <1>0, <1>2, <2>3, <3>1 DEF TypeOK
    <2> QED
      BY <1>0, <1>3, <2>1, <2>2, <2>3 DEF TypeOK
  <1>6. DoneGrows /\ FaultsGrow
    BY <1>0, <1>3 DEF DoneGrows, FaultsGrow
  <1>7. ASSUME NEW e \in Instance PROVE Informed(e)' /\ StaleCostsFault(e)' /\ OwnReceipts(e)'
    <2>1. OwnReceipts(e)'
      BY <1>4 DEF ConsumerInv, OwnReceipts
    <2>2. CASE e = c
      BY <1>2, <1>4, <2>1, <2>2 DEF Informed, StaleCostsFault
    <2>3. CASE e # c
      BY <1>0, <1>2, <1>4, <1>5, <1>6, <2>1, <2>3, InstanceKept
    <2> QED
      BY <2>2, <2>3
  <1>8. ASSUME NEW n \in Message PROVE Accounted(n)' /\ Paid(n)'
    <2>1. Accounted(n) /\ Paid(n)
      BY DEF ConsumerInv
    <2>2. Accounted(n)'
      BY <1>0, <2>1 DEF Accounted, Done, CanBeHandled
    <2>3. ASSUME Exposed(n), ~Exposed(n)' PROVE n \in Taken(c)
      <3>1. PICK e \in Instance : \E d \in Deliveries(e) : d.msg = n /\ Live(d)
        BY <2>3 DEF Exposed
      <3>2. e = c
        BY <1>4, <2>3, <3>1 DEF Exposed
      <3> QED
        BY <1>0, <3>1, <3>2, DeliveryKnown
    <2>4. CASE CanBeHandled(n) /\ place[n] # "gone"
      <3>1. ASSUME Exposed(n), ~Exposed(n)' PROVE receives[n] <= faults'[n] + Slack(n)'
        <4>1. receives[n] <= faults[n] + Slack(n) + 1
          BY <2>1, <2>4 DEF Paid
        <4>2. Slack(n) \in 0..2 /\ Slack(n)' \in 0..2 /\ Slack(n) <= Slack(n)'
          BY <1>0, <1>5, <1>6, SlackGrows
        <4>3. faults'[n] = faults[n] + 1 \/ faults'[n] = MaxReceive
          BY <1>3, <2>3, <3>1
        <4>4. receives[n] \in 0..MaxReceive /\ faults[n] \in Nat /\ faults'[n] \in Nat /\ MaxReceive \in Nat
          BY <1>0, <1>3, ConstantsAssumption DEF TypeOK
        <4> QED
          BY <4>1, <4>2, <4>3, <4>4
      <3>2. \A e \in Instance :
              phase'[e] = "run" /\ Current(e)'.msg = n /\ Live(Current(e))'
                => phase[e] = "run" /\ Current(e) = Current(e)' /\ found'[e] = found[e] /\ Live(Current(e))
        <4> SUFFICES ASSUME NEW e \in Instance, phase'[e] = "run", Current(e)'.msg = n, Live(Current(e))'
                     PROVE  phase[e] = "run" /\ Current(e) = Current(e)' /\ found'[e] = found[e] /\ Live(Current(e))
          OBVIOUS
        <4>1. e # c
          BY <1>2
        <4> QED
          BY <1>0, <1>2, <1>4, <4>1 DEF Live
      <3> QED
        BY <1>0, <1>5, <1>6, <2>2, <3>1, <3>2, PaidKept
    <2>5. CASE ~(CanBeHandled(n) /\ place[n] # "gone")
      BY <1>0, <2>2, <2>5 DEF Paid, CanBeHandled
    <2> QED
      BY <2>4, <2>5
  <1> QED
    BY <1>5, <1>7, <1>8 DEF ConsumerInv

-----------------------------------------------------------------------------
\* The steps of the queue and of the other channel.
LEMMA ExpireKeepsInv ==
  ASSUME ConsumerInv, NEW m \in Message, Expire(m)
  PROVE  ConsumerInv'
  <1> DEFINE M == {n \in {m} : \E c \in Instance : n \in Taken(c)}
  <1>0. /\ TypeOK /\ Blame(M) /\ m \in Queued
        /\ visible' = [visible EXCEPT ![m] = TRUE]
        /\ UNCHANGED <<place, receives, mode, stopped, batch, phase, found, inbox, done>>
    BY DEF ConsumerInv, Expire, loopVars, Database
  <1>1. /\ faults' \in [Message -> 0..MaxReceive]
        /\ \A n \in Message :
             /\ faults'[n] >= faults[n]
             /\ n \in M => faults'[n] >= 1 /\ (faults'[n] = faults[n] + 1 \/ faults'[n] = MaxReceive)
    BY <1>0, BlameCounts
  <1>2. /\ visible' \in [Message -> BOOLEAN] /\ visible'[m]
        /\ \A n \in Message : visible[n] => visible'[n]
        /\ \A n \in Message \ {m} : visible'[n] = visible[n]
    BY <1>0 DEF TypeOK
  <1>3. /\ TypeOK'
        /\ DoneGrows
        /\ FaultsGrow
    BY <1>0, <1>1, <1>2 DEF TypeOK, DoneGrows, FaultsGrow
  <1>4. \A e \in Instance : Deliveries(e)' = Deliveries(e) /\ Current(e)' = Current(e)
    BY <1>0 DEF Deliveries, Current
  <1>5. \A d : d.msg \in Message => (Live(d)' => Live(d) /\ d.msg # m) /\ (Live(d) /\ d.msg # m => Live(d)')
    BY <1>0, <1>2 DEF Live
  <1>6. ASSUME NEW e \in Instance PROVE Informed(e)' /\ StaleCostsFault(e)' /\ OwnReceipts(e)'
    <2>1. OwnReceipts(e)'
      BY <1>4 DEF ConsumerInv, OwnReceipts
    <2>2. ASSUME NEW d \in Deliveries(e), ~Live(d)', Live(d) PROVE faults'[d.msg] >= 1
      <3>1. d.msg \in Message /\ d.msg \in Taken(e)
        BY <1>0, DeliveryKnown
      <3>2. d.msg = m
        BY <1>5, <2>2, <3>1
      <3> QED
        BY <1>1, <3>1, <3>2
    <2> QED
      BY <1>0, <1>3, <2>1, <2>2, InstanceKept
  <1>7. ASSUME NEW n \in Message PROVE Accounted(n)' /\ Paid(n)'
    <2>1. Accounted(n) /\ Paid(n)
      BY DEF ConsumerInv
    <2>2. Accounted(n)'
      BY <1>0, <1>2, <2>1 DEF Accounted, Done, CanBeHandled
    <2>3. ASSUME Exposed(n), ~Exposed(n)' PROVE n \in M
      <3>1. PICK e \in Instance : \E d \in Deliveries(e) : d.msg = n /\ Live(d)
        BY <2>3 DEF Exposed
      <3>2. PICK d \in Deliveries(e) : d.msg = n /\ Live(d)
        BY <3>1
      <3>3. ~Live(d)' /\ n \in Taken(e)
        BY <1>0, <1>4, <2>3, <3>2, DeliveryKnown DEF Exposed
      <3> QED
        BY <1>5, <3>2, <3>3
    <2>4. CASE CanBeHandled(n) /\ place[n] # "gone"
      <3>1. ASSUME Exposed(n), ~Exposed(n)' PROVE receives[n] <= faults'[n] + Slack(n)'
        <4>1. receives[n] <= faults[n] + Slack(n) + 1
          BY <2>1, <2>4 DEF Paid
        <4>2. Slack(n) \in 0..2 /\ Slack(n)' \in 0..2 /\ Slack(n) <= Slack(n)'
          BY <1>0, <1>3, SlackGrows
        <4>3. faults'[n] = faults[n] + 1 \/ faults'[n] = MaxReceive
          BY <1>1, <2>3, <3>1
        <4>4. receives[n] \in 0..MaxReceive /\ faults[n] \in Nat /\ faults'[n] \in Nat /\ MaxReceive \in Nat
          BY <1>3, ConstantsAssumption, <1>0 DEF TypeOK, ConsumerInv
        <4> QED
          BY <4>1, <4>2, <4>3, <4>4
      <3>2. \A e \in Instance :
              phase'[e] = "run" /\ Current(e)'.msg = n /\ Live(Current(e))'
                => phase[e] = "run" /\ Current(e) = Current(e)' /\ found'[e] = found[e] /\ Live(Current(e))
        <4> SUFFICES ASSUME NEW e \in Instance, phase'[e] = "run", Current(e)'.msg = n, Live(Current(e))'
                     PROVE  phase[e] = "run" /\ Current(e) = Current(e)' /\ found'[e] = found[e] /\ Live(Current(e))
          OBVIOUS
        <4>1. Current(e)' = Current(e) /\ phase[e] = "run" /\ found'[e] = found[e] /\ Current(e).msg = n
          BY <1>0, <1>4
        <4>2. n # m /\ visible[n] = visible'[n]
          BY <1>0, <1>2, <4>1 DEF Live
        <4> QED
          BY <1>0, <4>1, <4>2 DEF Live
      <3> QED
        BY <1>0, <1>3, <2>2, <3>1, <3>2, PaidKept
    <2>5. CASE ~(CanBeHandled(n) /\ place[n] # "gone")
      BY <1>0, <2>2, <2>5 DEF Paid, CanBeHandled
    <2> QED
      BY <2>4, <2>5
  <1> QED
    BY <1>3, <1>6, <1>7 DEF ConsumerInv

LEMMA RedriveKeepsInv ==
  ASSUME ConsumerInv, NEW m \in Message, Redrive(m)
  PROVE  ConsumerInv'
  <1>0. /\ TypeOK /\ place[m] = "queued" /\ visible[m] /\ receives[m] = MaxReceive
        /\ place' = [place EXCEPT ![m] = "dlq"]
        /\ UNCHANGED <<visible, receives, mode, stopped, batch, phase, found, inbox, done, faults>>
    BY DEF ConsumerInv, Redrive, Queued, loopVars, Database
  <1>1. /\ place' \in [Message -> {"queued", "gone", "dlq"}] /\ place'[m] = "dlq"
        /\ \A n \in Message \ {m} : place'[n] = place[n]
    BY <1>0 DEF TypeOK
  <1>2. TypeOK'
    BY <1>0, <1>1 DEF TypeOK
  <1>3. /\ \A d : Live(d)' <=> Live(d)
        /\ \A e \in Instance : Deliveries(e)' = Deliveries(e) /\ Current(e)' = Current(e)
        /\ \A n : /\ Exposed(n)' <=> Exposed(n)
                  /\ Done(n)' <=> Done(n)
                  /\ Slack(n)' = Slack(n)
    BY <1>0 DEF Live, Deliveries, Current, Exposed, Done, Slack
  <1>4. ASSUME NEW e \in Instance PROVE Informed(e)' /\ StaleCostsFault(e)' /\ OwnReceipts(e)'
    BY <1>0, <1>3 DEF ConsumerInv, Informed, StaleCostsFault, OwnReceipts
  <1>5. ASSUME NEW n \in Message PROVE Accounted(n)' /\ Paid(n)'
    <2>1. Accounted(n) /\ Paid(n)
      BY DEF ConsumerInv
    <2>2. CASE n = m
      BY <1>0, <1>1, <1>3, <2>1, <2>2 DEF Accounted, Paid, CanBeHandled
    <2>3. CASE n # m
      BY <1>0, <1>1, <1>3, <2>1, <2>3 DEF Accounted, Paid, CanBeHandled
    <2> QED
      BY <2>2, <2>3
  <1> QED
    BY <1>2, <1>4, <1>5 DEF ConsumerInv

LEMMA SubmitElsewhereKeepsInv ==
  ASSUME ConsumerInv, NEW m \in Message, SubmitElsewhere(m)
  PROVE  ConsumerInv'
  <1>0. /\ TypeOK /\ Class[m] = "command" /\ done[Key[m]] = None
        /\ done' = [done EXCEPT ![Key[m]] = Payload[m]]
        /\ UNCHANGED <<place, visible, receives, mode, stopped, batch, phase, found, inbox, faults>>
    BY DEF ConsumerInv, SubmitElsewhere, queueVars, loopVars
  <1>1. done \in [Keys -> {Payload[n] : n \in Message} \cup {None}] /\ Key[m] \in Keys
    BY <1>0, KeysKnown DEF TypeOK
  <1>2. /\ done' \in [Keys -> {Payload[n] : n \in Message} \cup {None}]
        /\ \A k \in Keys \ {Key[m]} : done'[k] = done[k]
    BY <1>0, <1>1
  <1>3. TypeOK' /\ DoneGrows /\ FaultsGrow
    <2>1. faults' = faults /\ faults \in [Message -> 0..MaxReceive] /\ MaxReceive \in Nat
      BY <1>0, ConstantsAssumption DEF TypeOK
    <2>2. FaultsGrow
      BY <2>1 DEF FaultsGrow
    <2>3. DoneGrows
      BY <1>0, <1>1, <1>2 DEF DoneGrows
    <2>4. TypeOK'
      <3> DEFINE V == {Payload[n] : n \in Message} \cup {None}
                 S == Seq([msg : Message, receipt : 1..MaxReceive])
      <3>1. done' \in [Keys -> V] /\ batch' \in [Instance -> S]
        BY <1>0, <1>2 DEF TypeOK
      <3> HIDE DEF V, S
      <3> QED
        BY <1>0, <3>1 DEF TypeOK, V, S
    <2> QED
      BY <2>2, <2>3, <2>4
  <1>4. /\ \A d : Live(d)' <=> Live(d)
        /\ \A e \in Instance : Deliveries(e)' = Deliveries(e) /\ Current(e)' = Current(e)
        /\ \A n : Exposed(n)' <=> Exposed(n)
    BY <1>0 DEF Live, Deliveries, Current, Exposed
  <1>5. ASSUME NEW e \in Instance PROVE Informed(e)' /\ StaleCostsFault(e)' /\ OwnReceipts(e)'
    <2>1. OwnReceipts(e)'
      BY <1>4 DEF ConsumerInv, OwnReceipts
    <2> QED
      BY <1>0, <1>3, <1>4, <2>1, InstanceKept
  <1>6. ASSUME NEW n \in Message PROVE Accounted(n)' /\ Paid(n)'
    <2>1. Accounted(n) /\ Key[n] \in Keys /\ Payload[n] # None
      BY KeysKnown DEF ConsumerInv
    <2>2. Done(n) => Done(n)' /\ done'[Key[n]] = done[Key[n]]
      BY <1>0, <1>2, <2>1 DEF Done
    <2>3. Class[n] = "kind" /\ CanBeHandled(n) => Key[n] # Key[m]
      BY <1>0 DEF CanBeHandled
    <2>4. Class[n] = "kind" /\ CanBeHandled(n) => (Done(n)' <=> Done(n))
      BY <1>2, <2>1, <2>3 DEF Done
    <2>5. n \in inbox => done'[Key[n]] = Payload[n]
      BY <2>1, <2>2 DEF Accounted, Done
    <2>6. Accounted(n)'
      BY <1>0, <2>1, <2>2, <2>4, <2>5 DEF Accounted, CanBeHandled
    <2> QED
      BY <1>0, <1>3, <1>4, <2>6, PaidKept
  <1> QED
    BY <1>3, <1>5, <1>6 DEF ConsumerInv

\* Steps of a loop that touch neither messages nor rows.
LEMMA ControlKeepsInv ==
  ASSUME ConsumerInv, UNCHANGED <<queueVars, batch, phase, found, Database, faults>>,
         mode' \in [Instance -> {"off", "polling", "dead"}], stopped' \in [Instance -> BOOLEAN]
  PROVE  ConsumerInv'
  <1>0. UNCHANGED <<place, visible, receives, batch, phase, found, inbox, done, faults>>
    BY DEF queueVars, Database
  <1>1. TypeOK'
    BY <1>0 DEF ConsumerInv, TypeOK
  <1>2. /\ \A d : Live(d)' <=> Live(d)
        /\ \A e \in Instance : Deliveries(e)' = Deliveries(e) /\ Current(e)' = Current(e)
        /\ \A n : /\ Exposed(n)' <=> Exposed(n)
                  /\ Done(n)' <=> Done(n)
                  /\ Slack(n)' = Slack(n)
    BY <1>0 DEF Live, Deliveries, Current, Exposed, Done, Slack
  <1>3. ASSUME NEW e \in Instance PROVE Informed(e)' /\ StaleCostsFault(e)' /\ OwnReceipts(e)'
    BY <1>0, <1>2 DEF ConsumerInv, Informed, StaleCostsFault, OwnReceipts
  <1>4. ASSUME NEW n \in Message PROVE Accounted(n)' /\ Paid(n)'
    BY <1>0, <1>2 DEF ConsumerInv, Accounted, Paid, CanBeHandled
  <1> QED
    BY <1>1, <1>3, <1>4 DEF ConsumerInv

\* What a receive does to the queue: what it takes had no live delivery.
LEMMA ReceiveTakes ==
  ASSUME TypeOK, NEW M \in SUBSET Queued, Deliverable(M),
         visible' = [m \in Message |-> visible[m] /\ m \notin M],
         receives' = [m \in Message |-> IF m \in M THEN receives[m] + 1 ELSE receives[m]]
  PROVE  /\ visible' \in [Message -> BOOLEAN] /\ receives' \in [Message -> 0..MaxReceive]
         /\ \A m \in M : /\ m \in Message /\ place[m] = "queued" /\ visible[m] /\ ~visible'[m]
                         /\ receives[m] + 1 \in 1..MaxReceive /\ receives'[m] = receives[m] + 1
         /\ \A m \in Message \ M : visible'[m] = visible[m] /\ receives'[m] = receives[m]
  <1>1. M \subseteq Message
    BY DEF Queued
  <1>2. ASSUME NEW m \in M
        PROVE  /\ place[m] = "queued" /\ visible[m]
               /\ receives[m] \in Nat /\ receives[m] < MaxReceive
    BY <1>1 DEF Deliverable, InGroup, Queued, TypeOK
  <1>3. visible' \in [Message -> BOOLEAN]
    BY DEF TypeOK
  <1>4. \A m \in M : ~visible'[m] /\ receives'[m] = receives[m] + 1
    BY <1>1
  <1>5. \A m \in Message \ M : visible'[m] = visible[m] /\ receives'[m] = receives[m]
    BY DEF TypeOK
  <1>6. \A m \in M : receives[m] + 1 \in 1..MaxReceive
    BY <1>2, ConstantsAssumption
  <1>7. receives' \in [Message -> 0..MaxReceive]
    <2>1. \A m \in Message : (IF m \in M THEN receives[m] + 1 ELSE receives[m]) \in 0..MaxReceive
      BY <1>6, ConstantsAssumption DEF TypeOK
    <2> QED
      BY <2>1
  <1> QED
    BY <1>1, <1>2, <1>3, <1>4, <1>5, <1>6, <1>7

LEMMA ReceiveKeepsInv ==
  ASSUME ConsumerInv, NEW c \in Instance, Receive(c)
  PROVE  ConsumerInv'
  <1>0. /\ TypeOK /\ batch[c] = <<>> /\ phase[c] = "next" /\ MaxReceive \in Nat /\ BatchSize \in Nat
        /\ UNCHANGED <<place, phase, found, inbox, done>>
    BY ConstantsAssumption DEF ConsumerInv, Informed, Receive, Polling, Database
  <1>1. PICK k \in 1..BatchSize : \E s \in [1..k -> Queued] :
          LET M == {s[n] : n \in 1..k} IN
          /\ Deliverable(M)
          /\ visible' = [m \in Message |-> visible[m] /\ m \notin M]
          /\ receives' = [m \in Message |-> IF m \in M THEN receives[m] + 1 ELSE receives[m]]
          /\ \/ /\ mode' = [mode EXCEPT ![c] = "off"]
                /\ stopped' = [stopped EXCEPT ![c] = FALSE]
                /\ Blame(M)
                /\ UNCHANGED batch
             \/ /\ batch' = [batch EXCEPT ![c] =
                      [n \in 1..k |-> [msg |-> s[n], receipt |-> receives[s[n]] + 1]]]
                /\ UNCHANGED <<mode, stopped, faults>>
    BY DEF Receive
  <1>2. PICK s \in [1..k -> Queued] :
          LET M == {s[n] : n \in 1..k} IN
          /\ Deliverable(M)
          /\ visible' = [m \in Message |-> visible[m] /\ m \notin M]
          /\ receives' = [m \in Message |-> IF m \in M THEN receives[m] + 1 ELSE receives[m]]
          /\ \/ /\ mode' = [mode EXCEPT ![c] = "off"]
                /\ stopped' = [stopped EXCEPT ![c] = FALSE]
                /\ Blame(M)
                /\ UNCHANGED batch
             \/ /\ batch' = [batch EXCEPT ![c] =
                      [n \in 1..k |-> [msg |-> s[n], receipt |-> receives[s[n]] + 1]]]
                /\ UNCHANGED <<mode, stopped, faults>>
    BY <1>1
  <1>3. PICK M \in SUBSET Queued : M = {s[n] : n \in 1..k}
    OBVIOUS
  <1>4. /\ visible' \in [Message -> BOOLEAN] /\ receives' \in [Message -> 0..MaxReceive]
        /\ \A m \in M : /\ m \in Message /\ place[m] = "queued" /\ visible[m] /\ ~visible'[m]
                        /\ receives[m] + 1 \in 1..MaxReceive /\ receives'[m] = receives[m] + 1
        /\ \A m \in Message \ M : visible'[m] = visible[m] /\ receives'[m] = receives[m]
    BY <1>0, <1>2, <1>3, ReceiveTakes
  <1>5. DoneGrows /\ \A n : Done(n)' <=> Done(n)
    BY <1>0 DEF DoneGrows, Done
  <1>6. \A n \in Message : receives[n] \in 0..MaxReceive /\ receives'[n] >= receives[n]
    <2>1. \A n \in Message : receives[n] \in 0..MaxReceive
      BY <1>0 DEF TypeOK
    <2> QED
      BY <1>4, <2>1
  \* Deliveries that were there before are not live any more if their message is taken.
  <1>7. ASSUME NEW e \in Instance, NEW d \in Deliveries(e)
        PROVE  /\ d.msg \in Message /\ (Live(d)' <=> Live(d) /\ d.msg \notin M)
               /\ d.msg \in M => ~Live(d)
    <2>1. d.msg \in Message /\ d.receipt \in 1..MaxReceive /\ d.receipt <= receives[d.msg]
      BY <1>0, DeliveryKnown
    <2>2. CASE d.msg \in M
      <3>1. receives'[d.msg] = receives[d.msg] + 1 /\ visible[d.msg] /\ receives[d.msg] \in Nat
        BY <1>4, <1>6, <2>1, <2>2
      <3> QED
        BY <2>1, <2>2, <3>1 DEF Live
    <2>3. CASE d.msg \notin M
      BY <1>4, <2>1, <2>3 DEF Live
    <2> QED
      BY <2>1, <2>2, <2>3
  <1>8. ASSUME NEW e \in Instance, phase[e] = "run" PROVE e # c /\ Current(e) \in Deliveries(e)
    <2>1. batch[e] # <<>>
      BY <1>0, <1>8 DEF ConsumerInv, Informed
    <2> QED
      BY <1>0, <1>8, <2>1, CurrentKnown
  <1>9. Deliveries(c) = {}
    BY <1>0 DEF Deliveries
  <1>10. CASE /\ mode' = [mode EXCEPT ![c] = "off"] /\ stopped' = [stopped EXCEPT ![c] = FALSE]
              /\ Blame(M) /\ UNCHANGED batch
    <2>1. /\ faults' \in [Message -> 0..MaxReceive]
          /\ \A m \in Message :
               /\ faults'[m] >= faults[m]
               /\ m \in M => faults'[m] = faults[m] + 1 \/ faults'[m] = MaxReceive
               /\ m \notin M => faults'[m] = faults[m]
      BY <1>0, <1>10, BlameCounts
    <2>2. \A e \in Instance : Deliveries(e)' = Deliveries(e) /\ Current(e)' = Current(e)
      BY <1>10 DEF Deliveries, Current
    <2>3. TypeOK'
      <3>1. mode' \in [Instance -> {"off", "polling", "dead"}] /\ stopped' \in [Instance -> BOOLEAN]
        BY <1>0, <1>10 DEF TypeOK
      <3>2. ASSUME NEW e \in Instance, NEW n \in DOMAIN batch[e]
            PROVE  batch[e][n].receipt <= receives'[batch[e][n].msg]
        <4>1. batch[e][n] \in Deliveries(e)
          BY DEF Deliveries
        <4>2. PICK d \in Deliveries(e) : d = batch[e][n]
          BY <4>1
        <4>3. d.msg \in Message /\ d.receipt \in 1..MaxReceive /\ d.receipt <= receives[d.msg]
          BY <1>0, DeliveryKnown
        <4>4. receives'[d.msg] \in Nat /\ receives[d.msg] \in Nat /\ receives'[d.msg] >= receives[d.msg]
          BY <1>4, <1>6, <4>3
        <4> QED
          BY <4>2, <4>3, <4>4
      <3> QED
        BY <1>0, <1>4, <1>10, <2>1, <3>1, <3>2 DEF TypeOK
    <2>4. FaultsGrow
      BY <2>1 DEF FaultsGrow
    <2>5. ASSUME NEW e \in Instance PROVE Informed(e)' /\ StaleCostsFault(e)' /\ OwnReceipts(e)'
      <3>1. OwnReceipts(e)'
        BY <2>2 DEF ConsumerInv, OwnReceipts
      <3>2. \A d \in Deliveries(e) : ~Live(d)' => ~Live(d)
        BY <1>7
      <3>3. batch'[e] = batch[e]
        BY <1>10
      <3> QED
        BY <1>0, <1>5, <2>3, <2>4, <3>1, <3>2, <3>3, InstanceKept
    <2>6. ASSUME NEW n \in Message PROVE Accounted(n)' /\ Paid(n)'
      <3>1. Accounted(n) /\ Paid(n)
        BY DEF ConsumerInv
      <3>2. Accounted(n)'
        BY <1>0, <1>4, <1>5, <3>1 DEF Accounted, CanBeHandled
      <3>3. \A e \in Instance :
              phase'[e] = "run" /\ Current(e)'.msg = n /\ Live(Current(e))'
                => /\ phase[e] = "run" /\ Current(e) = Current(e)' /\ found'[e] = found[e]
                   /\ Live(Current(e)) /\ n \notin M
        <4> SUFFICES ASSUME NEW e \in Instance, phase[e] = "run", Current(e)'.msg = n, Live(Current(e))'
                     PROVE  Live(Current(e)) /\ n \notin M
          BY <1>0, <2>2
        <4>1. PICK d \in Deliveries(e) : d = Current(e)
          BY <1>8
        <4>2. Current(e)' = d /\ d.msg = n
          BY <2>2, <4>1
        <4>3. Live(d)'
          BY <4>2 DEF Live
        <4> QED
          BY <1>7, <4>1, <4>2, <4>3
      <3>4. CASE n \notin M
        <4>1. Exposed(n) => Exposed(n)'
          BY <1>7, <2>2, <3>4 DEF Exposed
        <4> QED
          BY <1>0, <1>4, <1>5, <2>3, <2>4, <3>2, <3>3, <3>4, <4>1, PaidKept
      <3>5. CASE n \in M /\ CanBeHandled(n)
        <4>1. ~Exposed(n) /\ place[n] # "gone"
          BY <1>4, <1>7, <3>5 DEF Exposed
        <4>2. receives[n] <= faults[n] + Slack(n)
          BY <3>1, <3>5, <4>1 DEF Paid
        <4>3. Slack(n) \in 0..2 /\ Slack(n)' \in 0..2 /\ Slack(n) <= Slack(n)'
          BY <1>0, <1>5, <2>3, <2>4, SlackGrows
        <4>4. /\ faults[n] \in Nat /\ faults'[n] \in Nat /\ receives'[n] = receives[n] + 1
              /\ receives'[n] \in 0..MaxReceive /\ receives[n] \in Nat
              /\ faults'[n] = faults[n] + 1 \/ faults'[n] = MaxReceive
          BY <1>0, <1>4, <1>6, <2>1, <3>5 DEF TypeOK
        <4>5. receives'[n] <= faults'[n] + Slack(n)'
          BY <1>0, <4>2, <4>3, <4>4
        <4>6. receives'[n] <= faults'[n] + Slack(n)' + 1
          BY <4>3, <4>4, <4>5
        <4> QED
          BY <3>2, <3>3, <3>5, <4>5, <4>6 DEF Paid
      <3>6. CASE ~CanBeHandled(n)
        BY <3>2, <3>6 DEF Paid, CanBeHandled
      <3> QED
        BY <3>4, <3>5, <3>6
    <2> QED
      BY <2>3, <2>5, <2>6 DEF ConsumerInv
  <1>11. CASE /\ batch' = [batch EXCEPT ![c] =
                     [n \in 1..k |-> [msg |-> s[n], receipt |-> receives[s[n]] + 1]]]
              /\ UNCHANGED <<mode, stopped, faults>>
    <2> DEFINE new == [n \in 1..k |-> [msg |-> s[n], receipt |-> receives[s[n]] + 1]]
               D == [msg : Message, receipt : 1..MaxReceive]
    <2>1. \A n \in 1..k : s[n] \in M /\ new[n] = [msg |-> s[n], receipt |-> receives[s[n]] + 1] /\ new[n] \in D
      BY <1>3, <1>4
    <2>2. new \in Seq(D) /\ DOMAIN new = 1..k
      <3>1. k \in Nat
        BY <1>0
      <3> HIDE DEF D
      <3> QED
        BY <2>1, <3>1
    <2>3. batch'[c] = new /\ \A e \in Instance \ {c} : batch'[e] = batch[e]
      BY <1>0, <1>11 DEF TypeOK
    <2>4. \A e \in Instance \ {c} : Deliveries(e)' = Deliveries(e) /\ Current(e)' = Current(e)
      BY <2>3 DEF Deliveries, Current
    <2>5. /\ \A d \in Deliveries(c)' : d.msg \in M /\ d.receipt = receives[d.msg] + 1
          /\ \A m \in M : \E d \in Deliveries(c)' : d.msg = m
      <3> HIDE DEF new, D
      <3>1. Deliveries(c)' = {new[n] : n \in 1..k}
        <4>1. Deliveries(c)' = {batch'[c][n] : n \in DOMAIN batch'[c]}
          BY DEF Deliveries
        <4>2. batch'[c] = new /\ DOMAIN new = 1..k
          BY <2>2, <2>3
        <4> QED
          BY <4>1, <4>2, ZenonT(30)
      <3>2. ASSUME NEW n \in 1..k PROVE new[n].msg = s[n] /\ new[n].receipt = receives[s[n]] + 1
        <4>1. new[n] = [msg |-> s[n], receipt |-> receives[s[n]] + 1]
          BY <2>1
        <4> QED
          BY <4>1
      <3> QED
        BY <1>3, <2>1, <3>1, <3>2
    <2>6. \A d \in Deliveries(c)' : Live(d)'
      BY <1>4, <2>5 DEF Live
    <2>7. TypeOK'
      <3>1. batch' \in [Instance -> Seq(D)]
        <4> HIDE DEF new, D
        <4>1. batch \in [Instance -> Seq(D)]
          BY <1>0 DEF TypeOK, D
        <4>2. batch' = [batch EXCEPT ![c] = new]
          BY <1>11 DEF new
        <4> QED
          BY <2>2, <4>1, <4>2
      <3>2. ASSUME NEW e \in Instance, NEW n \in DOMAIN batch'[e]
            PROVE  batch'[e][n].receipt <= receives'[batch'[e][n].msg]
        <4>1. CASE e = c
          <5>1. n \in 1..k /\ batch'[e][n] = new[n]
            BY <2>2, <2>3, <3>2, <4>1
          <5>2. s[n] \in M /\ new[n].msg = s[n] /\ new[n].receipt = receives[s[n]] + 1
            BY <2>1, <5>1
          <5>3. receives'[s[n]] = receives[s[n]] + 1 /\ receives[s[n]] \in Nat
            BY <1>4, <1>6, <5>2
          <5> HIDE DEF new
          <5> QED
            BY <5>1, <5>2, <5>3
        <4>2. CASE e # c
          <5>1. batch'[e] = batch[e]
            BY <2>3, <4>2
          <5>2. batch[e][n] \in Deliveries(e)
            BY <3>2, <5>1 DEF Deliveries
          <5>3. PICK d \in Deliveries(e) : d = batch[e][n]
            BY <5>2
          <5>4. d.msg \in Message /\ d.receipt \in 1..MaxReceive /\ d.receipt <= receives[d.msg]
            BY <1>0, DeliveryKnown
          <5>5. receives'[d.msg] \in Nat /\ receives[d.msg] \in Nat /\ receives'[d.msg] >= receives[d.msg]
            BY <1>4, <1>6, <5>4
          <5> QED
            BY <5>1, <5>3, <5>4, <5>5
        <4> QED
          BY <4>1, <4>2
      <3> QED
        BY <1>0, <1>4, <1>11, <3>1, <3>2 DEF TypeOK
    <2> HIDE DEF new, D
    <2>8. FaultsGrow /\ faults' = faults
      BY <1>0, <1>11 DEF FaultsGrow, TypeOK
    <2>9. ASSUME NEW e \in Instance PROVE Informed(e)' /\ StaleCostsFault(e)' /\ OwnReceipts(e)'
      <3>1. ASSUME NEW f \in Instance \ {c} PROVE Deliveries(c)' \cap Deliveries(f) = {}
        <4> SUFFICES ASSUME NEW d \in Deliveries(f), d \in Deliveries(c)' PROVE FALSE
          OBVIOUS
        <4>1. d.msg \in Message /\ d.receipt <= receives[d.msg] /\ d.receipt = receives[d.msg] + 1
          BY <1>0, <2>5, DeliveryKnown
        <4>2. receives[d.msg] \in Nat
          BY <1>6, <4>1
        <4> QED
          BY <4>1, <4>2
      <3>2. OwnReceipts(e)'
        BY <2>4, <3>1 DEF ConsumerInv, OwnReceipts
      <3>3. CASE e = c
        <4>1. batch'[c] # <<>>
          BY <2>2, <2>3
        <4>2. Informed(c)'
          BY <1>0, <4>1 DEF Informed
        <4> QED
          BY <2>6, <3>2, <3>3, <4>2 DEF StaleCostsFault
      <3>4. CASE e # c
        <4>1. \A d \in Deliveries(e) : ~Live(d)' => ~Live(d)
          BY <1>7
        <4> QED
          BY <1>0, <1>5, <2>3, <2>7, <2>8, <3>2, <3>4, <4>1, InstanceKept
      <3> QED
        BY <3>3, <3>4
    <2>10. ASSUME NEW n \in Message PROVE Accounted(n)' /\ Paid(n)'
      <3>1. Accounted(n) /\ Paid(n)
        BY DEF ConsumerInv
      <3>2. Accounted(n)'
        BY <1>0, <1>4, <1>5, <3>1 DEF Accounted, CanBeHandled
      <3>3. \A e \in Instance :
              phase'[e] = "run" /\ Current(e)'.msg = n /\ Live(Current(e))'
                => /\ phase[e] = "run" /\ Current(e) = Current(e)' /\ found'[e] = found[e]
                   /\ Live(Current(e)) /\ n \notin M
        <4> SUFFICES ASSUME NEW e \in Instance, phase[e] = "run", Current(e)'.msg = n, Live(Current(e))'
                     PROVE  Current(e)' = Current(e) /\ Live(Current(e)) /\ n \notin M
          BY <1>0
        <4>1. PICK d \in Deliveries(e) : d = Current(e)
          BY <1>8
        <4>2. Current(e)' = d /\ d.msg = n
          BY <1>8, <2>4, <4>1
        <4>3. Live(d)'
          BY <4>2 DEF Live
        <4> QED
          BY <1>7, <4>1, <4>2, <4>3
      <3>4. CASE n \notin M
        <4>1. Exposed(n) => Exposed(n)'
          <5> SUFFICES ASSUME NEW e \in Instance, NEW d \in Deliveries(e), d.msg = n, Live(d)
                       PROVE  Exposed(n)'
            BY DEF Exposed
          <5>1. e # c
            BY <1>9
          <5> QED
            BY <1>7, <2>4, <3>4, <5>1 DEF Exposed
        <4> QED
          BY <1>0, <1>4, <1>5, <2>7, <2>8, <3>2, <3>3, <3>4, <4>1, PaidKept
      <3>5. CASE n \in M /\ CanBeHandled(n)
        <4>1. ~Exposed(n) /\ place[n] # "gone"
          BY <1>4, <1>7, <3>5 DEF Exposed
        <4>2. receives[n] <= faults[n] + Slack(n)
          BY <3>1, <3>5, <4>1 DEF Paid
        <4>3. Slack(n) \in 0..2 /\ Slack(n)' = Slack(n)
          BY <1>0, <1>5, <2>8 DEF Slack
        <4>4. faults[n] \in Nat /\ receives'[n] = receives[n] + 1 /\ receives[n] \in Nat
          BY <1>0, <1>4, <1>6, <3>5 DEF TypeOK
        <4>5. receives'[n] <= faults'[n] + Slack(n)' + 1
          BY <2>8, <4>2, <4>3, <4>4
        <4>6. Exposed(n)'
          BY <2>5, <2>6, <3>5 DEF Exposed
        <4> QED
          BY <3>2, <3>3, <3>5, <4>5, <4>6 DEF Paid
      <3>6. CASE ~CanBeHandled(n)
        BY <3>2, <3>6 DEF Paid, CanBeHandled
      <3> QED
        BY <3>4, <3>5, <3>6
    <2> QED
      BY <2>7, <2>9, <2>10 DEF ConsumerInv
  <1> QED
    BY <1>2, <1>3, <1>10, <1>11

-----------------------------------------------------------------------------
LEMMA InitConsumerInv == Init => ConsumerInv
  <1> SUFFICES ASSUME Init PROVE ConsumerInv
    OBVIOUS
  <1>1. TypeOK
    <2>1. <<>> \in Seq([msg : Message, receipt : 1..MaxReceive])
      OBVIOUS
    <2>2. batch \in [Instance -> Seq([msg : Message, receipt : 1..MaxReceive])]
      BY <2>1 DEF Init
    <2> QED
      BY <2>2, ConstantsAssumption DEF Init, TypeOK
  <1>2. \A c \in Instance : batch[c] = <<>> /\ Deliveries(c) = {} /\ phase[c] = "next"
    BY DEF Init, Deliveries
  <1>3. \A c \in Instance : Informed(c) /\ StaleCostsFault(c) /\ OwnReceipts(c)
    BY <1>2 DEF Informed, StaleCostsFault, OwnReceipts
  <1>4. ASSUME NEW m \in Message PROVE Accounted(m) /\ Paid(m)
    <2>1. ~Done(m)
      BY KeysKnown DEF Init, Done
    <2>2. m \notin inbox /\ receives[m] = 0 /\ faults[m] = 0 /\ place[m] = "queued"
      BY DEF Init
    <2>3. Slack(m) = 0
      BY <2>1, <2>2 DEF Slack
    <2> QED
      BY <1>2, <2>1, <2>2, <2>3 DEF Accounted, Paid
  <1> QED
    BY <1>1, <1>3, <1>4 DEF ConsumerInv

LEMMA NextConsumerInv == ConsumerInv /\ [Next]_vars => ConsumerInv'
  <1> SUFFICES ASSUME ConsumerInv, [Next]_vars PROVE ConsumerInv'
    OBVIOUS
  <1>0. TypeOK
    BY DEF ConsumerInv
  <1>1. CASE UNCHANGED vars
    BY <1>0, <1>1, ControlKeepsInv DEF vars, loopVars, TypeOK
  <1>2. ASSUME NEW c \in Instance, Start(c) \/ Stop(c) \/ ReceiveFails(c)
        PROVE  ConsumerInv'
    <2>1. UNCHANGED <<queueVars, batch, phase, found, Database, faults>>
      BY <1>2 DEF Start, Stop, ReceiveFails
    <2>2. mode' \in [Instance -> {"off", "polling", "dead"}] /\ stopped' \in [Instance -> BOOLEAN]
      BY <1>0, <1>2 DEF Start, Stop, ReceiveFails, TypeOK
    <2> QED
      BY <2>1, <2>2, ControlKeepsInv
  <1>3. ASSUME NEW c \in Instance, Exit(c) \/ Crash(c) PROVE ConsumerInv'
    BY <1>3, DownKeepsInv DEF Exit, Crash
  <1> QED
    BY <1>1, <1>2, <1>3, ExpireKeepsInv, RedriveKeepsInv, SubmitElsewhereKeepsInv,
       ReceiveKeepsInv, BeginKeepsInv, RunKeepsInv, EndKeepsInv DEF Next, Loop

LEMMA ConsumerInvHolds == Spec => []ConsumerInv
  BY InitConsumerInv, NextConsumerInv, PTL DEF Spec

-----------------------------------------------------------------------------
\* The types of the variables, for any number of messages, instances and receives.
THEOREM TypeCorrect == Spec => []TypeOK
  <1>1. ConsumerInv => TypeOK
    BY DEF ConsumerInv
  <1> QED
    BY <1>1, ConsumerInvHolds, PTL

\* handleMessage deletes a command only behind the commit that stored it, or that found it
\* stored: whatever is delivered twice, dropped or collides, none is lost.
THEOREM DeletedCommandsAreDone == Spec => []DeletedOnlyWhenDone
  <1>1. ConsumerInv => DeletedOnlyWhenDone
    BY DEF ConsumerInv, Accounted, Stores, Done, DeletedOnlyWhenDone
  <1> QED
    BY <1>1, ConsumerInvHolds, PTL

\* A row of the inbox commits only together with its command, or finds it stored with the
\* same payload, so a message that the inbox makes the consumer skip is done.
THEOREM InboxIsTrue == Spec => []InboxMeansDone
  <1>1. ConsumerInv => InboxMeansDone
    BY DEF ConsumerInv, TypeOK, Accounted, InboxMeansDone
  <1> QED
    BY <1>1, ConsumerInvHolds, PTL

\* For every limit on receives: what a message pays for the dead-letter queue is faults,
\* but for one receive lost to another channel and one to its own copies.
THEOREM DeadLettersArePaidFor == Spec => []DeadLetterNeedsFaults
  <1>1. ConsumerInv => DeadLetterNeedsFaults
    <2> SUFFICES ASSUME ConsumerInv, NEW m \in Message, place[m] = "dlq", CanBeHandled(m)
                 PROVE  2 * faults[m] + (IF Class[m] = "command" THEN 1 ELSE 0) >= MaxReceive
      BY DEF DeadLetterNeedsFaults
    <2>1. receives[m] = MaxReceive /\ visible[m]
      BY DEF ConsumerInv, Accounted
    <2>2. ~Exposed(m)
      BY <2>1 DEF Exposed, Live, ConsumerInv
    <2>3. receives[m] <= faults[m] + Slack(m)
      BY <2>2 DEF ConsumerInv, Paid
    <2>4. faults[m] \in Nat /\ MaxReceive \in Nat
      BY ConstantsAssumption DEF ConsumerInv, TypeOK
    <2>5. Slack(m) <= (IF Class[m] = "command" THEN 1 ELSE 0) + (IF faults[m] >= 1 THEN 1 ELSE 0)
      BY <2>4 DEF Slack
    <2>6. Slack(m) \in 0..2
      BY DEF Slack
    <2> QED
      BY <2>1, <2>3, <2>4, <2>5, <2>6
  <1> QED
    BY <1>1, ConsumerInvHolds, PTL
=============================================================================
