----------------------- MODULE OutboxPublisherProofs -----------------------
(***************************************************************************)
(* At-least-once publication, for every number of events and publishers:   *)
(* what is marked published was delivered, and a row is delivered again    *)
(* only as often as an accepted send was not recorded.                     *)
(***************************************************************************)
EXTENDS OutboxPublisher, FiniteSetTheorems, TLAPS

\* A row whose send is recorded, for good or in a transaction that is still open.
Recorded(e) == e \in published \/ \E p \in Publisher : mark[p][e] = "published"

\* A publisher that is not in a tick holds no rows; a row is held by one publisher, and
\* not any more once it is published (FOR UPDATE SKIP LOCKED, published_at IS NULL).
Held ==
  /\ \A p \in Publisher : ~ticking[p] => claimed[p] = {}
  /\ \A p \in Publisher : claimed[p] \cap published = {}
  /\ \A p, q \in Publisher : p # q => claimed[p] \cap claimed[q] = {}

\* A delivery is recorded or lost.  Only one of them is recorded, since a row is not sent
\* again while it is; the queue knows a row only from a delivery.
Balanced(e) ==
  /\ Copies(e) <= lost[e] + 1
  /\ ~Recorded(e) => Copies(e) <= lost[e]
  /\ e \in window \/ Recorded(e) => Copies(e) >= 1
  /\ lost[e] <= faults

PublisherInv == TypeOK /\ Held /\ \A e \in Event : Balanced(e)

-----------------------------------------------------------------------------
\* The positions at which an event stands in the queue are finitely many, and one more
\* once it is delivered again.
Positions(s, f) == {n \in DOMAIN s : s[n] = f}

LEMMA PositionsFinite ==
  ASSUME NEW s \in Seq(Event), NEW f
  PROVE  IsFiniteSet(Positions(s, f)) /\ Cardinality(Positions(s, f)) \in Nat
  <1>1. Len(s) \in Nat /\ DOMAIN s = 1..Len(s)
    OBVIOUS
  <1>2. IsFiniteSet(1..Len(s))
    BY <1>1, FS_Interval
  <1>3. Positions(s, f) \subseteq 1..Len(s)
    BY <1>1 DEF Positions
  <1> QED
    BY <1>2, <1>3, FS_Subset, FS_CardinalityType

LEMMA OneMorePosition ==
  ASSUME NEW s \in Seq(Event), NEW e \in Event, NEW f \in Event, NEW t, t = s \o <<e>>
  PROVE  /\ e = f => Cardinality(Positions(t, f)) = Cardinality(Positions(s, f)) + 1
         /\ e # f => Positions(t, f) = Positions(s, f)
  <1> DEFINE S == Positions(s, f)
             T == Positions(t, f)
             k == Len(s) + 1
  <1>1. /\ Len(s) \in Nat /\ DOMAIN s = 1..Len(s) /\ DOMAIN t = 1..k
        /\ t[k] = e /\ \A n \in 1..Len(s) : t[n] = s[n]
    OBVIOUS
  <1>2. k \notin S /\ k \in DOMAIN t /\ DOMAIN t = DOMAIN s \cup {k}
    BY <1>1 DEF Positions
  <1>3. T = IF e = f THEN S \cup {k} ELSE S
    BY <1>1, <1>2 DEF Positions
  <1>4. IsFiniteSet(S) /\ Cardinality(S) \in Nat
    BY PositionsFinite
  <1>5. Cardinality(S \cup {k}) = Cardinality(S) + 1
    BY <1>2, <1>4, FS_AddElement
  <1> HIDE DEF S, T
  <1>6. e = f => Cardinality(T) = Cardinality(S) + 1
    BY <1>3, <1>5
  <1>7. e # f => T = S
    BY <1>3
  <1> QED
    BY <1>6, <1>7 DEF S, T

LEMMA Appended ==
  ASSUME NEW s \in Seq(Event), NEW e \in Event PROVE s \o <<e>> \in Seq(Event)
  OBVIOUS

LEMMA CopiesKnown == ASSUME TypeOK, NEW e PROVE Copies(e) \in Nat
  BY PositionsFinite DEF TypeOK, Copies, Positions

\* What is counted, apart from the other variables.
LEMMA Counted ==
  ASSUME PublisherInv
  PROVE  /\ MaxFaults \in Nat /\ faults \in Nat /\ faults <= MaxFaults
         /\ lost \in [Event -> 0..MaxFaults]
         /\ \A e \in Event : Copies(e) \in Nat /\ lost[e] \in Nat /\ lost[e] <= faults
  <1>1. TypeOK /\ \A e \in Event : lost[e] <= faults
    BY DEF PublisherInv, Balanced
  <1>2. MaxFaults \in Nat /\ faults \in 0..MaxFaults /\ lost \in [Event -> 0..MaxFaults]
    BY <1>1, ConstantsAssumption DEF TypeOK
  <1>3. \A e \in Event : Copies(e) \in Nat
    BY <1>1, CopiesKnown
  <1>4. \A e \in Event : lost[e] \in Nat
    BY <1>2
  <1> QED
    BY <1>1, <1>2, <1>3, <1>4

\* A message the queue accepts has been delivered; nothing else is.
LEMMA AcceptDelivers ==
  ASSUME PublisherInv, NEW e \in Event, Accept(e)
  PROVE  /\ log' \in Seq(Event) /\ window' \subseteq Event
         /\ e \in window' /\ window' \subseteq window \cup {e}
         /\ Copies(e)' \in {Copies(e), Copies(e) + 1} /\ Copies(e)' >= 1
         /\ \A f \in Event : f # e => Copies(f)' = Copies(f)
  <1>0. TypeOK /\ Balanced(e) /\ Copies(e) \in Nat
    BY CopiesKnown DEF PublisherInv
  <1>1. CASE e \in window /\ UNCHANGED queueVars
    <2>1. log' = log /\ window' = window
      BY <1>1 DEF queueVars
    <2>2. \A f : Copies(f)' = Copies(f)
      BY <2>1 DEF Copies
    <2> QED
      BY <1>0, <1>1, <2>1, <2>2 DEF TypeOK, Balanced
  <1>2. CASE log' = log \o <<e>> /\ window' = window \cup {e}
    <2>1. log \in Seq(Event)
      BY <1>0 DEF TypeOK
    <2>2. log' \in Seq(Event)
      BY <1>2, <2>1, Appended
    <2>3. PICK s \in Seq(Event) : s = log
      BY <2>1
    <2>4. PICK t : t = log' /\ t = s \o <<e>>
      BY <1>2, <2>3
    <2>5. /\ Cardinality(Positions(t, e)) = Cardinality(Positions(s, e)) + 1
          /\ \A f \in Event : e # f => Positions(t, f) = Positions(s, f)
      <3>1. ASSUME NEW f \in Event
            PROVE  /\ e = f => Cardinality(Positions(t, f)) = Cardinality(Positions(s, f)) + 1
                   /\ e # f => Positions(t, f) = Positions(s, f)
        BY <2>4, OneMorePosition, ZenonT(30)
      <3> QED
        BY <3>1
    <2>6. ASSUME NEW f \in Event
          PROVE  /\ Copies(f)  = Cardinality(Positions(s, f))
                 /\ Copies(f)' = Cardinality(Positions(t, f))
      BY <2>3, <2>4 DEF Copies, Positions
    <2>7. Copies(e)' = Copies(e) + 1
      BY <2>5, <2>6
    <2>8. \A f \in Event : f # e => Copies(f)' = Copies(f)
      BY <2>5, <2>6
    <2>9. window' \subseteq Event /\ e \in window' /\ window' \subseteq window \cup {e}
      BY <1>0, <1>2 DEF TypeOK
    <2> QED
      BY <1>0, <2>2, <2>7, <2>8, <2>9
  <1> QED
    BY <1>1, <1>2 DEF Accept

\* The steps that record nothing, send nothing and lose nothing leave the balance alone.
LEMMA NothingSent ==
  ASSUME PublisherInv, UNCHANGED <<published, mark, log, lost, faults>>, window' \subseteq window
  PROVE  \A e \in Event : Balanced(e)'
  <1>1. ASSUME NEW e \in Event PROVE Balanced(e)'
    <2>1. Balanced(e)
      BY DEF PublisherInv
    <2>2. Copies(e)' = Copies(e) /\ (Recorded(e)' <=> Recorded(e))
      BY DEF Copies, Recorded
    <2> QED
      BY <2>1, <2>2 DEF Balanced
  <1> QED
    BY <1>1

LEMMA StoreKeepsInv ==
  ASSUME PublisherInv, NEW e \in Event, Store(e) PROVE PublisherInv'
  <1>1. TypeOK /\ Held
    BY DEF PublisherInv
  <1>2. /\ stored \subseteq stored' /\ stored' \subseteq Event
        /\ UNCHANGED <<published, putOff, ticking, claimed, mark, log, window, lost, faults>>
    BY <1>1 DEF Store, TypeOK, tickVars, queueVars
  <1>3. claimed' \in [Publisher -> SUBSET stored']
    BY <1>1, <1>2 DEF TypeOK
  <1>4. TypeOK'
    BY <1>1, <1>2, <1>3 DEF TypeOK
  <1>5. Held'
    BY <1>1, <1>2 DEF Held
  <1> QED
    BY <1>2, <1>4, <1>5, NothingSent DEF PublisherInv

LEMMA TimeKeepsInv ==
  ASSUME PublisherInv, NEW e \in Event, DueAgain(e) \/ Forget(e) PROVE PublisherInv'
  <1>1. TypeOK /\ Held
    BY DEF PublisherInv
  <1>2. /\ putOff' \subseteq putOff /\ window' \subseteq window
        /\ UNCHANGED <<stored, published, ticking, claimed, mark, log, lost, faults>>
    BY DEF DueAgain, Forget, rowVars, tickVars, queueVars
  <1>3. TypeOK'
    BY <1>1, <1>2 DEF TypeOK
  <1>4. Held'
    BY <1>1, <1>2 DEF Held
  <1> QED
    BY <1>2, <1>3, <1>4, NothingSent DEF PublisherInv

\* SKIP LOCKED: a tick takes rows that are not published and that nobody holds.
LEMMA TickKeepsInv ==
  ASSUME PublisherInv, NEW p \in Publisher, Tick(p) PROVE PublisherInv'
  <1>1. TypeOK /\ Held
    BY DEF PublisherInv
  <1>2. PICK M \in SUBSET Due : claimed' = [claimed EXCEPT ![p] = M]
    BY DEF Tick
  <1>3. /\ ticking' = [ticking EXCEPT ![p] = TRUE] /\ ~ticking[p]
        /\ UNCHANGED <<stored, published, putOff, mark, log, window, lost, faults>>
    BY DEF Tick, rowVars, queueVars
  <1>4. /\ M \subseteq stored /\ M \cap published = {}
        /\ \A q \in Publisher : M \cap claimed[q] = {}
    BY <1>2 DEF Due, Locked
  <1>5. claimed[p] = {}
    BY <1>1, <1>3 DEF Held
  <1>6. /\ claimed' \in [Publisher -> SUBSET stored'] /\ ticking' \in [Publisher -> BOOLEAN]
        /\ \A q \in Publisher : claimed'[q] = IF q = p THEN M ELSE claimed[q]
        /\ \A q \in Publisher : ticking'[q] = IF q = p THEN TRUE ELSE ticking[q]
    BY <1>1, <1>2, <1>3, <1>4 DEF TypeOK
  <1>7. TypeOK'
    BY <1>1, <1>3, <1>5, <1>6 DEF TypeOK
  <1>8. Held'
    BY <1>1, <1>3, <1>4, <1>6 DEF Held
  <1> QED
    BY <1>3, <1>7, <1>8, NothingSent DEF PublisherInv

\* The row that is being sent is recorded nowhere: it is held by this publisher only.
LEMMA UnsentIsUnrecorded ==
  ASSUME PublisherInv, NEW p \in Publisher, NEW e \in Oldest(p)
  PROVE  e \in Event /\ e \in claimed[p] /\ ~Recorded(e)
  <1>1. TypeOK /\ Held
    BY DEF PublisherInv
  <1>2. e \in claimed[p] /\ mark[p][e] = "none"
    BY DEF Oldest, Unsent
  <1>3. e \in Event /\ e \notin published
    BY <1>1, <1>2 DEF TypeOK, Held
  <1>4. \A q \in Publisher : q # p => e \notin claimed[q]
    BY <1>1, <1>2 DEF Held
  <1>5. \A q \in Publisher : mark[q][e] # "published"
    BY <1>1, <1>2, <1>3, <1>4 DEF TypeOK
  <1> QED
    BY <1>2, <1>3, <1>5 DEF Recorded

\* What a mark set by p on the row e changes.
LEMMA Marking ==
  ASSUME TypeOK, NEW p \in Publisher, NEW e \in Event, e \in claimed[p],
         NEW what \in {"published", "put off"}, mark' = [mark EXCEPT ![p][e] = what],
         UNCHANGED <<claimed, published>>, ~Recorded(e)
  PROVE  /\ mark' \in [Publisher -> [Event -> {"none", "published", "put off"}]]
         /\ \A q \in Publisher, f \in Event : mark'[q][f] # "none" => f \in claimed'[q]
         /\ Recorded(e)' <=> what = "published"
         /\ \A f \in Event : f # e => (Recorded(f)' <=> Recorded(f))
  <1>1. mark' \in [Publisher -> [Event -> {"none", "published", "put off"}]]
    BY DEF TypeOK
  <1>2. /\ mark'[p][e] = what
        /\ \A q \in Publisher, f \in Event : q # p \/ f # e => mark'[q][f] = mark[q][f]
    BY DEF TypeOK
  <1>3. \A q \in Publisher, f \in Event : mark'[q][f] # "none" => f \in claimed'[q]
    BY <1>2 DEF TypeOK
  <1>4. Recorded(e)' <=> what = "published"
    <2>1. e \notin published' /\ \A q \in Publisher : mark[q][e] # "published"
      BY DEF Recorded
    <2>2. \A q \in Publisher : q # p => mark'[q][e] # "published"
      BY <1>2, <2>1
    <2> QED
      BY <1>2, <2>1, <2>2 DEF Recorded
  <1>5. ASSUME NEW f \in Event, f # e PROVE Recorded(f)' <=> Recorded(f)
    <2>1. \A q \in Publisher : mark'[q][f] = mark[q][f]
      BY <1>2, <1>5
    <2> QED
      BY <2>1 DEF Recorded
  <1> QED
    BY <1>1, <1>3, <1>4, <1>5

LEMMA SendKeepsInv ==
  ASSUME PublisherInv, NEW p \in Publisher, Send(p) PROVE PublisherInv'
  <1>1. PICK e \in Oldest(p) : Sent(p, e) \/ NotSent(p, e)
    BY DEF Send
  <1>2. UNCHANGED <<stored, published, putOff, ticking, claimed>>
    BY DEF Send, rowVars
  <1>3. TypeOK /\ Held /\ \A f \in Event : Balanced(f)
    BY DEF PublisherInv
  <1>4. e \in Event /\ e \in claimed[p] /\ ~Recorded(e)
    BY UnsentIsUnrecorded
  <1>5. Held'
    BY <1>2, <1>3 DEF Held
  <1>6. \A f \in Event : Copies(f) \in Nat /\ lost[f] \in Nat
    BY Counted
  <1>7. MaxFaults \in Nat /\ faults \in Nat /\ faults <= MaxFaults
    BY Counted
  <1>8. \A f \in Event : lost[f] <= faults
    BY Counted
  <1>9. lost \in [Event -> 0..MaxFaults] /\ lost \in [Event -> Int]
    BY Counted
  <1>10. CASE Sent(p, e)
    <2>1. mark' = [mark EXCEPT ![p][e] = "published"] /\ lost' = lost /\ faults' = faults
      BY <1>10 DEF Sent
    <2>2. /\ log' \in Seq(Event) /\ window' \subseteq Event
          /\ e \in window' /\ window' \subseteq window \cup {e}
          /\ Copies(e)' \in {Copies(e), Copies(e) + 1} /\ Copies(e)' >= 1
          /\ \A f \in Event : f # e => Copies(f)' = Copies(f)
      BY <1>4, <1>10, AcceptDelivers DEF Sent
    <2>3. /\ mark' \in [Publisher -> [Event -> {"none", "published", "put off"}]]
          /\ \A q \in Publisher, f \in Event : mark'[q][f] # "none" => f \in claimed'[q]
          /\ Recorded(e)' /\ \A f \in Event : f # e => (Recorded(f)' <=> Recorded(f))
      BY <1>2, <1>3, <1>4, <2>1, Marking
    <2>4. TypeOK'
      BY <1>2, <1>3, <2>1, <2>2, <2>3 DEF TypeOK
    <2>5. Balanced(e)'
      <3>1. Copies(e) <= lost[e] /\ Copies(e) \in Nat /\ lost[e] \in Nat
        BY <1>3, <1>4, <1>6 DEF Balanced
      <3>2. Copies(e)' <= lost'[e] + 1 /\ lost'[e] <= faults'
        BY <1>4, <1>8, <2>1, <2>2, <3>1
      <3> QED
        BY <2>2, <2>3, <3>2 DEF Balanced
    <2>6. ASSUME NEW f \in Event, f # e PROVE Balanced(f)'
      <3>1. Copies(f)' = Copies(f) /\ (Recorded(f)' <=> Recorded(f)) /\ (f \in window' => f \in window)
        BY <2>2, <2>3, <2>6
      <3> QED
        BY <1>3, <2>1, <3>1 DEF Balanced
    <2> QED
      BY <1>5, <2>4, <2>5, <2>6 DEF PublisherInv
  <1>11. CASE NotSent(p, e)
    <2>1. mark' = [mark EXCEPT ![p][e] = "put off"]
      BY <1>11 DEF NotSent
    <2>2. faults < MaxFaults /\ faults' = faults + 1
      BY <1>11 DEF NotSent, Fault
    <2>3. faults' \in Nat /\ faults' <= MaxFaults
      BY <1>7, <2>2
    <2>4. /\ mark' \in [Publisher -> [Event -> {"none", "published", "put off"}]]
          /\ \A q \in Publisher, f \in Event : mark'[q][f] # "none" => f \in claimed'[q]
          /\ ~Recorded(e)' /\ \A f \in Event : f # e => (Recorded(f)' <=> Recorded(f))
      BY <1>2, <1>3, <1>4, <2>1, Marking
    <2>5. /\ log' \in Seq(Event) /\ window' \subseteq Event /\ window' \subseteq window \cup {e}
          /\ \A f \in Event : f # e => Copies(f)' = Copies(f) /\ lost'[f] = lost[f]
          /\ lost' \in [Event -> Int] /\ lost'[e] \in {lost[e], lost[e] + 1}
          /\ Copies(e)' <= lost'[e] /\ (e \in window' => Copies(e)' >= 1)
          /\ Copies(e)' \in Nat
      <3>1. CASE Accept(e) /\ lost' = [lost EXCEPT ![e] = @ + 1]
        <4>1. /\ log' \in Seq(Event) /\ window' \subseteq Event /\ window' \subseteq window \cup {e}
              /\ Copies(e)' \in {Copies(e), Copies(e) + 1} /\ Copies(e)' >= 1
              /\ \A f \in Event : f # e => Copies(f)' = Copies(f)
          BY <1>4, <3>1, AcceptDelivers
        <4>2. /\ lost' \in [Event -> Int] /\ lost'[e] = lost[e] + 1
              /\ \A f \in Event : f # e => lost'[f] = lost[f]
          BY <1>4, <3>1, Counted
        <4>3. Copies(e) <= lost[e]
          BY <1>3, <1>4 DEF Balanced
        <4>4. Copies(e)' <= lost'[e] /\ Copies(e)' \in Nat
          BY <1>4, <1>6, <4>1, <4>2, <4>3
        <4> QED
          BY <4>1, <4>2, <4>4
      <3>2. CASE UNCHANGED <<queueVars, lost>>
        <4>1. log' = log /\ window' = window /\ lost' = lost
          BY <3>2 DEF queueVars
        <4>2. Copies(e) \in Nat /\ \A f : Copies(f)' = Copies(f)
          BY <1>4, <1>6, <4>1 DEF Copies
        <4>3. Copies(e) <= lost[e] /\ (e \in window => Copies(e) >= 1)
          BY <1>3, <1>4 DEF Balanced
        <4>4. /\ log' \in Seq(Event) /\ window' \subseteq Event
              /\ lost' \in [Event -> Int] /\ lost'[e] = lost[e]
          BY <1>3, <1>9, <4>1 DEF TypeOK
        <4> QED
          BY <4>1, <4>2, <4>3, <4>4
      <3> QED
        BY <1>11, <3>1, <3>2 DEF NotSent
    <2>6. \A f \in Event : lost'[f] \in Nat /\ lost'[f] <= faults'
      <3>1. \A f \in Event : lost[f] \in Nat /\ lost[f] <= faults
        BY <1>6, <1>8
      <3>2. lost'[e] \in Nat /\ lost'[e] <= faults'
        <4>1. lost[e] \in Nat /\ lost[e] <= faults
          BY <1>4, <3>1
        <4>2. lost'[e] = lost[e] \/ lost'[e] = lost[e] + 1
          BY <2>5
        <4> QED
          BY <1>7, <2>2, <4>1, <4>2
      <3>3. ASSUME NEW f \in Event, f # e PROVE lost'[f] \in Nat /\ lost'[f] <= faults'
        <4>1. lost'[f] = lost[f] /\ lost[f] \in Nat /\ lost[f] <= faults
          BY <2>5, <3>1, <3>3
        <4> QED
          BY <1>7, <2>2, <4>1
      <3> QED
        BY <3>2, <3>3
    <2>7. faults' \in 0..MaxFaults /\ lost' \in [Event -> 0..MaxFaults]
      <3>1. faults' \in Nat /\ faults' <= MaxFaults /\ MaxFaults \in Nat
        BY <1>7, <2>3
      <3>2. \A f \in Event : lost'[f] \in 0..MaxFaults
        BY <2>6, <3>1
      <3>3. lost' \in [Event -> 0..MaxFaults]
        BY <2>5, <3>2
      <3> QED
        BY <3>1, <3>3
    <2>8. TypeOK'
      BY <1>2, <1>3, <2>4, <2>5, <2>7 DEF TypeOK
    <2>9. Balanced(e)'
      <3>1. lost'[e] <= faults' /\ lost'[e] \in Nat
        BY <1>4, <2>6
      <3>2. Copies(e)' <= lost'[e] /\ (e \in window' => Copies(e)' >= 1) /\ ~Recorded(e)'
        BY <2>4, <2>5
      <3>3. Copies(e)' \in Nat
        BY <2>5
      <3>4. Copies(e)' <= lost'[e] + 1
        BY <3>1, <3>2, <3>3
      <3> QED
        BY <3>1, <3>2, <3>4 DEF Balanced
    <2>10. ASSUME NEW f \in Event, f # e PROVE Balanced(f)'
      <3>1. /\ Copies(f)' = Copies(f) /\ (Recorded(f)' <=> Recorded(f))
            /\ (f \in window' => f \in window) /\ lost'[f] = lost[f] /\ lost'[f] <= faults'
        BY <2>4, <2>5, <2>6, <2>10
      <3> QED
        BY <1>3, <3>1 DEF Balanced
    <2> QED
      BY <1>5, <2>8, <2>9, <2>10 DEF PublisherInv
  <1> QED
    BY <1>1, <1>10, <1>11

\* The end of a transaction: p holds nothing, and has marked nothing.
LEMMA Unlocking ==
  ASSUME TypeOK, Held, NEW p \in Publisher, Unlock(p), stored' = stored
  PROVE  /\ claimed' \in [Publisher -> SUBSET stored']
         /\ mark' \in [Publisher -> [Event -> {"none", "published", "put off"}]]
         /\ claimed'[p] = {} /\ \A e \in Event : mark'[p][e] = "none"
         /\ \A q \in Publisher : q # p => claimed'[q] = claimed[q] /\ mark'[q] = mark[q]
         /\ \A q \in Publisher, e \in Event : mark'[q][e] # "none" => e \in claimed'[q]
  <1>1. claimed' = [claimed EXCEPT ![p] = {}]
    BY DEF Unlock
  <1>2. mark' = [mark EXCEPT ![p] = [e \in Event |-> "none"]]
    BY DEF Unlock
  <1>3. /\ claimed' \in [Publisher -> SUBSET stored'] /\ claimed'[p] = {}
        /\ \A q \in Publisher : q # p => claimed'[q] = claimed[q]
    BY <1>1 DEF TypeOK
  <1>4. mark' \in [Publisher -> [Event -> {"none", "published", "put off"}]]
    BY <1>2 DEF TypeOK
  <1>5. \A e \in Event : mark'[p][e] = "none"
    BY <1>2 DEF TypeOK
  <1>6. \A q \in Publisher : q # p => mark'[q] = mark[q]
    BY <1>2 DEF TypeOK
  <1>7. \A q \in Publisher, e \in Event : mark'[q][e] # "none" => e \in claimed'[q]
    BY <1>3, <1>5, <1>6 DEF TypeOK
  <1> QED
    BY <1>3, <1>4, <1>5, <1>6, <1>7

\* What is committed as published was recorded before, and nothing else is.
LEMMA CommitKeepsInv ==
  ASSUME PublisherInv, NEW p \in Publisher, Commit(p) PROVE PublisherInv'
  <1>1. TypeOK /\ Held /\ \A e \in Event : Balanced(e)
    BY DEF PublisherInv
  <1>2. /\ published' = published \cup Marked(p, "published")
        /\ putOff' = putOff \cup Marked(p, "put off")
        /\ ticking' = [ticking EXCEPT ![p] = FALSE]
        /\ UNCHANGED <<stored, log, window, lost, faults>> /\ Unlock(p)
    BY DEF Commit, queueVars
  <1>3. /\ claimed' \in [Publisher -> SUBSET stored']
        /\ mark' \in [Publisher -> [Event -> {"none", "published", "put off"}]]
        /\ claimed'[p] = {} /\ \A e \in Event : mark'[p][e] = "none"
        /\ \A q \in Publisher : q # p => claimed'[q] = claimed[q] /\ mark'[q] = mark[q]
        /\ \A q \in Publisher, e \in Event : mark'[q][e] # "none" => e \in claimed'[q]
    BY <1>1, <1>2, Unlocking
  <1>4. /\ ticking' \in [Publisher -> BOOLEAN]
        /\ \A q \in Publisher : q # p => ticking'[q] = ticking[q]
    BY <1>1, <1>2 DEF TypeOK
  <1>5. claimed[p] \subseteq stored
    BY <1>1 DEF TypeOK
  <1>6. published' \subseteq stored' /\ putOff' \subseteq stored'
    BY <1>1, <1>2, <1>5 DEF TypeOK, Marked
  <1>7. TypeOK'
    BY <1>1, <1>2, <1>3, <1>4, <1>6 DEF TypeOK
  <1>8. Held'
    <2>1. \A q \in Publisher : ~ticking'[q] => claimed'[q] = {}
      BY <1>1, <1>3, <1>4 DEF Held
    <2>2. \A q \in Publisher : claimed'[q] \cap published' = {}
      BY <1>1, <1>2, <1>3 DEF Held, Marked
    <2>3. \A q, r \in Publisher : q # r => claimed'[q] \cap claimed'[r] = {}
      BY <1>1, <1>3 DEF Held
    <2> QED
      BY <2>1, <2>2, <2>3 DEF Held
  <1>9. ASSUME NEW e \in Event PROVE Balanced(e)'
    <2>1. Copies(e)' = Copies(e)
      BY <1>2 DEF Copies
    <2>2. Recorded(e)' => Recorded(e)
      BY <1>2, <1>3 DEF Recorded, Marked
    <2>3. ASSUME Recorded(e) PROVE Recorded(e)'
      <3>1. CASE e \in published
        BY <1>2, <3>1 DEF Recorded
      <3>2. CASE \E q \in Publisher : mark[q][e] = "published"
        <4>1. PICK q \in Publisher : mark[q][e] = "published"
          BY <3>2
        <4>2. CASE q = p
          <5>1. e \in claimed[p]
            BY <1>1, <4>1, <4>2 DEF TypeOK
          <5> QED
            BY <1>2, <4>1, <4>2, <5>1 DEF Recorded, Marked
        <4>3. CASE q # p
          BY <1>3, <4>1, <4>3 DEF Recorded
        <4> QED
          BY <4>2, <4>3
      <3> QED
        BY <2>3, <3>1, <3>2 DEF Recorded
    <2> QED
      BY <1>1, <1>2, <2>1, <2>2, <2>3 DEF Balanced
  <1> QED
    BY <1>7, <1>8, <1>9 DEF PublisherInv

\* A transaction that rolls back turns the sends it recorded into lost ones.
LEMMA AbortKeepsInv ==
  ASSUME PublisherInv, NEW p \in Publisher, Abort(p) PROVE PublisherInv'
  <1>1. TypeOK /\ Held /\ \A e \in Event : Balanced(e)
    BY DEF PublisherInv
  <1>2. /\ lost' = [e \in Event |-> lost[e] + (IF e \in Marked(p, "published") THEN 1 ELSE 0)]
        /\ UNCHANGED <<stored, published, putOff, log, window>> /\ Unlock(p)
        /\ ticking' = [ticking EXCEPT ![p] = FALSE]
    BY DEF Abort, RollBack, rowVars, queueVars
  <1>3. /\ MaxFaults \in Nat /\ faults \in Nat /\ faults' = faults + 1
        /\ faults' \in Nat /\ faults' <= MaxFaults
    <2>1. faults < MaxFaults /\ faults' = faults + 1
      BY DEF Abort, RollBack, Fault
    <2>2. MaxFaults \in Nat /\ faults \in Nat
      BY Counted
    <2> QED
      BY <2>1, <2>2
  <1>4. /\ claimed' \in [Publisher -> SUBSET stored']
        /\ mark' \in [Publisher -> [Event -> {"none", "published", "put off"}]]
        /\ claimed'[p] = {} /\ \A e \in Event : mark'[p][e] = "none"
        /\ \A q \in Publisher : q # p => claimed'[q] = claimed[q] /\ mark'[q] = mark[q]
        /\ \A q \in Publisher, e \in Event : mark'[q][e] # "none" => e \in claimed'[q]
    BY <1>1, <1>2, Unlocking
  <1>5. /\ ticking' \in [Publisher -> BOOLEAN]
        /\ \A q \in Publisher : q # p => ticking'[q] = ticking[q]
    BY <1>1, <1>2 DEF TypeOK
  <1>6. \A e \in Event : lost[e] \in Nat /\ lost[e] <= faults
    BY Counted
  <1>7. ASSUME NEW e \in Event
        PROVE  /\ lost'[e] = IF e \in Marked(p, "published") THEN lost[e] + 1 ELSE lost[e]
               /\ lost'[e] \in 0..MaxFaults /\ lost'[e] <= faults'
    <2>1. lost'[e] = IF e \in Marked(p, "published") THEN lost[e] + 1 ELSE lost[e]
      BY <1>2, <1>6
    <2>2. lost[e] \in Nat /\ lost[e] <= faults
      BY <1>6
    <2> QED
      BY <1>3, <2>1, <2>2
  <1>8. TypeOK'
    <2>1. lost' \in [Event -> 0..MaxFaults]
      BY <1>2, <1>7
    <2>2. faults' \in 0..MaxFaults
      BY <1>3
    <2>3. UNCHANGED <<stored, published, putOff, log, window>>
      BY <1>2
    <2> QED
      BY <1>1, <1>4, <1>5, <2>1, <2>2, <2>3 DEF TypeOK
  <1>9. Held'
    <2>1. \A q \in Publisher : ~ticking'[q] => claimed'[q] = {}
      BY <1>1, <1>4, <1>5 DEF Held
    <2>2. \A q \in Publisher : claimed'[q] \cap published' = {}
      BY <1>1, <1>2, <1>4 DEF Held
    <2>3. \A q, r \in Publisher : q # r => claimed'[q] \cap claimed'[r] = {}
      BY <1>1, <1>4 DEF Held
    <2> QED
      BY <2>1, <2>2, <2>3 DEF Held
  <1>10. ASSUME NEW e \in Event PROVE Balanced(e)'
    <2>1. Copies(e)' = Copies(e) /\ window' = window
      BY <1>2 DEF Copies
    <2>2. Recorded(e)' => Recorded(e)
      BY <1>2, <1>4 DEF Recorded
    <2>3. Balanced(e) /\ lost[e] \in Nat /\ Copies(e) \in Nat
      BY <1>1, <1>6, Counted
    <2>4. CASE e \in Marked(p, "published")
      <3>1. lost'[e] = lost[e] + 1 /\ lost'[e] <= faults'
        BY <1>7, <2>4
      <3>2. Copies(e) <= lost'[e] /\ Copies(e) <= lost'[e] + 1
        BY <2>3, <3>1 DEF Balanced
      <3> QED
        BY <2>1, <2>2, <2>3, <3>1, <3>2 DEF Balanced
    <2>5. CASE e \notin Marked(p, "published")
      <3>1. mark[p][e] # "published"
        BY <1>1, <2>5 DEF Marked, TypeOK
      <3>2. Recorded(e) => Recorded(e)'
        BY <1>2, <1>4, <3>1 DEF Recorded
      <3>3. lost'[e] = lost[e] /\ lost'[e] <= faults'
        BY <1>7, <2>5
      <3> QED
        BY <2>1, <2>2, <2>3, <3>2, <3>3 DEF Balanced
    <2> QED
      BY <2>4, <2>5
  <1> QED
    BY <1>8, <1>9, <1>10 DEF PublisherInv

-----------------------------------------------------------------------------
LEMMA InitKeepsInv == ASSUME Init PROVE PublisherInv
  <1>1. TypeOK
    BY ConstantsAssumption DEF Init, TypeOK
  <1>2. Held
    BY DEF Init, Held
  <1>3. ASSUME NEW e \in Event PROVE Balanced(e)
    <2>1. Positions(log, e) = {}
      BY DEF Init, Positions
    <2>2. Copies(e) = 0
      BY <2>1, FS_EmptySet DEF Copies, Positions
    <2>3. ~Recorded(e) /\ e \notin window /\ lost[e] = 0 /\ faults = 0
      BY DEF Init, Recorded
    <2> QED
      BY <2>2, <2>3 DEF Balanced
  <1> QED
    BY <1>1, <1>2, <1>3 DEF PublisherInv

LEMMA NextKeepsInv == ASSUME PublisherInv, [Next]_vars PROVE PublisherInv'
  <1>1. ASSUME NEW e \in Event, Store(e) \/ DueAgain(e) \/ Forget(e) PROVE PublisherInv'
    BY <1>1, StoreKeepsInv, TimeKeepsInv
  <1>2. ASSUME NEW p \in Publisher, Tick(p) \/ Send(p) \/ Commit(p) \/ Abort(p) PROVE PublisherInv'
    BY <1>2, TickKeepsInv, SendKeepsInv, CommitKeepsInv, AbortKeepsInv
  <1>3. CASE UNCHANGED vars
    <2>1. UNCHANGED <<stored, published, putOff, ticking, claimed, mark, log, window, lost, faults>>
      BY <1>3 DEF vars, rowVars, tickVars, queueVars
    <2>2. TypeOK' /\ Held'
      BY <2>1 DEF PublisherInv, TypeOK, Held
    <2> QED
      BY <2>1, <2>2, NothingSent DEF PublisherInv
  <1> QED
    BY <1>1, <1>2, <1>3 DEF Next

LEMMA PublisherInvHolds == Spec => []PublisherInv
  BY InitKeepsInv, NextKeepsInv, PTL DEF Spec

\* Every variable has its type, and a mark is made on claimed rows only.
THEOREM TypeCorrect == Spec => []TypeOK
  <1>1. PublisherInv => TypeOK
    BY DEF PublisherInv
  <1> QED
    BY <1>1, PublisherInvHolds, PTL

\* However many publishers there are and however often their sends and transactions fail,
\* an event that is marked published has been delivered (at least once).
THEOREM NoEventIsDropped == Spec => []PublishedMeansDelivered
  <1>1. PublisherInv => PublishedMeansDelivered
    <2> SUFFICES ASSUME PublisherInv, NEW e \in published PROVE Copies(e) > 0
      BY DEF PublishedMeansDelivered
    <2>1. e \in Event /\ Recorded(e)
      BY DEF PublisherInv, TypeOK, Recorded
    <2>2. Copies(e) >= 1 /\ Copies(e) \in Nat
      BY <2>1, Counted DEF PublisherInv, Balanced
    <2> QED
      BY <2>2
  <1> QED
    BY <1>1, PublisherInvHolds, PTL

\* Beyond its first delivery, an event is delivered only as often as an accepted send of
\* it went unrecorded: concurrent publishers alone never duplicate one.
THEOREM CopiesArePaidFor == Spec => []CopiesNeedLoss
  <1>1. PublisherInv => CopiesNeedLoss
    <2> SUFFICES ASSUME PublisherInv, NEW e \in Event PROVE Copies(e) <= 1 + lost[e]
      BY DEF CopiesNeedLoss
    <2>1. Copies(e) <= lost[e] + 1 /\ lost[e] \in Nat /\ Copies(e) \in Nat
      BY Counted DEF PublisherInv, Balanced
    <2> QED
      BY <2>1
  <1> QED
    BY <1>1, PublisherInvHolds, PTL
=============================================================================
