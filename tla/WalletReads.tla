----------------------------- MODULE WalletReads -----------------------------
(***************************************************************************)
(* The reads of the wallet service while money moves: reconciliation,      *)
(* which reads the stored balance and then the sum of the ledger in two    *)
(* statements with no snapshot in common, and the pages of the ledger,     *)
(* each a query of its own that goes on after the last entry of the page   *)
(* before, in the order of (createdAt, id).                                *)
(*                                                                         *)
(* One wallet.  A movement commits its entry together with the balance     *)
(* (ProcessWager: LedgerIsSound).  The id of an entry is random, and its   *)
(* createdAt is the clock of the instance that made it: both are any       *)
(* value here.  A fault elsewhere may spoil the stored balance, which is   *)
(* what reconciliation is there to find.                                   *)
(***************************************************************************)
EXTENDS Integers, Sequences, FiniteSets, FiniteSetsExt, SequencesExt

CONSTANTS
  Id,        \* ids of ledger entries; a bound on the number of movements
  Time,      \* values of createdAt
  Amount,    \* what a movement adds to the balance
  Spoilt,    \* what a fault may add to the stored balance
  PageSize,  \* the limit of a page: 20 unless the client asks for 1 to 100
  Reader,
  None

ASSUME ConstantsAssumption ==
  /\ Id \subseteq Nat /\ Time \subseteq Nat
  /\ Amount \subseteq Int /\ Spoilt \subseteq Int
  /\ PageSize \in Nat \ {0}

Entry == [id : Id, createdAt : Time, amount : Amount]

\* What a reconciliation has read when it comes to sum the ledger.
Reading == [balance : Nat, ledger : SUBSET Entry, drift : Spoilt \cup {0}]

ASSUME NoneAssumption == None \notin Entry /\ None \notin Reading

VARIABLES
  ledger,   \* committed entries
  balance,  \* the stored balance
  drift,    \* history: what a fault has added to it
  pc,       \* of each reader: idle, sum (reconciling) or page (listing)
  read,     \* the balance a reconciliation has read; history: ledger and drift then
  report,   \* its last report; history: what it has read, and the ledger summed
  after,    \* the cursor of a listing
  shown,    \* the entries of its pages so far
  before    \* history: the ledger when it began

wallet == <<ledger, balance, drift>>
reconciliation == <<read, report>>
listing == <<after, shown, before>>
vars == <<wallet, pc, reconciliation, listing>>

Init ==
  /\ ledger = {} /\ balance = 0 /\ drift = 0
  /\ pc = [r \in Reader |-> "idle"]
  /\ read = [r \in Reader |-> None]
  /\ report = [r \in Reader |-> None]
  /\ after = [r \in Reader |-> None]
  /\ shown = [r \in Reader |-> <<>>]
  /\ before = [r \in Reader |-> {}]

Becomes(r, step) == pc' = [pc EXCEPT ![r] = step]

\* Fault: nothing keeps the balance from falling below zero.
Move_Overdraws ==
  /\ \E e \in Entry :
       /\ \A f \in ledger : f.id # e.id
       /\ ledger' = ledger \cup {e}
       /\ balance' = balance + e.amount
  /\ UNCHANGED <<drift, pc, reconciliation, listing>>

Move ==
  /\ \E e \in Entry :
       /\ \A f \in ledger : f.id # e.id
       /\ balance + e.amount >= 0
       /\ ledger' = ledger \cup {e}
       /\ balance' = balance + e.amount
  /\ UNCHANGED <<drift, pc, reconciliation, listing>>

Spoil ==
  /\ drift = 0
  /\ drift' \in Spoilt
  /\ balance' = balance + drift' /\ balance' >= 0
  /\ UNCHANGED <<ledger, pc, reconciliation, listing>>

-----------------------------------------------------------------------------
(* Reconciliation *)

Sum(E) == MapThenSumSet(LAMBDA e : e.amount, E)

\* Fault: the sum leaves out the direction of an entry.
SumLedger_NoDirection ==
  MapThenSumSet(LAMBDA e : IF e.amount < 0 THEN -e.amount ELSE e.amount, ledger)

SumLedger == Sum(ledger)

ReadBalance(r) ==
  /\ pc[r] = "idle" /\ Becomes(r, "sum")
  /\ read' = [read EXCEPT ![r] = [balance |-> balance, ledger |-> ledger, drift |-> drift]]
  /\ UNCHANGED <<wallet, report, listing>>

Reconcile(r) ==
  /\ pc[r] = "sum" /\ Becomes(r, "idle")
  /\ report' = [report EXCEPT ![r] =
       [difference |-> read[r].balance - SumLedger, read |-> read[r], ledger |-> ledger]]
  /\ read' = [read EXCEPT ![r] = None]
  /\ UNCHANGED <<wallet, listing>>

-----------------------------------------------------------------------------
(* Pages of the ledger *)

Precedes(e, f) ==
  \/ e.createdAt < f.createdAt
  \/ e.createdAt = f.createdAt /\ e.id < f.id

\* The n-th entry is the one that n - 1 others precede.
FirstPage(E) ==
  [n \in 1..Min({PageSize, Cardinality(E)}) |->
     CHOOSE e \in E : Cardinality({f \in E : Precedes(f, e)}) = n - 1]

\* Fault: the cursor is a time only, and entries of that time are skipped.
Page_SkipsTies(c) ==
  FirstPage({e \in ledger : c # None => e.createdAt > c.createdAt})

\* listLedgerEntries
Page(c) == FirstPage({e \in ledger : c # None => Precedes(c, e)})

\* toLedgerResponseDto: a full page may have a next one.
NextCursor(page) == IF Len(page) = PageSize THEN page[PageSize] ELSE None

\* The client asks for the first page, or for the one after its cursor.
Fetch(r) ==
  LET page == Page(after[r]) IN
  /\ pc[r] \in {"idle", "page"}
  /\ after' = [after EXCEPT ![r] = NextCursor(page)]
  /\ Becomes(r, IF NextCursor(page) = None THEN "idle" ELSE "page")
  /\ shown' = [shown EXCEPT ![r] = IF pc[r] = "idle" THEN page ELSE @ \o page]
  /\ before' = [before EXCEPT ![r] = IF pc[r] = "idle" THEN ledger ELSE @]
  /\ UNCHANGED <<wallet, reconciliation>>

Next ==
  \/ Move \/ Spoil
  \/ \E r \in Reader : ReadBalance(r) \/ Reconcile(r) \/ Fetch(r)

Spec == Init /\ [][Next]_vars

-----------------------------------------------------------------------------
(* Properties *)

\* Every variable has its type; a balance is never negative, and a reader has a cursor
\* only between two pages.
TypeOK ==
  /\ ledger \subseteq Entry
  /\ balance \in Nat /\ drift \in Spoilt \cup {0}
  /\ pc \in [Reader -> {"idle", "sum", "page"}]
  /\ DOMAIN read = Reader /\ DOMAIN report = Reader
  /\ after \in [Reader -> Entry \cup {None}]
  /\ shown \in [Reader -> Seq(Entry)]
  /\ before \in [Reader -> SUBSET Entry]
  /\ \A r \in Reader :
       /\ pc[r] = "sum" <=> read[r] # None
       /\ pc[r] = "page" <=> after[r] # None

\* A reported difference is exactly the drift of the stored balance, less what was
\* committed between the two reads: on a quiet wallet, reconciliation reports a drift if
\* and only if there is one.
DifferenceExplained ==
  \A r \in Reader :
    report[r] # None =>
      report[r].difference = report[r].read.drift - Sum(report[r].ledger \ report[r].read.ledger)

\* A reader that has fetched its pages to the end has seen every entry that was there
\* when it began, and none of them twice, whatever was inserted meanwhile and however many
\* entries share a createdAt.
ListedOnce ==
  \A r \in Reader :
    /\ pc[r] # "page" => before[r] \subseteq ToSet(shown[r])
    /\ \A m, n \in DOMAIN shown[r] : m < n => Precedes(shown[r][m], shown[r][n])
=============================================================================
