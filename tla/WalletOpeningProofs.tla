------------------------- MODULE WalletOpeningProofs -------------------------
(***************************************************************************)
(* However many requests race to open wallets, an account gets at most one *)
(* wallet, and gets it whole.                                              *)
(***************************************************************************)
EXTENDS WalletOpening, TLAPS

\* What a transaction has written follows from how far its request is.
Written(r) ==
  IF pc[r] = "inserted" THEN {"wallet"}
  ELSE IF pc[r] = "written" THEN {"wallet"} \cup (IF Initial[r] > 0 THEN {"opening"} ELSE {})
  ELSE {}
Staged(r) == tx[r] = Rows(r, Written(r))

\* The rows of a request are in the table all together, once it has committed.
Entire(r) == \A k \in {"wallet"} \cup Pending(r) : [by |-> r, of |-> k] \in table
Whole(r) ==
  \/ \A row \in table : row.by # r
  \/ /\ pc[r] = "ended" /\ answer[r] \in {"created", "lost"} /\ Entire(r)
     /\ \A row \in table : row.by = r => row.of \in {"wallet"} \cup Pending(r)

\* Requests for one account exclude each other from the INSERT on, for good once one of
\* them commits; it is what the unique index sees, in the table and in transactions.
Has(r) == [by |-> r, of |-> "wallet"] \in table \/ pc[r] \in {"inserted", "written"}
Alone(r) == \A s \in Request : r # s /\ Account[r] = Account[s] => ~(Has(r) /\ Has(s))

Answered(r) ==
  /\ answer[r] = "refused" => Visible(Account[r])
  /\ answer[r] = "created" => [by |-> r, of |-> "wallet"] \in table
  /\ answer[r] # None => pc[r] = "ended"

OpeningInv == TypeOK /\ \A r \in Request : Staged(r) /\ Whole(r) /\ Alone(r) /\ Answered(r)

-----------------------------------------------------------------------------
\* An account is visible through a wallet row of a request that names it, and only so.
LEMMA VisibleMeans ==
  ASSUME table \subseteq Row, NEW a
  PROVE  Visible(a) <=> \E s \in Request : Account[s] = a /\ [by |-> s, of |-> "wallet"] \in table
  <1>1. ASSUME NEW row \in table, row.of = "wallet"
        PROVE  row.by \in Request /\ row = [by |-> row.by, of |-> "wallet"]
    BY <1>1 DEF Row
  <1>2. ASSUME NEW s \in Request, Account[s] = a, [by |-> s, of |-> "wallet"] \in table
        PROVE  Visible(a)
    <2> DEFINE w == [by |-> s, of |-> "wallet"]
    <2>1. w.of = "wallet" /\ w.by = s /\ w \in table
      BY <1>2
    <2> HIDE DEF w
    <2> QED
      BY <2>1, <1>2 DEF Visible, Owner
  <1>3. ASSUME Visible(a)
        PROVE  \E s \in Request : Account[s] = a /\ [by |-> s, of |-> "wallet"] \in table
    <2>1. PICK w \in table : w.of = "wallet" /\ Account[w.by] = a
      BY <1>3 DEF Visible, Owner
    <2> QED
      BY <2>1, <1>1
  <1> QED
    BY <1>2, <1>3

\* A transaction holds a wallet for an account from its first flush to its end.
LEMMA InFlightMeans ==
  ASSUME \A r \in Request : Staged(r), NEW s \in Request, pc[s] \in {"inserted", "written"}
  PROVE  InFlight(Account[s])
  <1> DEFINE w == [by |-> s, of |-> "wallet"]
  <1>1. w.of = "wallet" /\ w.by = s /\ w \in tx[s]
    BY DEF Staged, Written, Rows
  <1> HIDE DEF w
  <1> QED
    BY <1>1 DEF InFlight, Owner

\* The rows a request has, row by row.
LEMMA RowsOf ==
  ASSUME NEW r, NEW what, NEW row
  PROVE  row \in Rows(r, what) <=> \E k \in what : row = [by |-> r, of |-> k]
  BY DEF Rows

\* A request may read, write its next rows, or end without a commit.
LEMMA StepOfRequest ==
  ASSUME OpeningInv, NEW r \in Request, NEW next, NEW end,
         table' = table,
         pc' = [pc EXCEPT ![r] = next],
         answer' = [answer EXCEPT ![r] = end],
         tx' = [tx EXCEPT ![r] = Rows(r, Written(r))'],
         pc[r] # "ended",
         next \in {"checked", "inserted", "written", "ended"},
         next # "ended" => end = answer[r],
         next = "ended" => end \in {"refused", "failed", "lost"},
         end = "refused" => Visible(Account[r]),
         next \in {"inserted", "written"} /\ pc[r] \notin {"inserted", "written"}
           => ~InFlight(Account[r]) /\ ~Visible(Account[r])
  PROVE  OpeningInv'
  <1> USE ConstantsAssumption DEF OpeningInv
  <1>1. TypeOK'
    <2>1. Rows(r, Written(r))' \in SUBSET Row
      BY DEF Rows, Written, Row, Credit
    <2>2. next = "ended" => Rows(r, Written(r))' = {}
      BY DEF Rows, Written, TypeOK
    <2>3. \A s \in Request : s # r => pc'[s] = pc[s] /\ answer'[s] = answer[s] /\ tx'[s] = tx[s]
      BY DEF TypeOK
    <2>4. pc'[r] = next /\ answer'[r] = end /\ tx'[r] = Rows(r, Written(r))'
      BY DEF TypeOK
    <2>5. /\ pc' \in [Request -> {"start", "checked", "inserted", "written", "ended"}]
          /\ answer' \in [Request -> {"created", "refused", "failed", "lost", None}]
      BY DEF TypeOK
    <2>6. tx' \in [Request -> SUBSET Row]
      BY <2>1 DEF TypeOK
    <2>7. ASSUME NEW s \in Request, pc'[s] = "ended"
          PROVE  answer'[s] # None /\ tx'[s] = {}
      <3>1. CASE s = r
        BY <3>1, <2>2, <2>4, <2>7
      <3>2. CASE s # r
        BY <3>2, <2>3, <2>7 DEF TypeOK
      <3> QED
        BY <3>1, <3>2
    <2> QED
      BY <2>5, <2>6, <2>7 DEF TypeOK
  <1>2. ASSUME NEW s \in Request PROVE Staged(s)'
    BY DEF TypeOK, Staged, Written
  <1>3. ASSUME NEW s \in Request PROVE Whole(s)'
    <2>1. Whole(s)
      OBVIOUS
    <2>2. s # r => pc'[s] = pc[s] /\ answer'[s] = answer[s]
      BY DEF TypeOK
    <2> QED
      BY <2>1, <2>2 DEF Whole, Entire, Pending
  <1>4. \A s \in Request : s # r => (Has(s)' <=> Has(s))
    BY DEF TypeOK, Has
  <1>5. ASSUME ~Has(r), Has(r)', NEW s \in Request, r # s, Account[r] = Account[s], Has(s)
        PROVE  FALSE
    <2>1. ~InFlight(Account[s]) /\ ~Visible(Account[s])
      BY <1>5 DEF Has, TypeOK
    <2>2. pc[s] \notin {"inserted", "written"}
      BY <2>1, InFlightMeans
    <2>3. [by |-> s, of |-> "wallet"] \notin table
      BY <2>1, VisibleMeans DEF TypeOK
    <2> QED
      BY <1>5, <2>2, <2>3 DEF Has
  <1>6. ASSUME NEW s \in Request PROVE Alone(s)'
    <2>1. Alone(s)
      OBVIOUS
    <2> QED
      BY <2>1, <1>4, <1>5 DEF Alone
  <1>7. ASSUME NEW s \in Request PROVE Answered(s)'
    <2>1. \A a : Visible(a)' <=> Visible(a)
      BY DEF Visible, Owner
    <2>2. Answered(s)
      OBVIOUS
    <2>3. s # r => pc'[s] = pc[s] /\ answer'[s] = answer[s]
      BY DEF TypeOK
    <2>4. pc'[r] = next /\ answer'[r] = end
      BY DEF TypeOK
    <2> QED
      BY <2>1, <2>2, <2>3, <2>4 DEF Answered
  <1> QED
    BY <1>1, <1>2, <1>3, <1>6, <1>7

\* The commit puts the wallet, and with an initial balance its credit, into the table.
LEMMA CommitKeepsInv ==
  ASSUME OpeningInv, NEW r \in Request, Commit(r)
  PROVE  OpeningInv'
  <1> USE ConstantsAssumption DEF OpeningInv
  <1> DEFINE new == {"wallet"} \cup Pending(r)
  <1>1. pc[r] = "written" /\ Staged(r)
    BY DEF Commit
  <1>2. \A row : row \in table' <=> row \in table \/ \E k \in new : row = [by |-> r, of |-> k]
    <2>1. tx[r] \cup Rows(r, Pending(r)) = Rows(r, new)
      BY <1>1 DEF Staged, Written, Rows, Pending, Credit
    <2> QED
      BY <2>1, RowsOf DEF Commit
  <1>3. new \subseteq {"wallet"} \cup Credit
    BY DEF Pending
  <1> HIDE DEF new
  <1>4. PICK end \in {"created", "lost"} : answer' = [answer EXCEPT ![r] = end]
    BY DEF Commit
  <1>5. /\ pc' = [pc EXCEPT ![r] = "ended"]
        /\ tx' = [tx EXCEPT ![r] = {}]
    BY DEF Commit
  <1>6. /\ pc'[r] = "ended" /\ tx'[r] = {} /\ answer'[r] = end
        /\ \A s \in Request : s # r => pc'[s] = pc[s] /\ answer'[s] = answer[s] /\ tx'[s] = tx[s]
    BY <1>4, <1>5 DEF TypeOK
  <1>7. TypeOK'
    <2>1. table' \subseteq Row
      BY <1>2, <1>3 DEF TypeOK, Row
    <2>2. /\ pc' \in [Request -> {"start", "checked", "inserted", "written", "ended"}]
          /\ answer' \in [Request -> {"created", "refused", "failed", "lost", None}]
      BY <1>4, <1>5 DEF TypeOK
    <2>3. tx' \in [Request -> SUBSET Row]
      BY <1>5 DEF TypeOK
    <2>4. ASSUME NEW s \in Request, pc'[s] = "ended"
          PROVE  answer'[s] # None /\ tx'[s] = {}
      <3>1. CASE s = r
        BY <3>1, <1>4, <1>6
      <3>2. CASE s # r
        BY <3>2, <2>4, <1>6 DEF TypeOK
      <3> QED
        BY <3>1, <3>2
    <2> QED
      BY <2>1, <2>2, <2>3, <2>4 DEF TypeOK
  <1>8. ASSUME NEW s \in Request PROVE Staged(s)'
    <2>1. Staged(s)
      OBVIOUS
    <2> QED
      BY <2>1, <1>6 DEF Staged, Written, Rows
  <1>9. \A s, k : s # r => ([by |-> s, of |-> k] \in table' <=> [by |-> s, of |-> k] \in table)
    <2> TAKE s, k
    <2> HAVE s # r
    <2>1. \A j : [by |-> s, of |-> k] # [by |-> r, of |-> j]
      <3> TAKE j
      <3>1. [by |-> s, of |-> k].by = s /\ [by |-> r, of |-> j].by = r
        OBVIOUS
      <3> QED
        BY <3>1
    <2> QED
      BY <2>1, <1>2
  <1>10. \A k \in new : [by |-> r, of |-> k] \in table'
    BY <1>2
  <1>11. \A row \in table' : row.by = r => row \in table \/ row.of \in new
    BY <1>2
  <1>12. \A row \in table' : row.by # r => row \in table
    BY <1>2
  <1>13. ASSUME NEW s \in Request PROVE Whole(s)'
    <2>1. Whole(s)
      OBVIOUS
    <2>2. CASE s = r
      <3>1. \A row \in table : row.by # r
        BY <2>1, <2>2, <1>1 DEF Whole
      <3>2. \A row \in table' : row.by = r => row.of \in new
        BY <3>1, <1>11
      <3>3. Pending(r)' = Pending(r)
        BY DEF Pending
      <3> QED
        BY <2>2, <3>2, <3>3, <1>4, <1>6, <1>10 DEF Whole, Entire, new
    <2>3. CASE s # r
      <3>1. Pending(s)' = Pending(s)
        BY DEF Pending
      <3>2. Entire(s) => Entire(s)'
        BY <2>3, <3>1, <1>9 DEF Entire
      <3>3. \A row \in table' : row.by = s => row \in table
        BY <2>3, <1>12
      <3> QED
        BY <2>1, <2>3, <3>1, <3>2, <3>3, <1>6 DEF Whole
    <2> QED
      BY <2>2, <2>3
  <1>14. ASSUME NEW s \in Request PROVE Has(s)' => Has(s)
    BY <1>1, <1>6, <1>9 DEF Has
  <1>15. ASSUME NEW s \in Request PROVE Alone(s)'
    <2>1. Alone(s)
      OBVIOUS
    <2> QED
      BY <2>1, <1>14 DEF Alone
  <1>16. ASSUME NEW s \in Request PROVE Answered(s)'
    <2>1. Answered(s)
      OBVIOUS
    <2>2. \A t \in Request : [by |-> t, of |-> "wallet"] \in table => [by |-> t, of |-> "wallet"] \in table'
      BY <1>2
    <2>3. \A a : Visible(a) => Visible(a)'
      <3> TAKE a
      <3>1. Visible(a) <=> \E t \in Request : Account[t] = a /\ [by |-> t, of |-> "wallet"] \in table
        BY VisibleMeans DEF TypeOK
      <3>2. table' \subseteq Row
        BY <1>7 DEF TypeOK
      <3>3. (\E t \in Request : Account[t] = a /\ [by |-> t, of |-> "wallet"] \in table') => Visible(a)'
        <4>1. ASSUME NEW t \in Request, Account[t] = a, [by |-> t, of |-> "wallet"] \in table'
              PROVE  Visible(a)'
          <5> DEFINE w == [by |-> t, of |-> "wallet"]
          <5>1. w.of = "wallet" /\ w.by = t /\ w \in table'
            BY <4>1
          <5> HIDE DEF w
          <5> QED
            BY <5>1, <4>1 DEF Visible, Owner
        <4> QED
          BY <4>1
      <3> QED
        BY <3>1, <3>3, <2>2
    <2>4. [by |-> r, of |-> "wallet"] \in table'
      BY <1>10 DEF new
    <2>5. CASE s = r
      BY <2>4, <2>5, <1>4, <1>6 DEF Answered
    <2>6. CASE s # r
      BY <2>1, <2>2, <2>3, <2>6, <1>6 DEF Answered
    <2> QED
      BY <2>5, <2>6
  <1> QED
    BY <1>7, <1>8, <1>13, <1>15, <1>16

-----------------------------------------------------------------------------
LEMMA InitOpeningInv == Init => OpeningInv
  <1> SUFFICES ASSUME Init PROVE OpeningInv
    OBVIOUS
  <1>1. TypeOK
    BY DEF Init, TypeOK
  <1>2. ASSUME NEW r \in Request PROVE Staged(r) /\ Whole(r) /\ Alone(r) /\ Answered(r)
    BY ConstantsAssumption DEF Init, Staged, Written, Rows, Whole, Alone, Has, Answered
  <1> QED
    BY <1>1, <1>2 DEF OpeningInv

LEMMA NextOpeningInv == OpeningInv /\ [Next]_vars => OpeningInv'
  <1> SUFFICES ASSUME OpeningInv, [Next]_vars PROVE OpeningInv'
    OBVIOUS
  <1>1. CASE UNCHANGED vars
    BY <1>1 DEF vars, OpeningInv, TypeOK, Staged, Written, Whole, Entire, Alone, Has, Answered,
       Visible, Owner, Pending
  <1>2. ASSUME NEW r \in Request, Open(r) \/ Abort(r)
        PROVE  OpeningInv'
    <2> DEFINE Ends(how) == pc[r] # "ended" /\ End(r, how)
    <2>0. /\ pc[r] \in {"start", "checked", "inserted", "written", "ended"}
          /\ Staged(r) /\ Whole(r)
          /\ pc \in [Request -> {"start", "checked", "inserted", "written", "ended"}]
      BY DEF OpeningInv, TypeOK
    <2>1. ASSUME NEW how \in {"refused", "failed", "lost"}, Ends(how),
                 how = "refused" => Visible(Account[r])
          PROVE  OpeningInv'
      <3>1. pc'[r] = "ended"
        BY <2>0, <2>1 DEF End
      <3>2. Rows(r, Written(r))' = {}
        BY <3>1 DEF Rows, Written
      <3> QED
        BY <2>1, <3>2, StepOfRequest DEF End
    <2>2. ASSUME NEW what, NEW next \in {"checked", "inserted", "written"}, Write(r, what, next),
                 pc[r] # "ended", Rows(r, Written(r))' = tx[r] \cup Rows(r, what),
                 next \in {"inserted", "written"} /\ pc[r] \notin {"inserted", "written"}
                   => ~InFlight(Account[r]) /\ ~Visible(Account[r])
          PROVE  OpeningInv'
      <3>1. answer' = [answer EXCEPT ![r] = answer[r]]
        BY <2>2 DEF Write, OpeningInv, TypeOK
      <3>2. answer[r] # "refused"
        BY <2>2, ConstantsAssumption DEF OpeningInv, Answered
      <3> QED
        BY <2>2, <3>1, <3>2, StepOfRequest DEF Write
    <2>3. CASE Check(r)
      <3>1. CASE Visible(Account[r])
        BY <2>3, <3>1, <2>1 DEF Check
      <3>2. CASE ~Visible(Account[r])
        <4>1. Write(r, {}, "checked") /\ pc[r] = "start"
          BY <2>3, <3>2 DEF Check
        <4>2. Rows(r, Written(r))' = tx[r] \cup Rows(r, {})
          BY <2>0, <4>1 DEF Write, Staged, Written, Rows
        <4> QED
          BY <4>1, <4>2, <2>2
      <3> QED
        BY <3>1, <3>2
    <2>4. CASE Insert(r)
      <3>1. CASE Visible(Account[r])
        BY <2>4, <3>1, <2>1 DEF Insert
      <3>2. CASE ~Visible(Account[r])
        <4>1. Write(r, {"wallet"}, "inserted") /\ pc[r] = "checked" /\ ~InFlight(Account[r])
          BY <2>4, <3>2 DEF Insert
        <4>2. Rows(r, Written(r))' = tx[r] \cup Rows(r, {"wallet"})
          BY <2>0, <4>1 DEF Write, Staged, Written, Rows
        <4> QED
          BY <3>2, <4>1, <4>2, <2>2
      <3> QED
        BY <3>1, <3>2
    <2>5. CASE WriteCredit(r)
      <3> DEFINE what == IF Initial[r] > 0 THEN {"opening"} ELSE {}
      <3>1. Write(r, what, "written") /\ pc[r] = "inserted"
        BY <2>5 DEF WriteCredit
      <3>2. Rows(r, Written(r))' = tx[r] \cup Rows(r, what)
        BY <2>0, <3>1 DEF Write, Staged, Written, Rows
      <3> HIDE DEF what
      <3> QED
        BY <3>1, <3>2, <2>2
    <2>6. CASE Commit(r)
      BY <2>6, CommitKeepsInv
    <2>7. CASE Abort(r)
      BY <2>7, <2>1 DEF Abort
    <2> QED
      BY <1>2, <2>3, <2>4, <2>5, <2>6, <2>7 DEF Open
  <1> QED
    BY <1>1, <1>2 DEF Next

LEMMA OpeningInvHolds == Spec => []OpeningInv
  BY InitOpeningInv, NextOpeningInv, PTL DEF Spec

-----------------------------------------------------------------------------
\* The types of the variables, for any number of requests and accounts.
THEOREM TypeCorrect == Spec => []TypeOK
  <1>1. OpeningInv => TypeOK
    BY DEF OpeningInv
  <1> QED
    BY <1>1, OpeningInvHolds, PTL

\* However many requests name one account, at most one of them ever has a wallet in the
\* table and at most one is told so (findByPlayerAndCurrency alone would not do: between it
\* and the INSERT another request may commit; the unique index closes the gap).
THEOREM AccountsHaveOneWallet == Spec => []OneWalletPerAccount
  <1>1. OpeningInv => OneWalletPerAccount
    <2> SUFFICES ASSUME OpeningInv, NEW r \in Request, NEW s \in Request,
                        r # s, Account[r] = Account[s]
                 PROVE  /\ ~(\E x, y \in table : x.of = "wallet" /\ y.of = "wallet" /\ x.by = r /\ y.by = s)
                        /\ ~(answer[r] = "created" /\ answer[s] = "created")
      BY DEF OneWalletPerAccount
    <2>1. ~(Has(r) /\ Has(s)) /\ Answered(r) /\ Answered(s)
      BY DEF OpeningInv, Alone
    <2>2. \A x \in table : x.of = "wallet" => x = [by |-> x.by, of |-> "wallet"]
      BY DEF OpeningInv, TypeOK, Row
    <2> QED
      BY <2>1, <2>2 DEF Has, Answered
  <1> QED
    BY <1>1, OpeningInvHolds, PTL

\* A wallet is never visible without what explains its balance, nor that without the
\* wallet: whatever of the several flushes is in a transaction commits as one.
THEOREM WalletsOpenWhole == Spec => []OpenedWhole
  <1>1. OpeningInv => OpenedWhole
    <2> SUFFICES ASSUME OpeningInv, NEW r \in Request
                 PROVE  {row.of : row \in {x \in table : x.by = r}} \in {{}, {"wallet"} \cup Pending(r)}
      BY DEF OpenedWhole
    <2> DEFINE of == {row.of : row \in {x \in table : x.by = r}}
    <2>1. Whole(r)
      BY DEF OpeningInv
    <2>2. CASE \A row \in table : row.by # r
      BY <2>2
    <2>3. CASE Entire(r) /\ \A row \in table : row.by = r => row.of \in {"wallet"} \cup Pending(r)
      <3>1. ASSUME NEW k \in {"wallet"} \cup Pending(r) PROVE k \in of
        <4> DEFINE w == [by |-> r, of |-> k]
        <4>1. w \in table /\ w.by = r /\ w.of = k
          BY <2>3 DEF Entire
        <4> HIDE DEF w
        <4> QED
          BY <4>1
      <3>2. of \subseteq {"wallet"} \cup Pending(r)
        BY <2>3
      <3> QED
        BY <3>1, <3>2
    <2> QED
      BY <2>1, <2>2, <2>3 DEF Whole
  <1> QED
    BY <1>1, OpeningInvHolds, PTL

\* A refusal is true: the wallet it speaks of was committed and stays; and nothing remains
\* of a request that was refused or failed.
THEOREM RefusalsAreTrue == Spec => []RefusedForAWallet
  <1>1. OpeningInv => RefusedForAWallet
    BY DEF OpeningInv, Answered, Whole, RefusedForAWallet
  <1> QED
    BY <1>1, OpeningInvHolds, PTL
=============================================================================
