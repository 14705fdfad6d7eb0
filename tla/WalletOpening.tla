---------------------------- MODULE WalletOpening ----------------------------
(***************************************************************************)
(* CreateWalletUseCase: requests that open wallets, each one transaction   *)
(* of several flushes: the wallet, the OPENING transaction, and with the   *)
(* commit the ledger entry and the two events.  An account is a pair       *)
(* (player, currency), which is unique in table wallets: an INSERT waits   *)
(* for one that is not committed yet and fails if that one commits.        *)
(*                                                                         *)
(* A row is [by, of]: the request that wrote it and what it is.            *)
(***************************************************************************)
EXTENDS Integers, FiniteSets

CONSTANTS
  Request,  \* calls of POST /wallets
  Account,  \* the account each one names
  Initial,  \* the initial balance it names
  None

ASSUME ConstantsAssumption ==
  /\ DOMAIN Account = Request
  /\ Initial \in [Request -> Nat]
  /\ None \notin {"created", "refused", "failed", "lost"}

\* The rows a wallet with an initial balance is opened with.
Credit == {"opening", "entry", "processed", "changed"}

Row == [by : Request, of : {"wallet"} \cup Credit]
Rows(r, what) == {[by |-> r, of |-> k] : k \in what}

VARIABLES
  table,   \* committed rows
  tx,      \* rows each open transaction has written
  pc,      \* of each request: start, checked, inserted, written, or ended
  answer   \* created, refused (409), failed (500), lost, or None while it runs

vars == <<table, tx, pc, answer>>

Init ==
  /\ table = {}
  /\ tx = [r \in Request |-> {}]
  /\ pc = [r \in Request |-> "start"]
  /\ answer = [r \in Request |-> None]

Owner(a, rows) == {row.by : row \in {w \in rows : w.of = "wallet" /\ Account[w.by] = a}}
Visible(a) == Owner(a, table) # {}
InFlight(a) == \E r \in Request : Owner(a, tx[r]) # {}

\* Fault: a request that ends without a commit leaves its transaction open.
End_KeepsTransaction(r, how) ==
  /\ pc' = [pc EXCEPT ![r] = "ended"]
  /\ answer' = [answer EXCEPT ![r] = how]
  /\ UNCHANGED <<table, tx>>

\* The transaction ends with nothing written.
End(r, how) ==
  /\ pc' = [pc EXCEPT ![r] = "ended"]
  /\ answer' = [answer EXCEPT ![r] = how]
  /\ tx' = [tx EXCEPT ![r] = {}]
  /\ UNCHANGED table

\* Fault: each flush commits on its own.
Write_Commits(r, what, next) ==
  /\ table' = table \cup Rows(r, what)
  /\ pc' = [pc EXCEPT ![r] = next]
  /\ UNCHANGED <<tx, answer>>

Write(r, what, next) ==
  /\ tx' = [tx EXCEPT ![r] = @ \cup Rows(r, what)]
  /\ pc' = [pc EXCEPT ![r] = next]
  /\ UNCHANGED <<table, answer>>

\* findByPlayerAndCurrency
Check(r) ==
  /\ pc[r] = "start"
  /\ IF Visible(Account[r]) THEN End(r, "refused") ELSE Write(r, {}, "checked")

\* Fault: nothing is unique about a wallet but its id.
Insert_NotUnique(r) == pc[r] = "checked" /\ Write(r, {"wallet"}, "inserted")

\* Fault: the INSERT fails at once if another one is under way.
Insert_NoWait(r) ==
  /\ pc[r] = "checked"
  /\ IF InFlight(Account[r]) \/ Visible(Account[r])
     THEN End(r, "refused") ELSE Write(r, {"wallet"}, "inserted")

\* The first flush.  The violated constraint is not turned into a ConflictException.
Insert(r) ==
  /\ pc[r] = "checked" /\ ~InFlight(Account[r])
  /\ IF Visible(Account[r]) THEN End(r, "failed") ELSE Write(r, {"wallet"}, "inserted")

\* The second flush, for a positive initial balance only; the rest waits for the commit.
WriteCredit(r) ==
  /\ pc[r] = "inserted"
  /\ IF Initial[r] > 0
     THEN Write(r, {"opening"}, "written")
     ELSE Write(r, {}, "written")

Pending(r) == IF Initial[r] > 0 THEN Credit ELSE {}

Commit(r) ==
  /\ pc[r] = "written"
  /\ table' = table \cup tx[r] \cup Rows(r, Pending(r))
  /\ tx' = [tx EXCEPT ![r] = {}]
  /\ pc' = [pc EXCEPT ![r] = "ended"]
  /\ answer' \in {[answer EXCEPT ![r] = "created"], [answer EXCEPT ![r] = "lost"]}

\* The database fails, or the process dies: the transaction rolls back.
Abort(r) == pc[r] # "ended" /\ (End(r, "failed") \/ End(r, "lost"))

Open(r) == Check(r) \/ Insert(r) \/ WriteCredit(r) \/ Commit(r)

Next == \E r \in Request : Open(r) \/ Abort(r)

Spec == Init /\ [][Next]_vars

\* A request goes on unless it waits for a lock; PostgreSQL grants a lock that is free.
FairSpec == Spec /\ \A r \in Request : SF_vars(Open(r))

-----------------------------------------------------------------------------
(* Properties *)

\* Every variable has its type; a request that has ended holds no transaction.
TypeOK ==
  /\ table \subseteq Row
  /\ tx \in [Request -> SUBSET Row]
  /\ pc \in [Request -> {"start", "checked", "inserted", "written", "ended"}]
  /\ answer \in [Request -> {"created", "refused", "failed", "lost", None}]
  /\ \A r \in Request : pc[r] = "ended" => answer[r] # None /\ tx[r] = {}

\* However many requests race, an account has one wallet, and at most one of them is
\* told that it created it (findByPlayerAndCurrency and UNIQUE (player_id, currency)).
OneWalletPerAccount ==
  \A r, s \in Request :
    /\ r # s /\ Account[r] = Account[s]
    => /\ ~(\E x, y \in table : x.of = "wallet" /\ y.of = "wallet" /\ x.by = r /\ y.by = s)
       /\ ~(answer[r] = "created" /\ answer[s] = "created")

\* Whoever reads a wallet finds its balance explained: it is never visible without its
\* OPENING transaction, ledger entry and events, nor those without the wallet.
OpenedWhole ==
  \A r \in Request :
    LET of == {row.of : row \in {x \in table : x.by = r}} IN
    of \in {{}, {"wallet"} \cup Pending(r)}

\* A request is turned away only for a wallet that exists, in particular not for one
\* whose creation was rolled back; if it was turned away by an error of its own
\* (a failure of the database), nothing of it remains.
RefusedForAWallet ==
  \A r \in Request :
    /\ answer[r] = "refused" => Visible(Account[r])
    /\ answer[r] = "created" => [by |-> r, of |-> "wallet"] \in table
    /\ answer[r] \in {"refused", "failed"} => \A row \in table : row.by # r

\* Every request is answered or dies: no request waits for ever for one that is gone.
AllAnswered == \A r \in Request : <>(pc[r] = "ended")
=============================================================================
