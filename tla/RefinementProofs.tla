-------------------------- MODULE RefinementProofs --------------------------
(***************************************************************************)
(* ProcessWager implements WagerLedger, for every number of requests,      *)
(* workers and wallets: concurrent transactions settle submissions one at  *)
(* a time, and each answer and each movement of money is one the ledger    *)
(* promises.                                                               *)
(***************************************************************************)
EXTENDS LedgerRefinement, ProcessWagerProofs

-----------------------------------------------------------------------------
(* What entries amount to.  A sum is a recursion over its set, which can be *)
(* unfolded for the sets that occur: a transaction has one entry at most.   *)

LEMMA NetOfNone == Net({}) = 0
  <1> DEFINE def(it, s) == IF s = {} THEN 0
                           ELSE LET x == CHOOSE y \in s : TRUE
                                IN (x.after - x.before) + it[s \ {x}]
             P(g) == g = [s \in SUBSET {} |-> def(g, s)]
             iter == CHOOSE g : P(g)
  <1>1. SUBSET {} = {{}}
    OBVIOUS
  <1>2. \E g : P(g)
    <2> DEFINE g == [s \in SUBSET {} |-> 0]
    <2>1. P(g)
      BY <1>1
    <2> QED
      BY <2>1
  <1>3. P(iter)
    BY <1>2
  <1>4. iter[{}] = 0
    BY <1>1, <1>3
  <1>5. Net({}) = iter[{}]
    BY DEF Net, MapThenSumSet, MapThenFoldSet
  <1> QED
    BY <1>4, <1>5

LEMMA NetOfOne ==
  ASSUME NEW e \in EntryType
  PROVE  Net({e}) = e.after - e.before
  <1> DEFINE def(it, s) == IF s = {} THEN 0
                           ELSE LET x == CHOOSE y \in s : TRUE
                                IN (x.after - x.before) + it[s \ {x}]
             P(g) == g = [s \in SUBSET {e} |-> def(g, s)]
             iter == CHOOSE g : P(g)
  <1>0. (e.after - e.before) + 0 = e.after - e.before
    BY DEF EntryType
  <1>1. SUBSET {e} = {{}, {e}} /\ (CHOOSE y \in {e} : TRUE) = e /\ {e} \ {e} = {} /\ {e} # {}
    OBVIOUS
  <1>2. \E g : P(g)
    <2> DEFINE g == [s \in SUBSET {e} |-> IF s = {} THEN 0 ELSE (e.after - e.before) + 0]
    <2>1. g[{}] = 0
      BY <1>1
    <2>2. ASSUME NEW s \in SUBSET {e} PROVE g[s] = def(g, s)
      <3>1. CASE s = {}
        BY <3>1
      <3>2. CASE s = {e}
        <4>1. (CHOOSE y \in s : TRUE) = e /\ s \ {e} = {} /\ s # {}
          BY <1>1, <3>2
        <4> HIDE DEF g
        <4>2. def(g, s) = (e.after - e.before) + 0
          BY <2>1, <4>1
        <4>3. g[s] = (e.after - e.before) + 0
          BY <4>1 DEF g
        <4> QED
          BY <4>2, <4>3
      <3> QED
        BY <1>1, <3>1, <3>2
    <2>3. P(g)
      <3>1. g = [s \in SUBSET {e} |-> g[s]]
        OBVIOUS
      <3> HIDE DEF g, def
      <3> QED
        BY <2>2, <3>1
    <2> HIDE DEF g, P
    <2> QED
      BY <2>3
  <1>3. P(iter)
    <2> HIDE DEF P
    <2> QED
      BY <1>2
  <1>4. iter[{}] = 0
    BY <1>1, <1>3
  <1>5. iter[{e}] = (e.after - e.before) + 0
    <2>1. iter[{e}] = def(iter, {e})
      BY <1>1, <1>3
    <2> HIDE DEF iter
    <2> QED
      BY <1>1, <1>4, <2>1
  <1>6. Net({e}) = iter[{e}]
    BY DEF Net, MapThenSumSet, MapThenFoldSet
  <1> HIDE DEF iter
  <1>7. Net({e}) = (e.after - e.before) + 0
    BY <1>5, <1>6
  <1> HIDE DEF P, def
  <1> QED
    BY <1>0, <1>7

\* The entries of a ledger that are of transaction t.
EntriesIn(s, t) == {e \in {s[n] : n \in DOMAIN s} : e.tx = t}

LEMMA EntriesOfTx ==
  ASSUME NEW t
  PROVE  EntriesOf(t) = IF t \in Stored /\ input[t].wallet \in Wallet
                        THEN EntriesIn(ledger[input[t].wallet], t) ELSE {}
  BY DEF EntriesOf, EntriesIn

\* A ledger x is ledger s with one more entry e.
Extends(x, s, e) == x = Append(s, e)

\* An entry appended to a ledger is one more of its transaction.
LEMMA OneMoreEntry ==
  ASSUME NEW s \in Seq(EntryType), NEW e \in EntryType, NEW x, Extends(x, s, e)
  PROVE  /\ x \in Seq(EntryType)
         /\ \A t : EntriesIn(x, t) = EntriesIn(s, t) \cup (IF t = e.tx THEN {e} ELSE {})
  <1>1. /\ Len(s) \in Nat /\ DOMAIN s = 1..Len(s) /\ DOMAIN x = 1..(Len(s) + 1)
        /\ x \in Seq(EntryType)
        /\ x[Len(s) + 1] = e /\ \A n \in 1..Len(s) : x[n] = s[n]
    BY DEF Extends
  <1>2. {x[n] : n \in DOMAIN x} = {s[n] : n \in DOMAIN s} \cup {e}
    <2>1. DOMAIN x = DOMAIN s \cup {Len(s) + 1}
      BY <1>1
    <2> QED
      BY <1>1, <2>1
  <1> QED
    BY <1>1, <1>2 DEF EntriesIn

\* Entries appended one by one.
LEMMA OneByOne ==
  ASSUME NEW s \in Seq(EntryType), NEW e \in EntryType, NEW f \in EntryType
  PROVE  /\ Append(<<>>, e) = <<e>>
         /\ s \o <<e>> = Append(s, e)
         /\ s \o Append(<<e>>, f) = Append(Append(s, e), f)
  <1>1. <<e>> \in Seq(EntryType) /\ Append(<<>>, e) = <<e>>
    OBVIOUS
  <1>2. s \o <<e>> = Append(s, e)
    OBVIOUS
  <1>3. s \o Append(<<e>>, f) = Append(s \o <<e>>, f)
    BY <1>1
  <1> QED
    BY <1>1, <1>2, <1>3
-----------------------------------------------------------------------------
(* What the tables and a unit of work mean to the ledger that is promised. *)

\* The row a process decides about: a request its own, a worker the one it retries.
Own(p) == IF p \in Worker THEN target[p] ELSE p

\* What a bet, a win or a refund adds to its wallet, and what a transaction adds that
\* undoes r if it is a reversal.
Worth(t) == IF input[t].kind = "BET" THEN -input[t].amount ELSE input[t].amount
Change(t, r) == IF input[t].kind \in Reversal THEN -Worth(r) ELSE Worth(t)

Owned(t) == input[t].player = WalletPlayer[input[t].wallet]
Priced(t) == input[t].currency = WalletCurrency[input[t].wallet]

\* The ledgers have entries of processed transactions only, and of one that a reversal may
\* name just what it is worth.  Who waits may be owed money.
Booked(t) ==
  /\ rows[t].status # "PROCESSED" => \A w \in Wallet : EntriesIn(ledger[w], t) = {}
  /\ rows[t].status = "PROCESSED" /\ input[t].kind \in {"BET", "WIN", "REFUND"} =>
       Net(EntriesOf(t)) = Worth(t)
  /\ rows[t].status = "PENDING_REFERENCE" => Owned(t)

\* What r gives back to t is not to be had: r is no match, is reversed already, or the
\* wallet has not enough.
Refused(t, r) ==
  Matches(t, r) /\ ~AlreadyReversed(input[t].ref) =>
    wallets[input[t].wallet].balance - Worth(r) < 0

\* Nothing that t could add to its wallet is to be had: it is nobody's, in no currency of
\* the wallet, or more than the wallet has.  The last two are seen under the wallet's lock.
Vain(p, t) ==
  \/ ~ExternallySubmittable(input[t].kind)
  \/ input[t].wallet \in Wallet /\ ~Owned(t)
  \/ /\ Holds(p) /\ input[t].wallet = WalletOf(p) /\ input[t].kind # "LOSS"
     /\ \/ ~Priced(t)
        \/ /\ input[t].kind \in Reversal
           /\ \A r \in ProcessedReference(input[t].ref) : Refused(t, r)
        \/ /\ input[t].kind \notin Reversal
           /\ wallets[input[t].wallet].balance + Worth(t) < 0

\* The entries that p has ready: one of the transaction it has decided about, and one more
\* if it has resolved a reversal of it, which brings the balance back to where it was.
Ready(p, t) ==
  LET u == uow[p] IN
  \E e \in EntryType :
    /\ e.tx = t /\ e.before = wallets[WalletOf(p)].balance
    /\ e.after = e.before + Change(t, u.writes[t].refTx)
    /\ ~u.reversed => u.entries = <<e>> /\ u.wallet.balance = e.after
    /\ u.reversed => \E f \in EntryType :
                       /\ f.tx \in Foreign(p) /\ u.writes[f.tx].status = "PROCESSED"
                       /\ f.before = e.after /\ f.after = e.before
                       /\ u.entries = Append(<<e>>, f) /\ u.wallet.balance = f.after

\* What p has ready to commit is what the row says it has decided about.
Accounts(p, t) ==
  LET status == uow[p].writes[t].status IN
  /\ pc[p] = "commit" => status # "NONE"
  /\ status # "PROCESSED" \/ input[t].kind = "LOSS" => uow[p].entries = <<>>
  /\ status = "PROCESSED" => ExternallySubmittable(input[t].kind) /\ Owned(t)
  /\ status = "PROCESSED" /\ input[t].kind # "LOSS" => Priced(t) /\ Ready(p, t)
  /\ status \in {"REJECTED", "PENDING_REFERENCE"} => Vain(p, t)
  /\ status = "PENDING_REFERENCE" => Owned(t) /\ input[t].ref # None

\* Once a reversal of its own transaction is at hand, the loop applies one.
Resolves(p) ==
  /\ uow[p].reversed => \E s \in Staged(p) \ {Own(p)} : uow[p].writes[s].status = "PROCESSED"
  /\ p \in Request => \A s \in Foreign(p) : Matches(s, p) => uow[p].reversed

BooksOK(p) == Resolves(p) /\ (pc[p] # "idle" => Accounts(p, Own(p)))
Open(t) == pc[t] # "done" => answer[t] = Failed("NONE")

BooksInv ==
  /\ \A t \in Request : Booked(t) /\ Open(t)
  /\ \A p \in Process : BooksOK(p)

-----------------------------------------------------------------------------
(* What the rules say. *)

\* A reversal breaks no rule exactly when it matches what is not reversed yet.
LEMMA RulesMatch ==
  ASSUME NEW t \in Request, NEW r \in Request, NEW reversed, input[r].ext = input[t].ref
  PROVE  ReversalRejection(input[t], input[r], input[r].wallet, reversed) = None
           <=> Matches(t, r) /\ ~reversed
  BY NoneAssumption DEF ReversalRejection, Matches, FailureCode

\* Amounts are numbers.
LEMMA Amounts ==
  ASSUME NEW t \in Request, Submitted(t)
  PROVE  /\ input[t].amount \in Nat /\ Worth(t) \in Int
         /\ input[t].kind \in WagerKind /\ input[t].ext # None
  BY ConstantsAssumption DEF Submitted, Worth

\* What a reversal gives back is what the transaction it undoes was worth.
LEMMA MatchedWorth ==
  ASSUME NEW t \in Request, NEW r \in Request, Matches(t, r), input[t].kind \in Reversal
  PROVE  /\ input[r].kind \in {"BET", "WIN", "REFUND"} /\ input[r].amount = input[t].amount
         /\ input[t].kind = "REFUND" => input[r].kind = "BET"
         /\ Change(t, r) = -Worth(r)
         /\ input[t].wallet = input[r].wallet
         /\ Priced(t) <=> Priced(r)
  BY DEF Matches, AllowedReferenceKinds, Change, Reversal, Priced

\* Nobody undoes a transaction that moved no money.
LEMMA LossIsFinal ==
  ASSUME NEW t \in Request, NEW r \in Request, input[r].kind = "LOSS"
  PROVE  ~Matches(t, r)
  BY DEF Matches, AllowedReferenceKinds

\* The wallet a process decides about is as committed while it has no entries.
LEMMA WalletInSync ==
  ASSUME TypeInv, LedgerInv, NEW p \in Process, Holds(p), uow[p].entries = <<>>
  PROVE  uow[p].wallet.balance = wallets[WalletOf(p)].balance
  <1> DEFINE w == WalletOf(p)
  <1>1. w \in Wallet /\ ledger[w] \in Seq(EntryType)
    BY DEF Holds, TypeInv, DatabaseOK
  <1>2. Chained(ledger[w] \o <<>>, uow[p].wallet.balance)
    BY DEF LedgerInv, HolderInSync, Holds
  <1>3. Chained(ledger[w], wallets[w].balance)
    BY <1>1 DEF LedgerInv, LedgerSound
  <1> HIDE DEF w
  <1>4. Chained(ledger[w], uow[p].wallet.balance)
    BY <1>1, <1>2, ConcatNothing
  <1>5. uow[p].wallet.balance = wallets[w].balance
    BY <1>3, <1>4 DEF Chained
  <1> QED
    BY <1>5 DEF w

-----------------------------------------------------------------------------
(* What a process stages. *)

\* A row that is rejected moves nothing.
LEMMA RejectedMovesNothing ==
  ASSUME NEW u \in UowType, NEW t \in Request, NEW code, NEW v, v = Rejected(u, t, code)
  PROVE  /\ v.writes[t].status = "REJECTED" /\ v.entries = u.entries
         /\ v.wallet = u.wallet /\ v.reversed = u.reversed
  BY DEF Rejected, NoRow, UowType

\* A transaction is applied with one entry, which moves what it changes, or rejected
\* because it cannot be.
Gains(u, v, t, r, gain, currency, w) ==
  /\ v.reversed = u.reversed
  /\ \/ /\ v.writes[t].status = "REJECTED" /\ v.entries = u.entries /\ v.wallet = u.wallet
        /\ currency # WalletCurrency[w] \/ u.wallet.balance + gain < 0
     \/ /\ v.writes[t].status = "PROCESSED" /\ v.writes[t].refTx = r
        /\ currency = WalletCurrency[w] /\ u.wallet.balance + gain >= 0
        /\ \E e \in EntryType : /\ e.tx = t /\ e.before = u.wallet.balance
                                /\ e.after = e.before + gain
                                /\ v.entries = Append(u.entries, e)
                                /\ v.wallet.balance = e.after

LEMMA MovedGains ==
  ASSUME NEW u \in UowType, NEW t \in Request, NEW r, NEW w, NEW e, NEW v,
         v = Moved(u, t, r, w, e)
  PROVE  /\ v.reversed = u.reversed
         /\ v.writes[t].status = "PROCESSED" /\ v.writes[t].refTx = r
         /\ v.entries = Append(u.entries, e) /\ v.wallet.balance = e.after
  BY DEF Moved, UowType

LEMMA ApplyGains ==
  ASSUME NEW u \in UowType, NEW t \in Request, Submitted(t),
         NEW r \in Request \cup {None}, r # None => Submitted(r), NEW w,
         NEW gain, gain = IF r = None THEN Worth(t) ELSE -Worth(r),
         NEW currency, currency = IF r = None THEN input[t].currency ELSE input[r].currency,
         NEW v, v = ApplyToWallet(u, t, r, w)
  PROVE  Gains(u, v, t, r, gain, currency, w)
  <1> DEFINE money     == IF r = None THEN input[t] ELSE input[r]
             direction == DirectionOf(input[t].kind, IF r = None THEN None ELSE input[r].kind)
             b == u.wallet.balance
             why == ApplyRejection(b, WalletCurrency[w], direction, money.amount, money.currency)
             e == LedgerEntry(t, direction, money.amount, b)
  <1>1. money.amount \in Nat /\ money.currency = currency /\ b \in Nat
    BY Amounts DEF UowType, WalletType
  <1>2. direction \in Direction /\ gain = IF direction = "DEBIT" THEN -money.amount ELSE money.amount
    <2>1. CASE r = None
      BY <2>1 DEF DirectionOf, OriginalDirection, Direction, Worth
    <2>2. CASE r # None
      <3>1. r \in Request /\ input[r].kind # None
        BY <2>2, Amounts, NoneAssumption
      <3> QED
        BY <2>2, <3>1, Amounts DEF DirectionOf, OriginalDirection, Direction, Worth
    <2> QED
      BY <2>1, <2>2
  <1>3. \/ why # None /\ \E code : v = Rejected(u, t, code)
        \/ why = None /\ v = Moved(u, t, r, w, e)
    BY DEF ApplyToWallet
  <1> HIDE DEF money, direction, b
  <1>4. CASE why # None /\ \E code : v = Rejected(u, t, code)
    <2>1. currency # WalletCurrency[w] \/ b + gain < 0
      BY <1>1, <1>2, <1>4 DEF ApplyRejection
    <2> QED
      BY <1>4, <2>1, RejectedMovesNothing DEF Gains, b
  <1>5. CASE why = None /\ v = Moved(u, t, r, w, e)
    <2>1. currency = WalletCurrency[w] /\ b + gain >= 0
      BY <1>1, <1>2, <1>5, NoneAssumption DEF ApplyRejection, FailureCode, Direction
    <2>2. /\ e \in EntryType /\ e.tx = t /\ e.before = b /\ e.after = b + gain
      BY <1>1, <1>2, <2>1 DEF LedgerEntry, EntryType, Direction
    <2> HIDE DEF e
    <2>3. /\ v.reversed = u.reversed
          /\ v.writes[t].status = "PROCESSED" /\ v.writes[t].refTx = r
          /\ v.entries = Append(u.entries, e) /\ v.wallet.balance = e.after
      BY <1>5, MovedGains
    <2> QED
      BY <2>1, <2>2, <2>3 DEF Gains, b
  <1> QED
    BY <1>3, <1>4, <1>5

\* What a process that has staged nothing may stage about the row it decides about.
Decides(p, v, t) ==
  LET status == v.writes[t].status IN
  /\ status # "NONE" /\ ~v.reversed
  /\ status # "PROCESSED" \/ input[t].kind = "LOSS" => v.entries = <<>>
  /\ status = "PROCESSED" => ExternallySubmittable(input[t].kind) /\ Owned(t)
  /\ status = "PROCESSED" /\ input[t].kind # "LOSS" =>
       /\ Priced(t)
       /\ \E e \in EntryType :
            /\ e.tx = t /\ e.before = wallets[WalletOf(p)].balance
            /\ e.after = e.before + Change(t, v.writes[t].refTx)
            /\ v.entries = <<e>> /\ v.wallet.balance = e.after
  /\ status \in {"REJECTED", "PENDING_REFERENCE"} => Vain(p, t)
  /\ status = "PENDING_REFERENCE" => Owned(t) /\ input[t].ref # None

\* A process that decides about t has the wallet as committed and nothing staged.
Decider(p, t) ==
  /\ p \in Process /\ t \in Request /\ t = Own(p) /\ Submitted(t) /\ Holds(p)
  /\ uow[p] \in UowType /\ uow[p].entries = <<>> /\ ~uow[p].reversed
  /\ uow[p].wallet.balance = wallets[WalletOf(p)].balance
  /\ input[t].wallet = WalletOf(p)

\* Rejecting a row for which there is nothing to be had.
LEMMA RejectDecides ==
  ASSUME NEW p, NEW t, Decider(p, t), NEW code, NEW v, v = Rejected(uow[p], t, code), Vain(p, t)
  PROVE  Decides(p, v, t)
  BY RejectedMovesNothing DEF Decider, Decides

\* Applying a transaction, or rejecting it because it cannot be.
LEMMA GainsDecide ==
  ASSUME NEW p, NEW t, Decider(p, t), NEW r, NEW v, NEW gain, NEW currency, NEW w,
         w = WalletOf(p), Gains(uow[p], v, t, r, gain, currency, w), gain = Change(t, r),
         ExternallySubmittable(input[t].kind), Owned(t), input[t].kind # "LOSS",
         currency = WalletCurrency[w] <=> Priced(t),
         ~Priced(t) \/ wallets[w].balance + gain < 0 => Vain(p, t)
  PROVE  Decides(p, v, t)
  <1>1. CASE /\ v.writes[t].status = "REJECTED" /\ v.entries = uow[p].entries
             /\ currency # WalletCurrency[w] \/ uow[p].wallet.balance + gain < 0
    BY <1>1 DEF Decider, Decides, Gains
  <1>2. CASE /\ v.writes[t].status = "PROCESSED" /\ v.writes[t].refTx = r
             /\ currency = WalletCurrency[w]
             /\ \E e \in EntryType : /\ e.tx = t /\ e.before = uow[p].wallet.balance
                                     /\ e.after = e.before + gain
                                     /\ v.entries = Append(uow[p].entries, e)
                                     /\ v.wallet.balance = e.after
    <2> PICK e \in EntryType : /\ e.tx = t /\ e.before = uow[p].wallet.balance
                               /\ e.after = e.before + gain
                               /\ v.entries = Append(uow[p].entries, e)
                               /\ v.wallet.balance = e.after
      BY <1>2
    <2>1. v.entries = <<e>>
      BY OneByOne DEF Decider
    <2> QED
      BY <1>2, <2>1 DEF Decider, Decides, Gains
  <1> QED
    BY <1>1, <1>2 DEF Gains

\* Of a stored external identifier there is one transaction.
LEMMA OneReference ==
  ASSUME SubmitInv, NEW ref, NEW r \in ProcessedReference(ref), NEW s \in ProcessedReference(ref)
  PROVE  r = s
  BY DEF SubmitInv, Unique, Collide, ProcessedReference, FindByExt

\* Checking and applying a reversal of a stored transaction.
LEMMA ReverseDecides ==
  ASSUME TypeInv, SubmitInv, NEW p, NEW t, Decider(p, t),
         input[t].kind \in Reversal, Owned(t), NEW r \in ProcessedReference(input[t].ref),
         NEW reversed, reversed = AlreadyReversed(input[t].ref),
         NEW w, w = input[t].wallet, NEW v, v = Reverse(uow[p], t, r, w, reversed)
  PROVE  Decides(p, v, t)
  <1>a. /\ t \in Request /\ r \in Request /\ r \in Stored /\ Submitted(r) /\ Submitted(t)
        /\ input[r].ext = input[t].ref
    BY StoredKnown DEF Decider, ProcessedReference, FindByExt, Stored, Known
  <1>b. \A s \in ProcessedReference(input[t].ref) : s = r
    BY OneReference
  <1>c. ExternallySubmittable(input[t].kind) /\ input[t].kind # "LOSS"
    BY DEF Reversal, ExternallySubmittable
  <1> DEFINE why == ReversalRejection(input[t], input[r], input[r].wallet, reversed)
  <1>1. why = None <=> Matches(t, r) /\ ~reversed
    BY <1>a, RulesMatch
  <1>2. v = IF why = None THEN ApplyToWallet(uow[p], t, r, w) ELSE Rejected(uow[p], t, why)
    BY DEF Reverse
  <1> HIDE DEF why
  <1>3. CASE why # None
    <2>1. Vain(p, t)
      BY <1>1, <1>3, <1>b, <1>c DEF Vain, Refused, Decider
    <2> QED
      BY <1>2, <1>3, <2>1, RejectDecides
  <1>4. CASE why = None
    <2>1. Matches(t, r) /\ ~reversed
      BY <1>1, <1>4
    <2>2. Change(t, r) = -Worth(r) /\ (Priced(t) <=> Priced(r)) /\ input[r].wallet = w
      BY <1>a, <2>1, MatchedWorth
    <2>3. r # None
      BY <1>a, ConstantsAssumption
    <2>4. Gains(uow[p], v, t, r, -Worth(r), input[r].currency, w)
      BY <1>a, <1>2, <1>4, <2>3, ApplyGains DEF Decider
    <2>5. ASSUME ~Priced(t) \/ wallets[w].balance + (-Worth(r)) < 0 PROVE Vain(p, t)
      <3>1. wallets[w].balance + (-Worth(r)) = wallets[w].balance - Worth(r)
        BY <1>a, Amounts DEF Decider, TypeInv, DatabaseOK, WalletType, Holds
      <3> QED
        BY <1>b, <1>c, <2>5, <3>1 DEF Vain, Refused, Decider
    <2>6. w = WalletOf(p)
      BY DEF Decider
    <2> QED
      BY <1>c, <2>2, <2>4, <2>5, <2>6, GainsDecide DEF Priced
  <1> QED
    BY <1>3, <1>4

\* Applying a bet or a win.
LEMMA MoneyDecides ==
  ASSUME TypeInv, NEW p, NEW t, Decider(p, t), input[t].kind \in {"BET", "WIN"}, Owned(t),
         NEW w, w = input[t].wallet, NEW v, v = ApplyToWallet(uow[p], t, None, w)
  PROVE  Decides(p, v, t)
  <1>1. /\ ExternallySubmittable(input[t].kind) /\ input[t].kind # "LOSS"
        /\ input[t].kind \notin Reversal /\ Change(t, None) = Worth(t)
    BY DEF Reversal, ExternallySubmittable, Change
  <1>2. Gains(uow[p], v, t, None, Worth(t), input[t].currency, w)
    BY ApplyGains DEF Decider
  <1>3. ~Priced(t) \/ wallets[w].balance + Worth(t) < 0 => Vain(p, t)
    BY <1>1 DEF Vain, Decider
  <1> QED
    BY <1>1, <1>2, <1>3, GainsDecide DEF Priced, Decider

-----------------------------------------------------------------------------
(* What a step does to the process that takes it. *)

\* The row a process that is at work decides about is one of the table's.
LEMMA OwnRow ==
  ASSUME TypeInv, NEW p \in Process, pc[p] # "idle"
  PROVE  Own(p) \in Request /\ Submitted(Own(p)) /\ input[Own(p)].wallet = WalletOf(p)
  BY DEF Own, Process, TypeInv, ControlOK, Known, WalletOf

\* A process that has staged nothing has no entries and has resolved nothing.
LEMMA NothingYet ==
  ASSUME TypeInv, LedgerInv, BooksInv, NEW p \in Process, Staged(p) = {}
  PROVE  ~uow[p].reversed /\ uow[p].entries = <<>>
  <1>1. BooksOK(p) /\ ~uow[p].reversed
    BY DEF BooksInv, BooksOK, Resolves
  <1>2. CASE pc[p] = "idle"
    BY <1>1, <1>2, QuietHasNothing DEF Quiet
  <1>3. CASE pc[p] # "idle"
    <2>1. uow[p].writes[Own(p)].status = "NONE"
      BY <1>3, OwnRow, AbsentRow DEF Staged
    <2> QED
      BY <1>1, <1>3, <2>1 DEF BooksOK, Accounts
  <1> QED
    BY <1>2, <1>3

\* A process that goes on with nothing staged.
LEMMA ClearBooks ==
  ASSUME TypeInv', NEW p \in Process, Staged(p)' = {}, uow'[p].entries = <<>>,
         ~uow'[p].reversed, pc'[p] # "commit"
  PROVE  BooksOK(p)'
  <1>1. Resolves(p)'
    BY DEF Resolves, Foreign
  <1>2. ASSUME pc'[p] # "idle"
        PROVE  Accounts(p, Own(p))'
    <2>1. Own(p)' \in Request
      BY <1>2 DEF Own, Process, TypeInv, ControlOK
    <2>2. uow'[p].writes[Own(p)'].status = "NONE"
      BY <2>1, AbsentRow DEF Staged
    <2> QED
      BY <2>2 DEF Accounts
  <1> QED
    BY <1>1, <1>2 DEF BooksOK

LEMMA EndedBooks ==
  ASSUME TypeInv', NEW p \in Process, uow'[p] = EmptyUow, pc'[p] # "commit"
  PROVE  BooksOK(p)'
  BY ClearBooks DEF EmptyUow, Staged

\* What a process has ready stays so while the wallet has the balance it started from.
LEMMA ReadyKept ==
  ASSUME NEW p \in Process, NEW t \in Request, Ready(p, t),
         wallets'[WalletOf(p)'].balance = wallets[WalletOf(p)].balance,
         NEW r, r = uow[p].writes[t].refTx, uow'[p].writes[t].refTx = r,
         Change(t, r)' = Change(t, r),
         uow'[p].entries = uow[p].entries, uow'[p].wallet = uow[p].wallet,
         uow'[p].reversed <=> uow[p].reversed,
         \A x \in Foreign(p) : x \in Foreign(p)' /\ uow'[p].writes[x] = uow[p].writes[x]
  PROVE  Ready(p, t)'
  <1> PICK e \in EntryType :
        /\ e.tx = t /\ e.before = wallets[WalletOf(p)].balance
        /\ e.after = e.before + Change(t, r)
        /\ ~uow[p].reversed => uow[p].entries = <<e>> /\ uow[p].wallet.balance = e.after
        /\ uow[p].reversed => \E f \in EntryType :
                           /\ f.tx \in Foreign(p) /\ uow[p].writes[f.tx].status = "PROCESSED"
                           /\ f.before = e.after /\ f.after = e.before
                           /\ uow[p].entries = Append(<<e>>, f) /\ uow[p].wallet.balance = f.after
    BY DEF Ready
  <1>1. e.before = wallets'[WalletOf(p)'].balance /\ e.after = e.before + Change(t, r)'
    OBVIOUS
  <1>2. ~uow'[p].reversed => uow'[p].entries = <<e>> /\ uow'[p].wallet.balance = e.after
    OBVIOUS
  <1>3. uow'[p].reversed => \E f \in EntryType :
          /\ f.tx \in Foreign(p)' /\ uow'[p].writes[f.tx].status = "PROCESSED"
          /\ f.before = e.after /\ f.after = e.before
          /\ uow'[p].entries = Append(<<e>>, f) /\ uow'[p].wallet.balance = f.after
    OBVIOUS
  <1> QED
    BY <1>1, <1>2, <1>3 DEF Ready

\* A process that goes on with what it has staged.
LEMMA SameBooks ==
  ASSUME TypeInv, BooksInv, NEW p \in Process, pc[p] # "idle", pc'[p] # "idle",
         UNCHANGED <<input, target, rows, wallets, walletLock>>,
         uow'[p].writes = uow[p].writes, uow'[p].entries = uow[p].entries,
         uow'[p].wallet = uow[p].wallet, uow'[p].reversed <=> uow[p].reversed,
         pc'[p] = "commit" => uow[p].writes[Own(p)].status # "NONE"
  PROVE  BooksOK(p)'
  <1>a. BooksOK(p) /\ Own(p)' = Own(p) /\ Holds(p)' = Holds(p) /\ WalletOf(p)' = WalletOf(p)
        /\ Staged(p)' = Staged(p) /\ Foreign(p)' = Foreign(p)
    BY DEF BooksInv, Own, Holds, WalletOf, Staged, Foreign
  <1>1. Resolves(p)'
    BY <1>a DEF BooksOK, Resolves, Matches
  <1> PICK t \in Request : t = Own(p)
    BY OwnRow
  <1>2. Vain(p, t)' = Vain(p, t)
    BY <1>a DEF Vain, Owned, Priced, Refused, Matches, AlreadyReversed, ProcessedReference,
                FindByExt, Stored, Worth
  <1>3. Ready(p, t) => Ready(p, t)'
    <2> PICK r : r = uow[p].writes[t].refTx
      OBVIOUS
    <2>1. Change(t, r)' = Change(t, r)
      BY DEF Change, Worth
    <2> QED
      BY <1>a, <2>1, ReadyKept DEF Foreign, Staged
  <1>4. Accounts(p, t)'
    BY <1>a, <1>2, <1>3 DEF BooksOK, Accounts, Owned, Priced
  <1> QED
    BY <1>a, <1>1, <1>4 DEF BooksOK

\* A process that has decided.
LEMMA DecidedBooks ==
  ASSUME NEW p \in Process, NEW t \in Request, NEW v, t = Own(p), Staged(p) = {},
         p \in Request => t = p,
         Settles(uow[p], v, t), Decides(p, v, t), uow'[p] = v,
         UNCHANGED <<input, target, rows, wallets, walletLock>>
  PROVE  BooksOK(p)'
  <1>a. Own(p)' = t /\ Holds(p)' = Holds(p) /\ WalletOf(p)' = WalletOf(p)
    BY DEF Own, Holds, WalletOf
  <1>b. Staged(p)' = {t} /\ (p \in Request => Foreign(p)' = {})
    BY DEF Staged, Foreign, Settles
  <1>1. Resolves(p)'
    BY <1>b DEF Resolves, Decides
  <1>2. Vain(p, t)' = Vain(p, t)
    BY <1>a DEF Vain, Owned, Priced, Refused, Matches, AlreadyReversed, ProcessedReference,
                FindByExt, Stored, Worth
  <1>3. ASSUME v.writes[t].status = "PROCESSED", input[t].kind # "LOSS"
        PROVE  Ready(p, t)'
    BY <1>a, <1>3 DEF Decides, Ready, Change, Worth
  <1>4. Accounts(p, t)'
    BY <1>2, <1>3 DEF Decides, Accounts, Owned, Priced
  <1> QED
    BY <1>a, <1>1, <1>4 DEF BooksOK

\* Who decides is at the start of its transaction.
LEMMA DeciderNow ==
  ASSUME TypeInv, LedgerInv, BooksInv, NEW p \in Process, pc[p] = "decide", Staged(p) = {}
  PROVE  Decider(p, Own(p))
  <1>1. Holds(p)
    BY DEF LedgerInv, LockHeld, Deciding
  <1>2. ~uow[p].reversed /\ uow[p].entries = <<>>
    BY NothingYet
  <1>3. uow[p].wallet.balance = wallets[WalletOf(p)].balance
    BY <1>1, <1>2, WalletInSync
  <1> QED
    BY <1>1, <1>2, <1>3, OwnRow DEF Decider, TypeInv, UowOK

\* No row is named by nothing.
LEMMA NoNameNoRow ==
  ASSUME TypeInv
  PROVE  ProcessedReference(None) = {}
  <1>1. \A r \in Stored : r \in Request /\ Submitted(r)
    BY StoredKnown DEF Stored, Known
  <1> QED
    BY <1>1, Amounts DEF ProcessedReference, FindByExt

\* A request decides about its own row.
LEMMA RequestDecides ==
  ASSUME TypeInv, SubmitInv, LedgerInv, BooksInv, NEW p \in Request, Decide(p), Staged(p) = {}
  PROVE  \E v : Stage(p, v) /\ Settles(uow[p], v, p) /\ Decides(p, v, p)
  <1>a. p \in Process /\ uow[p] \in UowType /\ Own(p) = p /\ WalletOf(p) = input[p].wallet
    BY ConstantsAssumption DEF Process, TypeInv, UowOK, Own, WalletOf
  <1>b. Decider(p, p)
    BY <1>a, DeciderNow DEF Decide
  <1>c. PICK v : Stage(p, v) /\ Settles(uow[p], v, p)
    BY DecideSettles
  <1>d. \A u : Stage(p, u) => u = v
    BY <1>a, <1>c DEF Stage, TypeInv, UowOK
  <1>e. input[p].wallet \in Wallet
    BY <1>a, <1>b DEF Decider, Holds
  <1>1. CASE input[p].player # WalletPlayer[input[p].wallet]
             /\ Stage(p, Rejected(uow[p], p, "PLAYER_MISMATCH"))
    <2>1. Vain(p, p)
      BY <1>e, <1>1 DEF Vain, Owned
    <2> QED
      BY <1>b, <1>c, <1>d, <1>1, <2>1, RejectDecides
  <1>2. CASE /\ input[p].kind \in Reversal /\ input[p].ref = None
             /\ Stage(p, Rejected(uow[p], p, "REFERENCE_NOT_FOUND"))
    <2>1. Vain(p, p)
      BY <1>b, <1>2, NoNameNoRow DEF Vain, Decider, Reversal
    <2> QED
      BY <1>b, <1>c, <1>d, <1>2, <2>1, RejectDecides
  <1>3. CASE /\ Owned(p) /\ input[p].kind \in Reversal /\ input[p].ref # None
             /\ ProcessedReference(input[p].ref) = {}
             /\ Stage(p, PendingReference(uow[p], p))
    <2>1. v = PendingReference(uow[p], p)
      BY <1>d, <1>3
    <2>2. /\ v.writes[p].status = "PENDING_REFERENCE"
          /\ v.entries = uow[p].entries /\ v.reversed = uow[p].reversed
      BY <1>a, <2>1 DEF PendingReference, NoRow, UowType
    <2>3. Vain(p, p)
      BY <1>b, <1>3 DEF Vain, Decider, Reversal
    <2> QED
      BY <1>b, <1>c, <1>3, <2>2, <2>3 DEF Decides, Decider
  <1>4. CASE /\ Owned(p) /\ input[p].kind \in Reversal
             /\ \E r \in ProcessedReference(input[p].ref) :
                  Stage(p, Reverse(uow[p], p, r, input[p].wallet, AlreadyReversed(input[p].ref)))
    BY <1>b, <1>c, <1>d, <1>4, ReverseDecides
  <1>5. CASE /\ Owned(p) /\ input[p].kind = "LOSS"
             /\ Stage(p, Settled(uow[p], p, input[p].wallet))
    <2>1. v = Settled(uow[p], p, input[p].wallet)
      BY <1>d, <1>5
    <2>2. /\ v.writes[p].status = "PROCESSED"
          /\ v.entries = uow[p].entries /\ v.reversed = uow[p].reversed
      BY <1>a, <2>1 DEF Settled, NoRow, UowType
    <2> QED
      BY <1>b, <1>c, <1>5, <2>2 DEF Decides, Decider, ExternallySubmittable
  <1>6. CASE /\ Owned(p) /\ input[p].kind \in {"BET", "WIN"}
             /\ Stage(p, ApplyToWallet(uow[p], p, None, input[p].wallet))
    BY <1>b, <1>c, <1>d, <1>6, MoneyDecides
  <1> QED
    BY <1>1, <1>2, <1>3, <1>4, <1>5, <1>6 DEF Decide, Owned

\* A worker decides about the row it retries.
LEMMA WorkerDecides ==
  ASSUME TypeInv, SubmitInv, LedgerInv, ReversalInv, BooksInv, NEW k \in Worker, Retry(k),
         Staged(k) = {}, rows[target[k]].status = "PENDING_REFERENCE"
  PROVE  \E v : Stage(k, v) /\ Settles(uow[k], v, target[k]) /\ Decides(k, v, target[k])
  <1> DEFINE t == target[k]
  <1>a. k \in Process /\ uow[k] \in UowType /\ Own(k) = t
    BY DEF Process, TypeInv, UowOK, Own
  <1>b. Decider(k, t)
    BY <1>a, DeciderNow DEF Retry
  <1>c. PICK v : Stage(k, v) /\ Settles(uow[k], v, t)
    BY RetrySettles
  <1>d. \A u : Stage(k, u) => u = v
    BY <1>a, <1>c DEF Stage, TypeInv, UowOK
  <1>e. Owned(t) /\ input[t].kind \in Reversal
    BY <1>b DEF BooksInv, Booked, Decider, ReversalInv, StoredOK, Stored
  <1> HIDE DEF t
  <1>1. CASE /\ ProcessedReference(input[t].ref) = {}
             /\ Stage(k, Rejected(uow[k], t, "REFERENCE_NOT_FOUND"))
    <2>1. Vain(k, t)
      BY <1>b, <1>e, <1>1 DEF Vain, Decider, Reversal
    <2> QED
      BY <1>b, <1>c, <1>d, <1>1, <2>1, RejectDecides DEF t
  <1>2. CASE \E r \in ProcessedReference(input[t].ref) :
               Stage(k, Reverse(uow[k], t, r, input[t].wallet, AlreadyReversed(input[t].ref)))
    BY <1>b, <1>c, <1>d, <1>e, <1>2, ReverseDecides DEF t
  <1> QED
    BY <1>1, <1>2 DEF Retry, t

\* Nothing stored reverses a row that is not stored yet.
LEMMA NotReversedYet ==
  ASSUME SubmitInv, ReversalInv, NEW p \in Request, p \in Inserting
  PROVE  ~AlreadyReversed(input[p].ext)
  <1> SUFFICES ASSUME NEW s \in Undone, input[s].ref = input[p].ext PROVE FALSE
    BY DEF AlreadyReversed, Undone
  <1> DEFINE r == rows[s].refTx
  <1>1. r \in Stored /\ Matches(s, r)
    BY DEF ReversalInv, StoredOK
  <1> HIDE DEF r
  <1>2. r = p
    BY <1>1 DEF Matches, SubmitInv, Unique, Collide
  <1> QED
    BY <1>1, <1>2 DEF SubmitInv, RowsKnown, Inserting

\* A request that looks for what waits for it has resolved nothing yet.
LEMMA FindBooks ==
  ASSUME TypeInv, SubmitInv, ReversalInv, BooksInv, NEW p \in Request, FindPending(p)
  PROVE  BooksOK(p)'
  <1>a. /\ p \in Process /\ uow \in [Process -> UowType] /\ pc \in [Process -> Label]
        /\ pc[p] = "find" /\ Foreign(p) = {} /\ Own(p) = p
    BY StagedAsFar, ConstantsAssumption
       DEF FindPending, Process, TypeInv, UowOK, ControlOK, Own
  <1>1. ~uow[p].reversed
    BY <1>a DEF BooksInv, BooksOK, Resolves, Foreign
  <1>2. ~AlreadyReversed(input[p].ext)
    BY <1>a, NotReversedYet DEF Inserting
  <1>3. /\ uow'[p].writes = uow[p].writes /\ uow'[p].entries = uow[p].entries
        /\ uow'[p].wallet = uow[p].wallet /\ ~uow'[p].reversed
    BY <1>a, <1>2 DEF FindPending, UowType
  <1>4. uow[p].writes[p].status # "NONE" /\ pc'[p] # "idle"
    BY <1>a DEF FindPending, Go, ReversalInv, ProcessOK, RequestRows
  <1> QED
    BY <1>a, <1>1, <1>3, <1>4, SameBooks DEF FindPending, Database, Locks

\* What a process has decided to apply adds what it is worth, if anybody may undo it.
LEMMA Worthwhile ==
  ASSUME TypeInv, ReversalInv, NEW q \in Process, NEW t \in Request, Submitted(t),
         input[t].kind \in {"BET", "WIN", "REFUND"}, uow[q].writes[t].status = "PROCESSED"
  PROVE  Change(t, uow[q].writes[t].refTx) = Worth(t)
  <1>1. CASE input[t].kind \in {"BET", "WIN"}
    BY <1>1 DEF Change, Reversal
  <1>2. CASE input[t].kind = "REFUND"
    <2> DEFINE r == uow[q].writes[t].refTx
    <2>1. r \in Request /\ Matches(t, r)
      BY <1>2 DEF ReversalInv, ProcessOK, Undoes, Undoing, Reversal
    <2> HIDE DEF r
    <2>2. input[r].kind = "BET" /\ input[r].amount = input[t].amount /\ Change(t, r) = -Worth(r)
      BY <1>2, <2>1, MatchedWorth DEF Reversal
    <2>3. Worth(r) = -input[t].amount /\ Worth(t) = input[t].amount
      BY <1>2, <2>2 DEF Worth
    <2>4. -(-input[t].amount) = input[t].amount
      BY Amounts
    <2> QED
      BY <2>2, <2>3, <2>4 DEF r
  <1> QED
    BY <1>1, <1>2

\* One turn of the loop applies the first reversal that matches, and it takes back just
\* what the transaction has moved; it rejects the others.
LEMMA ResolveBooks ==
  ASSUME TypeInv, SubmitInv, LedgerInv, ReversalInv, BooksInv, NEW p \in Request,
         NEW t \in Request, ResolvePending(p, t)
  PROVE  BooksOK(p)'
  <1> DEFINE u == Reverse(uow[p], t, p, input[p].wallet, uow[p].reversed)
             v == [u EXCEPT !.todo = uow[p].todo \ {t},
                            !.reversed = @ \/ u.writes[t].status = "PROCESSED"]
             w == input[p].wallet
             b == wallets[w].balance
             why == ReversalRejection(input[t], input[p], input[p].wallet, uow[p].reversed)
  <1>a. /\ p \in Process /\ p \notin Worker /\ uow[p] \in UowType
        /\ pc[p] = "resolve" /\ t \in uow[p].todo
        /\ UNCHANGED <<input, target, rows, wallets, walletLock>>
        /\ Own(p) = p /\ Own(p)' = p /\ WalletOf(p) = w /\ WalletOf(p)' = w
    BY ConstantsAssumption
       DEF ResolvePending, Process, TypeInv, UowOK, Database, Own, WalletOf
  <1>b. ProcessOK(p) /\ BooksOK(p) /\ Holds(p) /\ w \in Wallet
    BY <1>a DEF ReversalInv, BooksInv, LedgerInv, LockHeld, Deciding, Holds
  <1>c. /\ t \in Stored /\ t # p
        /\ input[t].kind \in Reversal /\ input[t].ref = input[p].ext
        /\ uow[p].writes[p].status = "PROCESSED"
        /\ Submitted(p) /\ Submitted(t)
    BY <1>a, <1>b, StoredKnown
       DEF ProcessOK, RequestRows, SubmitInv, RowsKnown, TypeInv, ControlOK, Known
  <1>d. Accounts(p, p) /\ Resolves(p)
    BY <1>a, <1>b DEF BooksOK
  <1>1. uow'[p] = v /\ pc'[p] # "idle"
    BY <1>a DEF ResolvePending, Stage, Go, TypeInv, UowOK, ControlOK
  <1>2. Settles(uow[p], u, t)
    BY <1>a, <1>c, ReverseSettles
  <1>3. why = None <=> Matches(t, p) /\ ~uow[p].reversed
    BY <1>c, RulesMatch
  <1>4. u = IF why = None THEN ApplyToWallet(uow[p], t, p, w) ELSE Rejected(uow[p], t, why)
    BY DEF Reverse
  <1> HIDE DEF u, why
  <1>5. /\ v.writes = u.writes /\ v.entries = u.entries /\ v.wallet = u.wallet
        /\ v.reversed = (u.reversed \/ u.writes[t].status = "PROCESSED")
        /\ u.writes[p] = uow[p].writes[p]
        /\ \A s \in Request \ {t} : u.writes[s] = uow[p].writes[s]
    BY <1>2, <1>c DEF Settles, UowType
  <1> HIDE DEF v
  <1>6. Staged(p)' = Staged(p) \cup {t} /\ Foreign(p)' = Foreign(p) \cup {t}
    BY <1>c, <1>1, <1>2, <1>5 DEF Foreign, Staged, Settles
  <1>7. Vain(p, p)' = Vain(p, p) /\ Owned(p)' = Owned(p) /\ Priced(p)' = Priced(p)
    BY <1>a DEF Vain, Owned, Priced, Refused, Matches, AlreadyReversed, ProcessedReference,
                FindByExt, Stored, Worth, Holds, WalletOf
  \* The reversal is rejected.
  <1>8. CASE why # None
    <2>1. /\ u.writes[t].status = "REJECTED" /\ u.entries = uow[p].entries
          /\ u.wallet = uow[p].wallet /\ u.reversed = uow[p].reversed
      BY <1>a, <1>4, <1>8, RejectedMovesNothing
    <2>2. v.reversed <=> uow[p].reversed
      BY <1>5, <2>1
    <2>3. Resolves(p)'
      <3>1. v.reversed => \E s \in Staged(p)' \ {p} : v.writes[s].status = "PROCESSED"
        <4> SUFFICES ASSUME v.reversed
                     PROVE  \E s \in Staged(p)' \ {p} : v.writes[s].status = "PROCESSED"
          OBVIOUS
        <4>1. PICK s \in Staged(p) \ {p} : uow[p].writes[s].status = "PROCESSED"
          BY <1>a, <1>d, <2>2 DEF Resolves
        <4>2. s # t
          BY <1>a, <1>b, <1>c, <4>1, ConstantsAssumption
             DEF ProcessOK, Guarded, Foreign, ResolvePending
        <4> QED
          BY <1>5, <1>6, <4>1, <4>2 DEF Staged
      <3>2. \A s \in Foreign(p)' : Matches(s, p) => v.reversed
        BY <1>3, <1>8, <1>6, <1>d, <2>2 DEF Resolves
      <3> QED
        BY <1>1, <1>a, <3>1, <3>2 DEF Resolves, Matches
    <2>4. Ready(p, p) => Ready(p, p)'
      <3> SUFFICES ASSUME Ready(p, p) PROVE Ready(p, p)'
        OBVIOUS
      <3>1. \A x \in Foreign(p) : x # t
        BY <1>a, <1>b, <1>c, ConstantsAssumption
             DEF ProcessOK, Guarded, ResolvePending
      <3>2. \A x \in Foreign(p) : x \in Foreign(p)' /\ v.writes[x] = uow[p].writes[x]
        BY <1>5, <1>6, <3>1 DEF Foreign, Staged
      <3> PICK r : r = uow[p].writes[p].refTx
        OBVIOUS
      <3>3. Change(p, r)' = Change(p, r)
        BY <1>a DEF Change, Worth
      <3> QED
        BY <1>1, <1>5, <1>a, <2>1, <2>2, <3>2, <3>3, ReadyKept
    <2>5. Accounts(p, p)'
      BY <1>1, <1>5, <1>7, <1>a, <1>c, <1>d, <2>1, <2>4 DEF Accounts
    <2> QED
      BY <1>a, <2>3, <2>5 DEF BooksOK
  \* It is applied.
  <1>9. CASE why = None
    <2>1. Matches(t, p) /\ ~uow[p].reversed
      BY <1>3, <1>9
    <2>2. input[p].kind # "LOSS" /\ (Priced(t) <=> Priced(p)) /\ input[p].wallet = w
      BY <1>c, <2>1, MatchedWorth, LossIsFinal
    <2> DEFINE r == uow[p].writes[p].refTx
    <2>3. Priced(p) /\ Change(p, r) = Worth(p)
      BY <1>a, <1>c, <1>d, <2>1, <2>2, MatchedWorth, Worthwhile DEF Accounts
    <2>4. PICK e \in EntryType :
            /\ e.tx = p /\ e.before = b /\ e.after = e.before + Worth(p)
            /\ uow[p].entries = <<e>> /\ uow[p].wallet.balance = e.after
      BY <1>a, <1>c, <1>d, <2>1, <2>2, <2>3 DEF Accounts, Ready
    <2>5. Gains(uow[p], u, t, p, -Worth(p), input[p].currency, w)
      <3>1. p # None
        BY ConstantsAssumption
      <3> QED
        BY <1>4, <1>9, <1>a, <1>c, <3>1, ApplyGains
    <2>6. Worth(p) \in Int /\ e.before \in Nat /\ e.after \in Nat /\ e.after + (-Worth(p)) = e.before
      BY <1>c, <2>4, Amounts DEF EntryType
    <2>7. /\ u.writes[t].status = "PROCESSED" /\ u.writes[t].refTx = p
          /\ \E f \in EntryType : /\ f.tx = t /\ f.before = e.after /\ f.after = e.before
                                  /\ u.entries = Append(<<e>>, f) /\ u.wallet.balance = f.after
      <3>1. input[p].currency = WalletCurrency[w] /\ ~(uow[p].wallet.balance + (-Worth(p)) < 0)
        BY <2>2, <2>3, <2>4, <2>6 DEF Priced
      <3> QED
        BY <2>4, <2>5, <2>6, <3>1 DEF Gains
    <2>8. v.reversed /\ v.writes[t].status = "PROCESSED"
      BY <1>5, <2>7
    <2>9. Resolves(p)'
      BY <1>1, <1>a, <1>c, <1>6, <2>8 DEF Resolves
    <2>10. Ready(p, p)'
      <3> PICK x : x = uow[p].writes[p].refTx
        OBVIOUS
      <3>1. PICK f \in EntryType : /\ f.tx = t /\ f.before = e.after /\ f.after = e.before
                                   /\ u.entries = Append(<<e>>, f) /\ u.wallet.balance = f.after
        BY <2>7
      <3>2. /\ f.tx \in Foreign(p)' /\ v.writes[f.tx].status = "PROCESSED"
            /\ v.entries = Append(<<e>>, f) /\ v.wallet.balance = f.after
        BY <1>5, <1>6, <2>8, <3>1
      <3>3. Change(p, x)' = Change(p, x) /\ uow'[p].writes[p].refTx = x
        BY <1>1, <1>5, <1>a DEF Change, Worth
      <3>5. e.after = e.before + Change(p, x)'
        BY <2>3, <2>4, <3>3
      <3>6. e.before = wallets'[WalletOf(p)'].balance
        BY <1>a, <2>4
      <3> QED
        BY <1>1, <2>4, <2>8, <3>1, <3>2, <3>3, <3>5, <3>6 DEF Ready
    <2>11. Accounts(p, p)'
      BY <1>1, <1>5, <1>7, <1>a, <1>c, <1>d, <2>2, <2>10 DEF Accounts
    <2> QED
      BY <1>a, <2>9, <2>11 DEF BooksOK
  <1> QED
    BY <1>8, <1>9

\* Every step of a request keeps its own books.
LEMMA ExecuteStepBooks ==
  ASSUME TypeInv, TypeInv', SubmitInv, LedgerInv, ReversalInv, BooksInv,
         NEW p \in Request, ExecuteStep(p)
  PROVE  BooksOK(p)'
  <1>a. /\ p \in Process /\ p \notin Worker /\ Own(p) = p /\ WalletOf(p) = input[p].wallet
        /\ pc \in [Process -> Label] /\ uow \in [Process -> UowType]
    BY ConstantsAssumption DEF Process, TypeInv, ControlOK, UowOK, Own, WalletOf
  <1>b. ASSUME pc[p] \notin Staging, uow'[p].writes = uow[p].writes, pc'[p] # "commit",
               uow'[p].entries = uow[p].entries, uow'[p].reversed = uow[p].reversed
        PROVE  BooksOK(p)'
    <2>1. Staged(p) = {} /\ Staged(p)' = {}
      BY <1>b, StagedAsFar DEF Staged
    <2>2. ~uow[p].reversed /\ uow[p].entries = <<>>
      BY <1>a, <2>1, NothingYet
    <2> QED
      BY <1>a, <1>b, <2>1, <2>2, ClearBooks
  <1>c. ASSUME Release(p), NEW label \in {"done", "lost"}, Go(p, label)
        PROVE  BooksOK(p)'
    BY <1>a, <1>c, EndedBooks, ReleaseFrame DEF Go
  <1>d. pc[p] \in Staging => uow[p].writes[p].status # "NONE"
    BY <1>a, AbsentRow DEF TypeInv, ControlOK, UowOK, UowType
  <1>1. CASE RejectKind(p)
    <2> DEFINE v == Rejected(uow[p], p, "INVALID_KIND")
    <2>1. /\ pc[p] = "checkKey" /\ uow'[p] = v
          /\ UNCHANGED <<input, target, rows, wallets, walletLock>>
          /\ ~ExternallySubmittable(input[p].kind) /\ Submitted(p)
      BY <1>a, <1>1 DEF RejectKind, Stage, Database, Locks, TypeInv, ControlOK
    <2>2. Settles(uow[p], v, p)
      BY <1>a, <2>1, RejectedSettles DEF FailureCode
    <2>3. Staged(p) = {}
      BY <2>1, StagedAsFar DEF Staging
    <2>4. ~uow[p].reversed /\ uow[p].entries = <<>>
      BY <1>a, <2>3, NothingYet
    <2>5. v.writes[p].status = "REJECTED" /\ v.entries = <<>> /\ ~v.reversed
      BY <1>a, <2>4, RejectedMovesNothing
    <2> HIDE DEF v
    <2>6. Decides(p, v, p)
      BY <2>1, <2>5 DEF Decides, Vain
    <2> QED
      BY <1>a, <2>1, <2>2, <2>3, <2>6, DecidedBooks
  <1>2. CASE CheckKey(p) \/ CheckExt(p) \/ WalletNotFound(p) \/ LostRace(p)
    <2>1. pc[p] \notin Staging /\ uow' = uow
      BY <1>2 DEF CheckKey, CheckExt, WalletNotFound, LostRace, Staging
    <2>2. pc'[p] \in {"done", "checkExt", "lockWallet"}
      BY <1>a, <1>2 DEF CheckKey, CheckExt, WalletNotFound, LostRace, Return, Go
    <2> QED
      BY <1>b, <2>1, <2>2
  <1>3. CASE LockSubmittedWallet(p)
    <2>1. /\ pc[p] = "lockWallet" /\ pc'[p] = "decide"
          /\ uow'[p] = [uow[p] EXCEPT !.wallet = wallets[input[p].wallet]]
      BY <1>a, <1>3, LockFrame DEF LockSubmittedWallet
    <2>2. /\ uow'[p].writes = uow[p].writes /\ uow'[p].entries = uow[p].entries
          /\ uow'[p].reversed = uow[p].reversed
      BY <1>a, <2>1 DEF UowType
    <2> QED
      BY <1>b, <2>1, <2>2 DEF Staging
  <1>4. CASE Decide(p)
    <2>1. Staged(p) = {}
      BY <1>4, StagedAsFar DEF Decide, Staging
    <2>2. PICK v : Stage(p, v) /\ Settles(uow[p], v, p) /\ Decides(p, v, p)
      BY <1>4, <2>1, RequestDecides
    <2>3. uow'[p] = v /\ UNCHANGED <<input, target, rows, wallets, walletLock>>
      BY <1>a, <1>4, <2>2 DEF Decide, Stage, Database, Locks
    <2> QED
      BY <1>a, <2>1, <2>2, <2>3, DecidedBooks
  <1>5. CASE Insert(p)
    <2>1. CASE Rollback(p) /\ Go(p, "lost")
      BY <1>c, <2>1 DEF Rollback
    <2>2. CASE /\ Go(p, IF Holding(p) = {} THEN "fk"
                        ELSE IF uow[p].writes[p].status = "PROCESSED" THEN "find" ELSE "commit")
               /\ UNCHANGED <<uow, Database, Locks>>
      <3>1. pc'[p] # "idle" /\ pc[p] = "insert"
            /\ UNCHANGED <<input, target, uow, rows, wallets, walletLock>>
        BY <1>a, <1>5, <2>2 DEF Insert, Go, Database, Locks
      <3> QED
        BY <1>a, <1>d, <3>1, SameBooks DEF Staging
    <2> QED
      BY <1>5, <2>1, <2>2 DEF Insert
  <1>6. CASE CheckForeignKey(p)
    <2>1. CASE Rollback(p) /\ Return(p, Failed("ERROR"))
      BY <1>c, <2>1 DEF Rollback, Return
    <2>2. CASE Go(p, "commit") /\ UNCHANGED <<uow, Database, Locks>>
      <3>1. /\ pc[p] = "fk" /\ pc'[p] = "commit"
            /\ UNCHANGED <<input, target, uow, rows, wallets, walletLock>>
        BY <1>a, <1>6, <2>2 DEF CheckForeignKey, Go, Database, Locks
      <3> QED
        BY <1>a, <1>d, <3>1, SameBooks DEF Staging
    <2> QED
      BY <1>6, <2>1, <2>2 DEF CheckForeignKey
  <1>7. CASE FindPending(p)
    BY <1>7, FindBooks
  <1>8. CASE \E t \in Request : ResolvePending(p, t)
    BY <1>8, ResolveBooks
  <1>9. CASE Commit(p)
    BY <1>c, <1>9 DEF Commit, Return
  <1> QED
    BY <1>1, <1>2, <1>3, <1>4, <1>5, <1>6, <1>7, <1>8, <1>9 DEF ExecuteStep

\* So does every step of a worker.
LEMMA WorkerBooks ==
  ASSUME TypeInv, TypeInv', SubmitInv, LedgerInv, ReversalInv, BooksInv, NEW k \in Worker,
         Pick(k) \/ RetryStep(k) \/ AbortWorker(k)
  PROVE  BooksOK(k)'
  <1>a. /\ k \in Process /\ k \notin Request
        /\ pc \in [Process -> Label] /\ uow \in [Process -> UowType]
    BY ConstantsAssumption DEF Process, TypeInv, ControlOK, UowOK
  <1>b. WorkerRows(k)
    BY <1>a DEF ReversalInv, ProcessOK
  <1>c. ASSUME Release(k), Go(k, "idle")
        PROVE  BooksOK(k)'
    BY <1>a, <1>c, EndedBooks, ReleaseFrame DEF Go
  <1>d. ASSUME pc[k] # "commit", uow'[k].writes = uow[k].writes, pc'[k] # "commit",
               uow'[k].entries = uow[k].entries, uow'[k].reversed = uow[k].reversed
        PROVE  BooksOK(k)'
    <2>1. Staged(k) = {} /\ Staged(k)' = {}
      BY <1>b, <1>d DEF Staged, WorkerRows
    <2>2. ~uow[k].reversed /\ uow[k].entries = <<>>
      BY <1>a, <2>1, NothingYet
    <2> QED
      BY <1>a, <1>d, <2>1, <2>2, ClearBooks
  <1>1. CASE Pick(k)
    BY <1>a, <1>1, <1>d DEF Pick, Go
  <1>2. CASE AbortWorker(k)
    BY <1>2, <1>c DEF AbortWorker, Rollback
  <1>3. CASE WorkerLockWallet(k)
    <2>1. /\ pc[k] = "lockWallet" /\ pc'[k] = "lockRow"
          /\ uow'[k] = [uow[k] EXCEPT !.wallet = wallets[WalletOf(k)]]
      BY <1>a, <1>3, LockFrame DEF WorkerLockWallet, WalletOf, TypeInv, ControlOK, Known
    <2>2. /\ uow'[k].writes = uow[k].writes /\ uow'[k].entries = uow[k].entries
          /\ uow'[k].reversed = uow[k].reversed
      BY <1>a, <2>1 DEF UowType
    <2> QED
      BY <1>d, <2>1, <2>2
  <1>4. CASE WorkerLockRow(k)
    BY <1>a, <1>4, <1>c, <1>d DEF WorkerLockRow, Go
  <1>5. CASE PutOff(k)
    BY <1>5, <1>c DEF PutOff, Rollback
  <1>6. CASE Retry(k)
    <2>1. Staged(k) = {} /\ rows[target[k]].status = "PENDING_REFERENCE" /\ target[k] \in Request
      BY <1>b, <1>6 DEF Retry, WorkerRows, Staged, TypeInv, ControlOK
    <2>2. PICK v : Stage(k, v) /\ Settles(uow[k], v, target[k]) /\ Decides(k, v, target[k])
      BY <1>6, <2>1, WorkerDecides
    <2>3. uow'[k] = v /\ UNCHANGED <<input, target, rows, wallets, walletLock>>
      BY <1>a, <1>6, <2>2 DEF Retry, Stage, Database, Locks
    <2> QED
      BY <1>a, <2>1, <2>2, <2>3, DecidedBooks DEF Own
  <1>7. CASE WorkerCommit(k)
    BY <1>7, <1>c DEF WorkerCommit
  <1> QED
    BY <1>1, <1>2, <1>3, <1>4, <1>5, <1>6, <1>7 DEF RetryStep

\* So do arrivals and failures.
LEMMA RequestBooks ==
  ASSUME TypeInv, TypeInv', LedgerInv, ReversalInv, BooksInv,
         NEW p \in Request, Arrive(p) \/ AbortRequest(p)
  PROVE  BooksOK(p)'
  <1>a. /\ p \in Process /\ p \notin Worker
        /\ pc \in [Process -> Label] /\ uow \in [Process -> UowType]
    BY ConstantsAssumption DEF Process, TypeInv, ControlOK, UowOK
  <1>1. CASE Arrive(p)
    <2>1. pc[p] = "idle" /\ pc'[p] = "checkKey" /\ uow' = uow
      BY <1>a, <1>1 DEF Arrive, Go
    <2>2. Staged(p) = {} /\ Staged(p)' = {}
      BY <2>1, StagedAsFar DEF Staged, Staging
    <2> QED
      BY <1>a, <2>1, <2>2, NothingYet, ClearBooks
  <1>2. CASE AbortRequest(p)
    BY <1>a, <1>2, EndedBooks, ReleaseFrame DEF AbortRequest, Rollback, Return, Go
  <1> QED
    BY <1>1, <1>2

-----------------------------------------------------------------------------
(* What a step does to the others. *)

\* The wallet a process has locked is changed by nobody else.
LEMMA WalletStays ==
  ASSUME TypeInv, LedgerInv, NEW p \in Process, StepOf(p), NEW q \in Process, q # p, Holds(q)
  PROVE  wallets'[WalletOf(q)] = wallets[WalletOf(q)]
  <1>1. CASE UNCHANGED Database
    BY <1>1 DEF Database
  <1>2. CASE Apply(p)
    <2>1. uow[p].entries # <<>> => WalletOf(q) # WalletOf(p)
      BY OneHolder DEF LedgerInv, LockHeld
    <2> QED
      BY <1>2, <2>1 DEF Apply, Holds
  <1> QED
    BY <1>1, <1>2 DEF StepOf

\* What is reversed stays reversed.
LEMMA ReversedStays ==
  ASSUME TypeInv, SubmitInv, ReversalInv, NEW p \in Process, StepOf(p), NEW ref,
         AlreadyReversed(ref)
  PROVE  AlreadyReversed(ref)'
  <1> PICK s \in Stored : /\ rows[s].status = "PROCESSED" /\ input[s].kind \in Reversal
                          /\ input[s].ref = ref
    BY DEF AlreadyReversed
  <1>1. s \in Request /\ rows'[s] = rows[s] /\ input'[s] = input[s]
    BY ProcessedIsFinal, StepKeeps DEF Stored
  <1> QED
    BY <1>1 DEF AlreadyReversed, Stored

\* What could not be had from the wallet a process has locked cannot be had later.
LEMMA VainStays ==
  ASSUME TypeInv, SubmitInv, LedgerInv, ReversalInv, NEW p \in Process, StepOf(p),
         NEW q \in Process, q # p, pc[q] # "idle", NEW t \in Request, t = Own(q), Vain(q, t),
         input'[t] = input[t]
  PROVE  Vain(q, t)'
  <1>1. WalletOf(q)' = WalletOf(q) /\ Holds(q)' = Holds(q)
    BY StepKeeps
  <1>2. CASE ~ExternallySubmittable(input[t].kind) \/ (input[t].wallet \in Wallet /\ ~Owned(t))
    BY <1>2 DEF Vain, Owned
  <1>3. CASE /\ Holds(q) /\ input[t].wallet = WalletOf(q) /\ input[t].kind # "LOSS"
             /\ \/ ~Priced(t)
                \/ /\ input[t].kind \in Reversal
                   /\ \A r \in ProcessedReference(input[t].ref) : Refused(t, r)
                \/ /\ input[t].kind \notin Reversal
                   /\ wallets[input[t].wallet].balance + Worth(t) < 0
    <2>1. wallets'[input[t].wallet] = wallets[input[t].wallet]
      BY <1>3, WalletStays
    <2>2. CASE ~Priced(t) \/ (input[t].kind \notin Reversal /\ wallets[input[t].wallet].balance + Worth(t) < 0)
      BY <1>1, <1>3, <2>1, <2>2 DEF Vain, Priced, Worth
    <2>3. CASE /\ input[t].kind \in Reversal
               /\ \A r \in ProcessedReference(input[t].ref) : Refused(t, r)
      <3>1. ASSUME NEW r \in ProcessedReference(input[t].ref)', Matches(t, r)',
                   ~AlreadyReversed(input[t].ref)'
            PROVE  wallets[input[t].wallet].balance - Worth(r)' < 0
        <4>1. r \in Request /\ rows'[r].status = "PROCESSED" /\ input'[r].ext = input[t].ref
          BY <3>1 DEF ProcessedReference, FindByExt, Stored
        <4>2. rows'[r] = rows[r]
          <5> SUFFICES ASSUME rows'[r] # rows[r] PROVE FALSE
            OBVIOUS
          <5>1. input'[r].wallet # WalletOf(q)
            BY <1>3, <4>1, ChangeHasLock
          <5> QED
            BY <1>3, <3>1, <5>1 DEF Matches
        <4>3. r \in Stored /\ input'[r] = input[r]
          BY <4>1, <4>2, StepKeeps DEF Stored
        <4>4. r \in ProcessedReference(input[t].ref) /\ Matches(t, r)
          BY <3>1, <4>1, <4>2, <4>3 DEF ProcessedReference, FindByExt, Matches
        <4>5. ~AlreadyReversed(input[t].ref)
          BY <3>1, ReversedStays
        <4>6. Worth(r)' = Worth(r)
          BY <4>3 DEF Worth
        <4> QED
          BY <2>3, <4>4, <4>5, <4>6 DEF Refused
      <3>2. \A r \in ProcessedReference(input[t].ref)' : Refused(t, r)'
        BY <2>1, <3>1 DEF Refused
      <3> QED
        BY <1>1, <1>3, <2>3, <3>2 DEF Vain
    <2> QED
      BY <1>3, <2>2, <2>3
  <1> QED
    BY <1>2, <1>3 DEF Vain

\* The submission of the row a process decides about stays.
LEMMA OwnStays ==
  ASSUME TypeInv, SubmitInv, NEW p \in Process, StepOf(p), NEW q \in Process, q # p, pc[q] # "idle"
  PROVE  Own(q)' = Own(q) /\ input'[Own(q)] = input[Own(q)]
  <1>1. CASE q \in Worker
    BY <1>1, StepKeeps DEF Own, StepOf, SubmitInv, RowsKnown
  <1>2. CASE q \notin Worker
    BY <1>2 DEF Own, StepOf, Process
  <1> QED
    BY <1>1, <1>2

\* The books of the others stay as they are.
LEMMA BooksKept ==
  ASSUME TypeInv, SubmitInv, LedgerInv, ReversalInv, BooksInv, NEW p \in Process, StepOf(p),
         NEW q \in Process, q # p
  PROVE  BooksOK(q)'
  <1>a. /\ uow'[q] = uow[q] /\ pc'[q] = pc[q] /\ BooksOK(q) /\ ProcessOK(q)
        /\ Staged(q)' = Staged(q) /\ Foreign(q)' = Foreign(q)
    BY DEF StepOf, Staged, Foreign, BooksInv, ReversalInv
  <1>b. \A s \in Staged(q) : input'[s] = input[s]
    BY StagedKnown DEF StepOf
  <1>1. CASE pc[q] = "idle"
    <2>1. q \in Request => Foreign(q) = {}
      BY <1>1, StagedAsFar
    <2>2. ~uow[q].reversed
      <3>1. q \in Worker => Staged(q) = {}
        BY <1>1, <1>a DEF ProcessOK, WorkerRows
      <3> QED
        BY <1>a, <2>1, <3>1, ConstantsAssumption DEF BooksOK, Resolves, Foreign, Own, Process
    <2> QED
      BY <1>1, <1>a, <2>1, <2>2 DEF BooksOK, Resolves
  <1>2. CASE pc[q] # "idle"
    <2> PICK t \in Request : t = Own(q)
      BY <1>2, OwnRow
    <2>1. t = Own(q)' /\ input'[t] = input[t]
      BY <1>2, OwnStays
    <2>2. WalletOf(q)' = WalletOf(q) /\ Holds(q)' = Holds(q)
      BY <1>2, StepKeeps
    <2>3. Resolves(q)'
      <3>1. uow'[q].reversed => \E s \in Staged(q)' \ {t} : uow'[q].writes[s].status = "PROCESSED"
        BY <1>a DEF BooksOK, Resolves
      <3>2. ASSUME q \in Request, NEW s \in Foreign(q), Matches(s, q)'
            PROVE  uow[q].reversed
        <4>1. s \in Staged(q) /\ input'[s] = input[s] /\ input'[q] = input[q]
          BY <1>b, <1>2, <3>2 DEF Foreign, StepOf
        <4>2. Matches(s, q)
          BY <3>2, <4>1 DEF Matches
        <4> QED
          BY <1>a, <3>2, <4>2 DEF BooksOK, Resolves
      <3> QED
        BY <1>a, <2>1, <3>1, <3>2 DEF Resolves
    <2>4. Accounts(q, t)
      BY <1>2, <1>a DEF BooksOK
    <2>5. ASSUME uow[q].writes[t].status = "PROCESSED", Ready(q, t)
          PROVE  Ready(q, t)'
      <3> PICK r : r = uow[q].writes[t].refTx
        OBVIOUS
      <3>1. wallets'[WalletOf(q)'].balance = wallets[WalletOf(q)].balance
        BY <1>a, <2>2, <2>5, WalletStays DEF ProcessOK, Guarded
      <3>2. Change(t, r)' = Change(t, r)
        <4>1. CASE input[t].kind \in Reversal
          <5>1. r \in Stored \cup Inserting
            BY <2>5, <4>1, UndoingKnown DEF Undoing
          <5>2. input'[r] = input[r]
            BY <5>1, StepKeeps
          <5> QED
            BY <2>1, <5>2 DEF Change, Worth
        <4>2. CASE input[t].kind \notin Reversal
          BY <2>1, <4>2 DEF Change, Worth
        <4> QED
          BY <4>1, <4>2
      <3> QED
        BY <1>a, <2>5, <3>1, <3>2, ReadyKept
    <2>6. Vain(q, t) => Vain(q, t)'
      BY <1>2, <2>1, VainStays
    <2>7. Accounts(q, t)'
      BY <1>a, <2>1, <2>4, <2>5, <2>6 DEF Accounts, Owned, Priced
    <2> QED
      BY <2>1, <2>3, <2>7 DEF BooksOK
  <1> QED
    BY <1>1, <1>2

-----------------------------------------------------------------------------
(* What a commit does to balances and ledgers. *)

\* The reversals a process commits besides the row it decided about, and what that row
\* adds to its wallet.
Undos(p) == {s \in Staged(p) \ {Own(p)} : uow[p].writes[s].status = "PROCESSED"}
Share(p, t) ==
  IF uow[p].writes[t].status = "PROCESSED" /\ input[t].kind # "LOSS"
  THEN Change(t, uow[p].writes[t].refTx) ELSE 0

\* The row of a process that commits is not processed yet.
LEMMA OwnNotProcessed ==
  ASSUME TypeInv, SubmitInv, ReversalInv, NEW p \in Process, pc[p] = "commit",
         NEW t, t = Own(p)
  PROVE  /\ t \in Request /\ Submitted(t) /\ input[t].wallet = WalletOf(p)
         /\ rows[t].status # "PROCESSED"
         /\ p \in Request => t = p /\ p \in Inserting /\ p \notin Stored /\ rows[t].status = "NONE"
         /\ p \in Worker => t = target[p] /\ p \notin Request /\ t \in Stored
                            /\ rows[t].status = "PENDING_REFERENCE"
  <1>1. t \in Request /\ Submitted(t) /\ input[t].wallet = WalletOf(p)
    BY OwnRow
  <1>2. p \in Request => /\ t = p /\ p \in Inserting /\ p \notin Stored
                         /\ rows[t].status = "NONE"
    BY ConstantsAssumption DEF Own, Inserting, SubmitInv, RowsKnown, Stored
  <1>3. p \in Worker => /\ t = target[p] /\ p \notin Request /\ t \in Stored
                        /\ rows[t].status = "PENDING_REFERENCE"
    BY <1>1, ConstantsAssumption DEF Own, ReversalInv, ProcessOK, WorkerRows, Stored
  <1> QED
    BY <1>1, <1>2, <1>3 DEF Process

\* What else a process commits undoes its own row, and is one reversal at most.
LEMMA UndosKnown ==
  ASSUME TypeInv, SubmitInv, ReversalInv, NEW p \in Process, pc[p] = "commit",
         NEW s \in Undos(p)
  PROVE  /\ p \in Request /\ Own(p) = p /\ s \in Request /\ s # p /\ s \in Foreign(p)
         /\ s \in Undoing(p) /\ input[s].kind \in Reversal /\ input[s].ref = input[p].ext
         /\ Matches(s, p) /\ Submitted(s)
         /\ Holds(p) /\ input[s].wallet = WalletOf(p)
         /\ rows[s].status = "PENDING_REFERENCE"
         /\ uow[p].reversed /\ uow[p].writes[p].status = "PROCESSED" /\ input[p].kind # "LOSS"
         /\ \A x \in Undos(p) : x = s
  <1>a. ProcessOK(p) /\ s \in Request /\ s \in Staged(p) /\ uow[p].writes[s].status = "PROCESSED"
    BY DEF ReversalInv, Undos, Staged
  <1>1. p \in Request /\ Own(p) = p
    BY <1>a, ConstantsAssumption DEF ProcessOK, WorkerRows, Undos, Own, Process
  <1>2. s # p /\ s \in Foreign(p)
    BY <1>1 DEF Undos, Foreign
  <1>3. /\ input[s].kind \in Reversal /\ input[s].ref = input[p].ext
        /\ rows[s].status \in {"PENDING_REFERENCE", "REJECTED"}
        /\ input[s].wallet = input[p].wallet => rows[s].status = "PENDING_REFERENCE"
        /\ uow[p].writes[p].status = "PROCESSED"
    BY <1>a, <1>1, <1>2 DEF ProcessOK, RequestRows
  <1>4. s \in Undoing(p)
    BY <1>a, <1>3 DEF Undoing
  <1> DEFINE r == uow[p].writes[s].refTx
  <1>5. r \in Stored \cup Inserting /\ Matches(s, r) /\ Holds(p) /\ input[s].wallet = WalletOf(p)
    BY <1>4, UndoingKnown
  <1> HIDE DEF r
  <1>6. r = p
    <2>1. p \in Inserting
      BY <1>1 DEF Inserting
    <2> QED
      BY <1>3, <1>5, <2>1 DEF Matches, SubmitInv, Unique, Collide
  <1>7. input[p].kind # "LOSS"
    BY <1>1, <1>5, <1>6, <1>a, LossIsFinal
  <1>8. uow[p].reversed
    BY <1>1, <1>2, <1>4, <1>a DEF ProcessOK, Undoes
  <1>9. ASSUME NEW x \in Undos(p) PROVE x = s
    <2>1. x \in Request /\ x # p /\ x \in Foreign(p) /\ uow[p].writes[x].status = "PROCESSED"
      BY <1>1 DEF Undos, Foreign, Staged
    <2>2. input[x].kind \in Reversal /\ input[x].ref = input[p].ext
      BY <1>a, <1>1, <2>1 DEF ProcessOK, RequestRows
    <2>3. x \in Undoing(p)
      BY <2>1, <2>2 DEF Undoing
    <2> QED
      BY <1>3, <1>4, <1>a, <2>2, <2>3 DEF ProcessOK, Undoes
  <1>10. Submitted(s)
    BY <1>2, <1>a DEF TypeInv, UowOK, Known, Staged
  <1>11. WalletOf(p) = input[p].wallet
    BY <1>1, ConstantsAssumption DEF WalletOf
  <1> QED
    BY <1>1, <1>2, <1>3, <1>4, <1>5, <1>6, <1>7, <1>8, <1>9, <1>10, <1>11, <1>a

\* The entries a process commits: none; or one of its row, that adds m; or that one and one
\* of the reversal that undoes it.
Settling(p, t, m) ==
  /\ uow[p].writes[t].status # "PROCESSED" \/ input[t].kind = "LOSS"
  /\ uow[p].entries = <<>> /\ m = 0 /\ Undos(p) = {}
Moving(p, t, m) ==
  /\ uow[p].writes[t].status = "PROCESSED" /\ input[t].kind # "LOSS" /\ Holds(p)
  /\ \E e \in EntryType :
       /\ e.tx = t /\ e.before = wallets[WalletOf(p)].balance
       /\ e.after = e.before + m
       /\ \/ /\ Undos(p) = {} /\ uow[p].entries = <<e>>
             /\ uow[p].wallet.balance = e.after
          \/ \E f \in EntryType :
               /\ Undos(p) = {f.tx} /\ f.before = e.after /\ f.after = e.before
               /\ uow[p].entries = Append(<<e>>, f)
               /\ uow[p].wallet.balance = e.before

LEMMA EntriesReady ==
  ASSUME TypeInv, SubmitInv, LedgerInv, ReversalInv, BooksInv,
         NEW p \in Process, pc[p] = "commit", NEW t, t = Own(p), NEW m, m = Share(p, t)
  PROVE  m \in Int /\ (Settling(p, t, m) \/ Moving(p, t, m))
  <1>a. Accounts(p, t) /\ Resolves(p) /\ ProcessOK(p)
    BY DEF BooksInv, BooksOK, ReversalInv
  <1>b. t \in Request /\ Submitted(t)
    BY OwnNotProcessed
  <1>1. CASE uow[p].writes[t].status # "PROCESSED" \/ input[t].kind = "LOSS"
    <2>1. m = 0
      BY <1>1 DEF Share
    <2>2. Undos(p) = {}
      BY <1>1, UndosKnown
    <2> QED
      BY <1>1, <1>a, <2>1, <2>2 DEF Accounts, Settling
  <1>2. CASE uow[p].writes[t].status = "PROCESSED" /\ input[t].kind # "LOSS"
    <2> PICK r : r = uow[p].writes[t].refTx
      OBVIOUS
    <2>1. m = Change(t, r)
      BY <1>2 DEF Share
    <2>2. m \in Int
      <3>1. input[t].kind \in Reversal => r \in Stored \cup Inserting
        BY <1>2, <1>b, UndoingKnown DEF Undoing
      <3>2. input[t].kind \in Reversal => r \in Request /\ Submitted(r)
        BY <3>1, StoredKnown DEF Stored, Inserting, TypeInv, ControlOK
      <3> QED
        BY <1>b, <2>1, <3>2, Amounts DEF Change
    <2>3. Ready(p, t) /\ Holds(p)
      BY <1>2, <1>a, <1>b DEF Accounts, ProcessOK, Guarded
    <2> PICK e \in EntryType :
          /\ e.tx = t /\ e.before = wallets[WalletOf(p)].balance
          /\ e.after = e.before + Change(t, r)
          /\ ~uow[p].reversed => uow[p].entries = <<e>> /\ uow[p].wallet.balance = e.after
          /\ uow[p].reversed => \E f \in EntryType :
                             /\ f.tx \in Foreign(p) /\ uow[p].writes[f.tx].status = "PROCESSED"
                             /\ f.before = e.after /\ f.after = e.before
                             /\ uow[p].entries = Append(<<e>>, f) /\ uow[p].wallet.balance = f.after
      BY <2>3 DEF Ready
    <2>4. CASE ~uow[p].reversed
      <3>1. Undos(p) = {}
        BY <2>4, UndosKnown
      <3> QED
        BY <1>2, <2>1, <2>2, <2>3, <2>4, <3>1 DEF Moving
    <2>5. CASE uow[p].reversed
      <3> PICK f \in EntryType :
            /\ f.tx \in Foreign(p) /\ uow[p].writes[f.tx].status = "PROCESSED"
            /\ f.before = e.after /\ f.after = e.before
            /\ uow[p].entries = Append(<<e>>, f) /\ uow[p].wallet.balance = f.after
        BY <2>5
      <3>1. PICK s : s \in Undos(p)
        BY <2>5, <1>a DEF Resolves, Undos
      <3>2. f.tx \in Undos(p)
        BY <3>1, UndosKnown DEF Undos, Foreign
      <3>3. Undos(p) = {f.tx}
        BY <3>2, UndosKnown
      <3> QED
        BY <1>2, <2>1, <2>2, <2>3, <3>3 DEF Moving
    <2> QED
      BY <2>4, <2>5
  <1> QED
    BY <1>1, <1>2

\* A commit adds its share to its wallet, in the name of its row, and takes it out again in
\* the name of the reversal that it commits with it.
LEMMA CommitMoves ==
  ASSUME TypeInv, SubmitInv, LedgerInv, ReversalInv, BooksInv,
         NEW p \in Process, pc[p] = "commit", Apply(p),
         NEW t, t = Own(p), NEW m, m = Share(p, t)
  PROVE  /\ m \in Int
         /\ \A v \in Wallet : v = WalletOf(p) /\ Undos(p) = {} =>
              wallets'[v].balance = wallets[v].balance + m
         /\ \A v \in Wallet : v # WalletOf(p) \/ Undos(p) # {} =>
              wallets'[v].balance = wallets[v].balance
         /\ \A v \in Wallet : \A x : x # t /\ x \notin Undos(p) =>
              EntriesIn(ledger'[v], x) = EntriesIn(ledger[v], x)
         /\ uow[p].writes[t].status # "PROCESSED" \/ input[t].kind = "LOSS" =>
              m = 0 /\ \A v \in Wallet : EntriesIn(ledger'[v], t) = {}
         /\ uow[p].writes[t].status = "PROCESSED" /\ input[t].kind # "LOSS" =>
              /\ Net(EntriesIn(ledger'[WalletOf(p)], t)) = m
              /\ wallets[WalletOf(p)].balance + m >= 0
         /\ \A s \in Undos(p) : Net(EntriesIn(ledger'[WalletOf(p)], s)) = -m
  <1> DEFINE w == WalletOf(p)
  <1>a. /\ \A v \in Wallet : wallets[v].balance \in Nat /\ ledger[v] \in Seq(EntryType)
        /\ t \in Request /\ rows[t].status # "PROCESSED"
    BY OwnNotProcessed DEF TypeInv, DatabaseOK, WalletType
  <1>b. \A v \in Wallet : EntriesIn(ledger[v], t) = {}
    BY <1>a DEF BooksInv, Booked
  <1>c. \A v \in Wallet \ {w} : ledger'[v] = ledger[v] /\ wallets'[v] = wallets[v]
    BY DEF Apply
  <1>1. CASE Settling(p, t, m)
    <2>1. \A v \in Wallet : ledger'[v] = ledger[v] /\ wallets'[v] = wallets[v]
      BY <1>1, <1>a, ConcatNothing DEF Apply, Settling
    <2>2. \A v \in Wallet : wallets[v].balance + 0 = wallets[v].balance
      BY <1>a
    <2> QED
      BY <1>1, <1>b, <2>1, <2>2 DEF Settling
  <1>2. ASSUME uow[p].writes[t].status = "PROCESSED", input[t].kind # "LOSS", Holds(p), m \in Int,
               NEW e \in EntryType, e.tx = t, e.before = wallets[w].balance, e.after = e.before + m,
               Undos(p) = {}, uow[p].entries = <<e>>, uow[p].wallet.balance = e.after
        PROVE  /\ wallets'[w].balance = wallets[w].balance + m
               /\ \A x : x # t => EntriesIn(ledger'[w], x) = EntriesIn(ledger[w], x)
               /\ Net(EntriesIn(ledger'[w], t)) = m
               /\ wallets[w].balance + m >= 0
    <2>1. w \in Wallet /\ <<e>> # <<>>
      BY <1>2 DEF Holds
    <2>2. ledger'[w] = ledger[w] \o <<e>> /\ wallets'[w] = uow[p].wallet
      BY <1>2, <2>1 DEF Apply
    <2> HIDE DEF w
    <2>3. ledger'[w] = Append(ledger[w], e)
      BY <1>a, <2>1, <2>2, OneByOne
    <2> PICK old, new : old = ledger[w] /\ new = ledger'[w]
      OBVIOUS
    <2>7. old \in Seq(EntryType) /\ Extends(new, old, e) /\ EntriesIn(old, t) = {}
      BY <1>a, <1>b, <2>1, <2>3 DEF Extends
    <2>4. EntriesIn(ledger'[w], t) = {e}
      BY <1>2, <2>7, OneMoreEntry
    <2>5. ASSUME NEW x, x # t
          PROVE  EntriesIn(ledger'[w], x) = EntriesIn(ledger[w], x)
      <3>1. EntriesIn(new, x) = EntriesIn(old, x) \cup (IF x = e.tx THEN {e} ELSE {})
        BY <2>7, OneMoreEntry
      <3> QED
        BY <1>2, <2>5, <3>1
    <2>6. e.after \in Nat /\ e.before \in Nat /\ e.after - e.before = m
      BY <1>2 DEF EntryType
    <2>8. wallets'[w].balance = wallets[w].balance + m /\ wallets[w].balance + m >= 0
      BY <1>2, <2>2, <2>6
    <2>9. Net(EntriesIn(ledger'[w], t)) = m
      BY <2>4, <2>6, NetOfOne
    <2> QED
      BY <2>5, <2>8, <2>9
  <1>3. ASSUME uow[p].writes[t].status = "PROCESSED", input[t].kind # "LOSS", Holds(p), m \in Int,
               NEW e \in EntryType, e.tx = t, e.before = wallets[w].balance, e.after = e.before + m,
               NEW f \in EntryType, Undos(p) = {f.tx}, f.before = e.after, f.after = e.before,
               uow[p].entries = Append(<<e>>, f), uow[p].wallet.balance = e.before
        PROVE  /\ wallets'[w].balance = wallets[w].balance
               /\ \A x : x # t /\ x # f.tx => EntriesIn(ledger'[w], x) = EntriesIn(ledger[w], x)
               /\ Net(EntriesIn(ledger'[w], t)) = m
               /\ Net(EntriesIn(ledger'[w], f.tx)) = -m
               /\ wallets[w].balance + m >= 0
    <2>1. w \in Wallet /\ Append(<<e>>, f) # <<>>
      BY <1>3 DEF Holds
    <2>2. ledger'[w] = ledger[w] \o Append(<<e>>, f) /\ wallets'[w] = uow[p].wallet
      BY <1>3, <2>1 DEF Apply
    <2> HIDE DEF w
    <2> PICK old, new : old = ledger[w] /\ new = ledger'[w]
      OBVIOUS
    <2> PICK l : l = Append(old, e)
      OBVIOUS
    <2>3. old \in Seq(EntryType) /\ Extends(l, old, e) /\ Extends(new, l, f)
      BY <1>a, <2>1, <2>2, OneByOne DEF Extends
    <2>4. /\ l \in Seq(EntryType)
          /\ \A x : EntriesIn(l, x) = EntriesIn(old, x) \cup (IF x = t THEN {e} ELSE {})
      BY <1>3, <2>3, OneMoreEntry
    <2>5. \A x : EntriesIn(new, x) = EntriesIn(l, x) \cup (IF x = f.tx THEN {f} ELSE {})
      BY <2>3, <2>4, OneMoreEntry
    <2>6. /\ f.tx \in Undos(p) /\ rows[f.tx].status = "PENDING_REFERENCE" /\ f.tx \in Request
          /\ f.tx # t
      BY <1>3, UndosKnown
    <2>7. EntriesIn(old, f.tx) = {} /\ EntriesIn(old, t) = {}
      BY <1>b, <2>1, <2>6 DEF BooksInv, Booked
    <2>8. EntriesIn(ledger'[w], f.tx) = {f}
      BY <1>3, <2>4, <2>5, <2>6, <2>7
    <2>9. EntriesIn(ledger'[w], t) = {e}
      BY <1>3, <2>4, <2>5, <2>6, <2>7
    <2>10. ASSUME NEW x, x # t, x # f.tx
           PROVE  EntriesIn(ledger'[w], x) = EntriesIn(ledger[w], x)
      <3>1. EntriesIn(l, x) = EntriesIn(old, x) \cup (IF x = t THEN {e} ELSE {})
        BY <2>4
      <3>2. EntriesIn(new, x) = EntriesIn(l, x) \cup (IF x = f.tx THEN {f} ELSE {})
        BY <2>5
      <3> QED
        BY <2>10, <3>1, <3>2
    <2>11. e.after \in Nat /\ e.before \in Nat
      BY DEF EntryType
    <2>12. e.after \in Nat /\ e.before \in Nat /\ e.after - e.before = m /\ f.after - f.before = -m
      <3> PICK a, b : a = e.after /\ b = e.before
        OBVIOUS
      <3>1. a \in Nat /\ b \in Nat /\ m \in Int /\ a = b + m
        BY <1>3, <2>11
      <3>2. a - b = m /\ b - a = -m
        BY <3>1
      <3> QED
        BY <1>3, <2>11, <3>2
    <2>13. Net({e}) = m /\ Net({f}) = -m
      BY <2>12, NetOfOne
    <2>14. wallets[w].balance + m >= 0
      BY <1>3, <2>12
    <2> QED
      BY <1>3, <2>2, <2>8, <2>9, <2>10, <2>13, <2>14
  <1> HIDE DEF w
  <1>4. m \in Int
    BY EntriesReady
  <1>5. ASSUME uow[p].writes[t].status = "PROCESSED", input[t].kind # "LOSS", Holds(p),
               NEW e \in EntryType, e.tx = t, e.before = wallets[w].balance, e.after = e.before + m,
               Undos(p) = {} /\ uow[p].entries = <<e>> /\ uow[p].wallet.balance = e.after
        PROVE  /\ \A v \in Wallet : v = w /\ Undos(p) = {} =>
                    wallets'[v].balance = wallets[v].balance + m
               /\ \A v \in Wallet : v # w \/ Undos(p) # {} =>
                    wallets'[v].balance = wallets[v].balance
               /\ \A v \in Wallet : \A x : x # t /\ x \notin Undos(p) =>
                    EntriesIn(ledger'[v], x) = EntriesIn(ledger[v], x)
               /\ Net(EntriesIn(ledger'[w], t)) = m
               /\ wallets[w].balance + m >= 0
               /\ \A s \in Undos(p) : Net(EntriesIn(ledger'[w], s)) = -m
    BY <1>2, <1>4, <1>5, <1>c
  <1>6. ASSUME uow[p].writes[t].status = "PROCESSED", input[t].kind # "LOSS", Holds(p),
               NEW e \in EntryType, e.tx = t, e.before = wallets[w].balance, e.after = e.before + m,
               NEW f \in EntryType, Undos(p) = {f.tx} /\ f.before = e.after /\ f.after = e.before
                 /\ uow[p].entries = Append(<<e>>, f) /\ uow[p].wallet.balance = e.before
        PROVE  /\ \A v \in Wallet : v = w /\ Undos(p) = {} =>
                    wallets'[v].balance = wallets[v].balance + m
               /\ \A v \in Wallet : v # w \/ Undos(p) # {} =>
                    wallets'[v].balance = wallets[v].balance
               /\ \A v \in Wallet : \A x : x # t /\ x \notin Undos(p) =>
                    EntriesIn(ledger'[v], x) = EntriesIn(ledger[v], x)
               /\ Net(EntriesIn(ledger'[w], t)) = m
               /\ wallets[w].balance + m >= 0
               /\ \A s \in Undos(p) : Net(EntriesIn(ledger'[w], s)) = -m
    BY <1>3, <1>4, <1>6, <1>c
  <1>8. CASE Moving(p, t, m)
    <2>1. /\ \A v \in Wallet : v = w /\ Undos(p) = {} =>
               wallets'[v].balance = wallets[v].balance + m
          /\ \A v \in Wallet : v # w \/ Undos(p) # {} =>
               wallets'[v].balance = wallets[v].balance
          /\ \A v \in Wallet : \A x : x # t /\ x \notin Undos(p) =>
               EntriesIn(ledger'[v], x) = EntriesIn(ledger[v], x)
          /\ Net(EntriesIn(ledger'[w], t)) = m
          /\ wallets[w].balance + m >= 0
          /\ \A s \in Undos(p) : Net(EntriesIn(ledger'[w], s)) = -m
      BY <1>5, <1>6, <1>8 DEF Moving, w
    <2>2. ~(uow[p].writes[t].status # "PROCESSED" \/ input[t].kind = "LOSS")
      BY <1>8 DEF Moving
    <2> QED
      BY <1>4, <2>1, <2>2, Zenon DEF w
  <1> QED
    BY <1>1, <1>8, EntriesReady

\* The ledgers stay right: what is committed is booked, and once.
LEMMA BookedKept ==
  ASSUME TypeInv, SubmitInv, LedgerInv, ReversalInv, BooksInv, NEW p \in Process, StepOf(p),
         NEW t \in Request
  PROVE  Booked(t)'
  <1>a. Booked(t)
    BY DEF BooksInv
  <1>b. ASSUME rows'[t] = rows[t], \A v \in Wallet : EntriesIn(ledger'[v], t) = EntriesIn(ledger[v], t)
        PROVE  Booked(t)'
    <2>1. rows[t].status \in {"PROCESSED", "PENDING_REFERENCE"} =>
            t \in Stored /\ t \in Stored' /\ input'[t] = input[t]
      BY <1>b, StepKeeps DEF Stored
    <2>2. rows[t].status = "PROCESSED" => EntriesOf(t)' = EntriesOf(t)
      <3>1. rows[t].status = "PROCESSED" => EntriesOf(t) =
              IF input[t].wallet \in Wallet THEN EntriesIn(ledger[input[t].wallet], t) ELSE {}
        BY <2>1 DEF EntriesOf, EntriesIn
      <3>2. rows[t].status = "PROCESSED" => EntriesOf(t)' =
              IF input[t].wallet \in Wallet THEN EntriesIn(ledger'[input[t].wallet], t) ELSE {}
        BY <2>1 DEF EntriesOf, EntriesIn
      <3> QED
        BY <1>b, <3>1, <3>2
    <2>3. rows[t].status = "PROCESSED" => Worth(t)' = Worth(t)
      BY <2>1 DEF Worth
    <2> QED
      BY <1>a, <1>b, <2>1, <2>2, <2>3 DEF Booked, Owned
  <1>1. CASE UNCHANGED Database
    BY <1>1, <1>b DEF Database
  <1>2. CASE pc[p] = "commit" /\ Apply(p)
    <2> PICK o, m : o = Own(p) /\ m = Share(p, o)
      OBVIOUS
    <2>a. /\ o \in Request /\ Submitted(o) /\ input[o].wallet = WalletOf(p)
          /\ rows[o].status # "PROCESSED" /\ (p \in Request => o = p)
      BY <1>2, OwnNotProcessed
    <2>b. Accounts(p, o) /\ o \in Staged(p) /\ o \in Stored \cup Inserting
      <3>1. Accounts(p, o) /\ uow[p].writes[o].status # "NONE"
        BY <1>2 DEF BooksInv, BooksOK, Accounts
      <3>2. o \in Staged(p)
        BY <2>a, <3>1, AbsentRow DEF Staged
      <3> QED
        BY <1>2, <3>1, <3>2, OwnNotProcessed DEF Process
    <2>c. \A s \in Staged(p) : s \in Request /\ rows'[s] = uow[p].writes[s]
      BY <1>2 DEF Apply, Staged
    <2>1. CASE t = o
      <3>1. rows'[t] = uow[p].writes[t] /\ input'[t] = input[t]
        BY <2>1, <2>b, <2>c, StepKeeps
      <3>2. rows'[t].status # "PROCESSED" => \A v \in Wallet : EntriesIn(ledger'[v], t) = {}
        BY <1>2, <2>1, <3>1, CommitMoves
      <3>3. rows'[t].status = "PROCESSED" /\ input[t].kind \in {"BET", "WIN", "REFUND"} =>
              Net(EntriesOf(t))' = Worth(t)
        <4> SUFFICES ASSUME rows'[t].status = "PROCESSED", input[t].kind \in {"BET", "WIN", "REFUND"}
                     PROVE  Net(EntriesOf(t)') = Worth(t)
          OBVIOUS
        <4>1. Net(EntriesIn(ledger'[WalletOf(p)], t)) = m
          BY <1>2, <2>1, <3>1, CommitMoves
        <4>2. m = Worth(t)
          BY <2>1, <2>a, <3>1, Worthwhile DEF Share
        <4>3. Holds(p)
          BY <3>1 DEF ReversalInv, ProcessOK, Guarded
        <4>4. t \in Stored' /\ input'[t].wallet = WalletOf(p) /\ WalletOf(p) \in Wallet
          BY <2>1, <2>a, <3>1, <4>3 DEF Stored, Holds
        <4>5. EntriesOf(t)' = EntriesIn(ledger'[WalletOf(p)], t)
          BY <4>4 DEF EntriesOf, EntriesIn
        <4> QED
          BY <4>1, <4>2, <4>5
      <3>4. rows'[t].status = "PENDING_REFERENCE" => Owned(t)'
        BY <2>1, <2>b, <3>1 DEF Accounts, Owned
      <3>5. Worth(t)' = Worth(t)
        BY <3>1 DEF Worth
      <3> QED
        BY <3>1, <3>2, <3>3, <3>4, <3>5 DEF Booked
    <2>2. CASE t \in Undos(p)
      <3>1. /\ t \in Staged(p) /\ uow[p].writes[t].status = "PROCESSED"
            /\ rows'[t] = uow[p].writes[t] /\ input'[t] = input[t]
        BY <2>2, <2>c, StagedKnown DEF Undos, StepOf
      <3>2. /\ p \in Request /\ o = p /\ Matches(t, p) /\ input[t].kind \in Reversal /\ Submitted(t)
            /\ Holds(p) /\ input[t].wallet = WalletOf(p)
            /\ uow[p].writes[p].status = "PROCESSED" /\ input[p].kind # "LOSS"
        BY <1>2, <2>2, UndosKnown
      <3>3. input[t].kind \in {"BET", "WIN", "REFUND"} => Net(EntriesOf(t))' = Worth(t)
        <4> SUFFICES ASSUME input[t].kind \in {"BET", "WIN", "REFUND"}
                     PROVE  Net(EntriesOf(t)') = Worth(t)
          OBVIOUS
        <4>1. input[t].kind = "REFUND" /\ input[p].kind = "BET" /\ input[p].amount = input[t].amount
          BY <3>2, MatchedWorth DEF Reversal
        <4>2. m = Worth(p)
          BY <2>a, <3>2, <4>1, Worthwhile DEF Share
        <4>3. -m = Worth(t)
          <5>1. m = -input[t].amount /\ Worth(t) = input[t].amount
            BY <4>1, <4>2 DEF Worth
          <5> QED
            BY <3>2, <5>1, Amounts
        <4>4. Net(EntriesIn(ledger'[WalletOf(p)], t)) = -m
          BY <1>2, <2>2, CommitMoves
        <4>5. t \in Stored' /\ input'[t].wallet = WalletOf(p) /\ WalletOf(p) \in Wallet
          BY <3>1, <3>2 DEF Stored, Holds
        <4>6. EntriesOf(t)' = EntriesIn(ledger'[WalletOf(p)], t)
          BY <4>5 DEF EntriesOf, EntriesIn
        <4> QED
          BY <4>3, <4>4, <4>6
      <3>4. Worth(t)' = Worth(t)
        BY <3>1 DEF Worth
      <3> QED
        BY <3>1, <3>3, <3>4 DEF Booked
    <2>3. CASE t # o /\ t \notin Undos(p)
      <3>1. \A v \in Wallet : EntriesIn(ledger'[v], t) = EntriesIn(ledger[v], t)
        BY <1>2, <2>3, CommitMoves
      <3>2. CASE rows'[t] = rows[t]
        BY <1>b, <3>1, <3>2
      <3>3. CASE rows'[t] # rows[t]
        <4>1. /\ t \in Staged(p) /\ t \in Foreign(p) /\ rows'[t] = uow[p].writes[t]
              /\ rows[t].status \in {"PENDING_REFERENCE", "REJECTED"}
              /\ uow[p].writes[t].status \in {"PROCESSED", "REJECTED"}
          BY <2>3, <2>a, <3>3, RowsChange DEF Inserting
        <4>2. rows'[t].status = "REJECTED"
          BY <2>3, <4>1 DEF Undos
        <4> QED
          BY <1>a, <3>1, <4>1, <4>2 DEF Booked
      <3> QED
        BY <3>2, <3>3
    <2> QED
      BY <2>1, <2>2, <2>3
  <1> QED
    BY <1>1, <1>2 DEF StepOf

\* Nobody is answered before the end.
LEMMA OpenKept ==
  ASSUME TypeInv, BooksInv, Next, NEW t \in Request
  PROVE  Open(t)'
  <1>a. /\ pc \in [Process -> Label] /\ answer \in [Request -> AnswerType] /\ Open(t)
        /\ t \in Process
    BY DEF TypeInv, ControlOK, InputsOK, BooksInv, Process
  <1>1. CASE UNCHANGED answer /\ (pc'[t] = "done" \/ pc[t] # "done")
    BY <1>1, <1>a DEF Open
  <1>2. ASSUME NEW p \in Request, NEW a, Return(p, a)
        PROVE  Open(t)'
    <2>1. CASE t = p
      BY <1>2, <1>a, <2>1 DEF Return, Go, Open
    <2>2. CASE t # p
      BY <1>2, <1>a, <2>2 DEF Return, Go, Open
    <2> QED
      BY <2>1, <2>2
  <1>3. ASSUME NEW p \in Process, NEW label, Go(p, label), UNCHANGED answer,
               p \in Request => pc[p] # "done"
        PROVE  Open(t)'
    <2>1. CASE t = p
      BY <1>1, <1>3, <2>1
    <2>2. CASE t # p
      BY <1>a, <1>3, <2>2 DEF Go, Open
    <2> QED
      BY <2>1, <2>2
  <1>4. ASSUME NEW p \in Request, Arrive(p) \/ ExecuteStep(p) \/ AbortRequest(p)
        PROVE  Open(t)'
    <2>1. \/ \E a : Return(p, a)
          \/ UNCHANGED answer /\ pc[p] # "done" /\ \E label : Go(p, label)
      BY <1>4 DEF Arrive, AbortRequest, ExecuteStep, RejectKind, CheckKey, CheckExt,
             WalletNotFound, LockSubmittedWallet, LockWallet, Decide, Insert, CheckForeignKey,
             LostRace, FindPending, ResolvePending, Commit
    <2> QED
      BY <1>2, <1>3, <2>1 DEF Process
  <1>5. ASSUME NEW k \in Worker, Pick(k) \/ RetryStep(k) \/ AbortWorker(k)
        PROVE  Open(t)'
    <2>1. UNCHANGED answer /\ \E label : Go(k, label)
      BY <1>5 DEF Pick, AbortWorker, RetryStep, WorkerLockWallet, LockWallet, WorkerLockRow,
             PutOff, Retry, WorkerCommit
    <2> QED
      BY <1>3, <2>1, ConstantsAssumption DEF Process
  <1> QED
    BY <1>4, <1>5 DEF Next

LEMMA InitBooksInv == Init => BooksInv
  <1> SUFFICES ASSUME Init PROVE BooksInv
    OBVIOUS
  <1>1. ASSUME NEW t \in Request
        PROVE  Booked(t) /\ Open(t)
    <2>1. rows[t].status = "NONE" /\ answer[t] = Failed("NONE")
      BY <1>1 DEF Init, NoRow
    <2>2. ASSUME NEW w \in Wallet
          PROVE  EntriesIn(ledger[w], t) = {}
      <3>1. CASE Opening[w] > 0
        <4> PICK e : e = LedgerEntry(OpeningTx, "CREDIT", Opening[w], 0)
          OBVIOUS
        <4>1. e.tx = OpeningTx /\ ledger[w] = <<e>>
          BY <3>1 DEF Init, LedgerEntry
        <4>2. \A n \in DOMAIN <<e>> : <<e>>[n] = e
          OBVIOUS
        <4>3. OpeningTx # t
          BY ConstantsAssumption
        <4> QED
          BY <4>1, <4>2, <4>3 DEF EntriesIn
      <3>2. CASE ~(Opening[w] > 0)
        <4>1. ledger[w] = <<>> /\ DOMAIN <<>> = {}
          BY <3>2 DEF Init
        <4> QED
          BY <4>1 DEF EntriesIn
      <3> QED
        BY <3>1, <3>2
    <2> QED
      BY <2>1, <2>2 DEF Booked, Open
  <1>2. ASSUME NEW p \in Process
        PROVE  BooksOK(p)
    <2>1. pc[p] = "idle" /\ uow[p] = EmptyUow
      BY DEF Init
    <2>2. Staged(p) = {} /\ ~uow[p].reversed
      BY <2>1 DEF Staged, EmptyUow
    <2> QED
      BY <2>1, <2>2 DEF BooksOK, Resolves, Foreign
  <1> QED
    BY <1>1, <1>2 DEF BooksInv

\* Every step of the system keeps the books.
LEMMA NextBooksInv ==
  TypeInv /\ TypeInv' /\ SubmitInv /\ LedgerInv /\ ReversalInv /\ BooksInv /\ [Next]_vars
    => BooksInv'
  <1> SUFFICES ASSUME TypeInv, TypeInv', SubmitInv, LedgerInv, ReversalInv, BooksInv, [Next]_vars
               PROVE  BooksInv'
    OBVIOUS
  <1>1. CASE Next
    <2>1. PICK p \in Process : StepOf(p) /\ BooksOK(p)'
      BY <1>1, NextStepOf, ExecuteStepBooks, WorkerBooks, RequestBooks DEF Process
    <2>2. \A q \in Process \ {p} : BooksOK(q)'
      BY <2>1, BooksKept
    <2>3. \A t \in Request : Booked(t)' /\ Open(t)'
      BY <1>1, <2>1, BookedKept, OpenKept
    <2> QED
      BY <2>1, <2>2, <2>3 DEF BooksInv
  <1>2. CASE UNCHANGED vars
    <2>1. \A t \in Request : Booked(t)' /\ Open(t)'
      <3> TAKE t \in Request
      <3>1. /\ input' = input /\ rows' = rows /\ ledger' = ledger /\ answer' = answer /\ pc' = pc
            /\ Booked(t) /\ Open(t)
        BY <1>2 DEF vars, BooksInv
      <3>2. EntriesOf(t)' = EntriesOf(t)
        BY <3>1 DEF EntriesOf, Stored
      <3>3. Booked(t)'
        BY <3>1, <3>2 DEF Booked, Owned, Worth
      <3> QED
        BY <3>1, <3>3 DEF Open
    <2>2. ASSUME NEW p \in Process
          PROVE  BooksOK(p)'
      <3>1. CASE pc[p] = "idle"
        BY <1>2, <3>1 DEF vars, BooksInv, BooksOK, Resolves, Staged, Foreign, Own, Matches
      <3>2. CASE pc[p] # "idle"
        <4>1. pc'[p] # "idle" /\ uow'[p] = uow[p]
              /\ UNCHANGED <<input, target, rows, wallets, walletLock>>
          BY <1>2, <3>2 DEF vars
        <4>2. pc'[p] = "commit" => uow[p].writes[Own(p)].status # "NONE"
          BY <1>2 DEF vars, BooksInv, BooksOK, Accounts
        <4> QED
          BY <3>2, <4>1, <4>2, SameBooks
      <3> QED
        BY <3>1, <3>2
    <2> QED
      BY <2>1, <2>2 DEF BooksInv
  <1> QED
    BY <1>1, <1>2

LEMMA BooksInvHolds == Spec => []BooksInv
  BY TypeInvHolds, LedgerInvHolds, SubmitInvHolds, ReversalInvHolds, InitBooksInv,
     NextBooksInv, PTL DEF Spec

-----------------------------------------------------------------------------
(* The steps that change no table. *)

\* What the ledger that is promised shows of the tables and of the answers.
Statuses == [t \in Request |-> rows[t].status]
Movements == [t \in Request |-> Net(EntriesOf(t))]
Balances == [w \in Wallet |-> wallets[w].balance]
Answers == [p \in Request |-> [status |-> answer[p].status, tx |-> answer[p].tx]]

\* While the tables stay, so does what they show.
LEMMA SameView ==
  ASSUME TypeInv, SubmitInv, NEW p \in Process, StepOf(p), UNCHANGED Database
  PROVE  UNCHANGED <<Statuses, Movements, Balances>>
  <1>1. UNCHANGED <<wallets, ledger, rows>>
    BY DEF Database
  <1>2. ASSUME NEW t \in Request
        PROVE  EntriesOf(t)' = EntriesOf(t)
    <2>1. t \in Stored => input'[t] = input[t]
      BY StepKeeps
    <2> QED
      BY <1>1, <2>1 DEF EntriesOf, Stored
  <1>3. Movements' = Movements
    BY <1>2 DEF Movements
  <1> QED
    BY <1>1, <1>3 DEF Statuses, Balances

\* An answer is shown.
LEMMA AnswerShown ==
  ASSUME NEW p \in Request, \A q \in Request \ {p} : answer'[q] = answer[q],
         NEW s, NEW t, s = answer'[p].status, t = answer'[p].tx
  PROVE  Promise!Tell(p, s, t)
  BY DEF Promise!Tell

LEMMA SameTables ==
  ASSUME UNCHANGED <<Statuses, Movements, Balances>>
  PROVE  /\ UNCHANGED [t \in Request |-> rows[t].status]
         /\ UNCHANGED [t \in Request |-> Net(EntriesOf(t))]
         /\ UNCHANGED [w \in Wallet |-> wallets[w].balance]
  BY DEF Statuses, Movements, Balances

\* A request that is at work has not been answered.
LEMMA Waits ==
  ASSUME TypeInv, BooksInv, NEW p \in Request, pc[p] \notin {"idle", "done"}
  PROVE  Promise!Unanswered(p)
  <1>1. input[p] # None
    BY ConstantsAssumption DEF TypeInv, ControlOK, Submitted
  <1>2. answer[p].status = "NONE" /\ answer[p].tx = None
    BY DEF BooksInv, Open, Failed
  <1> QED
    BY <1>1, <1>2 DEF Promise!Unanswered, Promise!NoAnswer

\* A replay, or a conflict with what is stored.
LEMMA Replies ==
  ASSUME TypeInv, SubmitInv, BooksInv, NEW p \in Request, StepOf(p), UNCHANGED Database,
         UNCHANGED input, pc[p] \notin {"idle", "done"}, NEW t \in Stored,
         Collide(input[p], input[t]), answer'[p] = ReplayOrConflict(p, t)
  PROVE  Promise!Reply(p)
  <1>a. p \in Process /\ t \in Request /\ \A q \in Request \ {p} : answer'[q] = answer[q]
    BY DEF Process, Stored, StepOf
  <1>1. t \in Promise!Stored /\ Promise!Same(p, t)
    BY DEF Promise!Stored, Stored, Promise!Same, Collide
  <1>2. Promise!SamePayload(input[p], input[t]) <=> SamePayload(input[p], input[t])
    BY DEF Promise!SamePayload, SamePayload
  <1>3. [x \in Request |-> rows[x].status][t] = rows[t].status
    BY <1>a
  <1>4. CASE SamePayload(input[p], input[t])
    <2>1. answer'[p].status = rows[t].status /\ answer'[p].tx = t
      BY <1>4 DEF ReplayOrConflict, Result
    <2>2. Promise!Tell(p, rows[t].status, t)
      BY <1>a, <2>1, AnswerShown
    <2> QED
      BY <1>a, <1>1, <1>2, <1>3, <1>4, <2>2, SameView, SameTables, Waits DEF Promise!Reply
  <1>5. CASE ~SamePayload(input[p], input[t])
    <2>1. answer'[p].status = "CONFLICT" /\ answer'[p].tx = None
      BY <1>5 DEF ReplayOrConflict, Failed
    <2>2. Promise!Tell(p, "CONFLICT", None)
      BY <1>a, <2>1, AnswerShown
    <2> QED
      BY <1>a, <1>1, <1>2, <1>5, <2>2, SameView, SameTables, Waits DEF Promise!Reply
  <1> QED
    BY <1>4, <1>5

\* A failure.
LEMMA Fails ==
  ASSUME TypeInv, SubmitInv, BooksInv, NEW p \in Request, StepOf(p), UNCHANGED Database,
         UNCHANGED input, pc[p] \notin {"idle", "done"}, NEW s,
         s = "ERROR" \/ (s = "NOT_FOUND" /\ input[p].wallet \notin Wallet),
         answer'[p] = Failed(s)
  PROVE  Promise!Fail(p)
  <1>1. p \in Process /\ \A q \in Request \ {p} : answer'[q] = answer[q]
    BY DEF Process, StepOf
  <1>2. answer'[p].status = s /\ answer'[p].tx = None
    BY DEF Failed
  <1>3. Promise!Tell(p, s, None)
    BY <1>1, <1>2, AnswerShown
  <1> QED
    BY <1>1, <1>3, SameView, SameTables, Waits DEF Promise!Fail

\* Anything else that changes no table is nobody's business.
LEMMA Unseen ==
  ASSUME TypeInv, SubmitInv, NEW p \in Process, StepOf(p), UNCHANGED Database,
         UNCHANGED <<input, answer>>
  PROVE  UNCHANGED Promise!vars
  BY SameView, SameTables DEF Promise!vars

\* A submission comes.
LEMMA Submits ==
  ASSUME TypeInv, SubmitInv, NEW p \in Request, StepOf(p), Arrive(p)
  PROVE  Promise!Submit(p)
  <1>1. p \in Process /\ UNCHANGED Database /\ UNCHANGED answer /\ input[p] = None
    BY DEF Process, Arrive, Database, TypeInv, ControlOK
  <1>2. UNCHANGED [x \in Request |-> [status |-> answer[x].status, tx |-> answer[x].tx]]
    BY <1>1
  <1>3. \E i \in Inputs : input' = [input EXCEPT ![p] = i]
    BY DEF Arrive
  <1> QED
    BY <1>1, <1>2, <1>3, SameView, SameTables DEF Promise!Submit

\* Whatever a request does before it commits, it does to nobody, or answers itself.
LEMMA RequestMaps ==
  ASSUME TypeInv, SubmitInv, BooksInv, NEW p \in Request, StepOf(p),
         Arrive(p) \/ ExecuteStep(p) \/ AbortRequest(p), ~Commit(p)
  PROVE  Promise!Next \/ UNCHANGED Promise!vars
  <1>a. /\ p \in Process /\ pc \in [Process -> Label] /\ answer \in [Request -> AnswerType]
    BY DEF Process, TypeInv, ControlOK, InputsOK
  <1>b. ASSUME Promise!Submit(p) \/ Promise!Reply(p) \/ Promise!Fail(p)
        PROVE  Promise!Next
    BY <1>b DEF Promise!Next
  <1>c. ASSUME NEW t \in Stored, Collide(input[p], input[t]), Return(p, ReplayOrConflict(p, t)),
               UNCHANGED Database, UNCHANGED input, pc[p] \notin {"idle", "done"}
        PROVE  Promise!Next
    <2>1. answer'[p] = ReplayOrConflict(p, t)
      BY <1>a, <1>c DEF Return
    <2> QED
      BY <1>b, <1>c, <2>1, Replies
  <1>d. ASSUME NEW s, s = "ERROR" \/ (s = "NOT_FOUND" /\ input[p].wallet \notin Wallet),
               Return(p, Failed(s)),
               UNCHANGED Database, UNCHANGED input, pc[p] \notin {"idle", "done"}
        PROVE  Promise!Next
    <2>1. answer'[p] = Failed(s)
      BY <1>a, <1>d DEF Return
    <2> QED
      BY <1>b, <1>d, <2>1, Fails
  <1>e. ASSUME UNCHANGED Database, UNCHANGED <<input, answer>>
        PROVE  UNCHANGED Promise!vars
    BY <1>a, <1>e, Unseen
  <1>1. CASE Arrive(p)
    BY <1>1, <1>b, Submits
  <1>2. CASE AbortRequest(p)
    BY <1>2, <1>d DEF AbortRequest, Rollback
  <1>3. CASE RejectKind(p) \/ LockSubmittedWallet(p) \/ Decide(p) \/ Insert(p) \/ FindPending(p)
             \/ \E t \in Request : ResolvePending(p, t)
    <2>1. UNCHANGED Database /\ UNCHANGED <<input, answer>>
      BY <1>3 DEF RejectKind, LockSubmittedWallet, Decide, Insert, Rollback, FindPending,
                  ResolvePending
    <2> QED
      BY <1>e, <2>1
  <1>4. CASE CheckKey(p)
    <2>1. UNCHANGED Database /\ UNCHANGED input /\ pc[p] = "checkKey"
      BY <1>4 DEF CheckKey
    <2>2. CASE \E t \in FindByKey(input[p].key) : Return(p, ReplayOrConflict(p, t))
      BY <1>c, <2>1, <2>2 DEF FindByKey, Collide
    <2>3. CASE UNCHANGED answer
      BY <1>e, <2>1, <2>3
    <2> QED
      BY <1>4, <2>2, <2>3 DEF CheckKey
  <1>5. CASE CheckExt(p)
    <2>1. UNCHANGED Database /\ UNCHANGED input /\ pc[p] = "checkExt"
      BY <1>5 DEF CheckExt
    <2>2. CASE \E t \in FindByExt(input[p].ext) : Return(p, ReplayOrConflict(p, t))
      BY <1>c, <2>1, <2>2 DEF FindByExt, Collide
    <2>3. CASE UNCHANGED answer
      BY <1>e, <2>1, <2>3
    <2> QED
      BY <1>5, <2>2, <2>3 DEF CheckExt
  <1>6. CASE WalletNotFound(p)
    BY <1>6, <1>d DEF WalletNotFound
  <1>7. CASE CheckForeignKey(p)
    <2>1. UNCHANGED Database /\ UNCHANGED input /\ pc[p] = "fk"
      BY <1>7 DEF CheckForeignKey, Rollback
    <2>2. CASE Return(p, Failed("ERROR"))
      BY <1>d, <2>1, <2>2
    <2>3. CASE UNCHANGED answer
      BY <1>e, <2>1, <2>3
    <2> QED
      BY <1>7, <2>2, <2>3 DEF CheckForeignKey
  <1>8. CASE LostRace(p)
    <2>1. UNCHANGED Database /\ UNCHANGED input /\ pc[p] = "lost"
      BY <1>8 DEF LostRace
    <2>2. CASE Winners(p) = {}
      BY <1>8, <1>d, <2>1, <2>2 DEF LostRace
    <2>3. CASE Winners(p) # {}
      <3> DEFINE t == CHOOSE x \in Winners(p) : TRUE
      <3>1. t \in Winners(p)
        BY <2>3
      <3>2. Return(p, ReplayOrConflict(p, t))
        BY <1>8, <2>3 DEF LostRace
      <3> HIDE DEF t
      <3>3. t \in Stored /\ Collide(input[p], input[t])
        BY <3>1 DEF Winners, FindByKey, FindByExt, Collide
      <3> QED
        BY <1>c, <2>1, <3>2, <3>3
    <2> QED
      BY <2>2, <2>3
  <1> QED
    BY <1>1, <1>2, <1>3, <1>4, <1>5, <1>6, <1>7, <1>8 DEF ExecuteStep

\* Nor does a worker.
LEMMA WorkerMaps ==
  ASSUME TypeInv, SubmitInv, NEW k \in Worker, StepOf(k),
         Pick(k) \/ RetryStep(k) \/ AbortWorker(k), ~WorkerCommit(k)
  PROVE  UNCHANGED Promise!vars
  <1>1. k \in Process /\ UNCHANGED Database /\ UNCHANGED <<input, answer>>
    BY DEF Process, Pick, AbortWorker, RetryStep, WorkerLockWallet, WorkerLockRow, Release,
           PutOff, Retry, Rollback
  <1> QED
    BY <1>1, Unseen

-----------------------------------------------------------------------------
(* The steps that commit. *)

\* What the promised ledger lets a reversal undo is what the code finds for it.
LEMMA ReversibleIs ==
  ASSUME NEW t \in Request, NEW r
  PROVE  r \in Promise!Reversible(t) <=>
           /\ r \in ProcessedReference(input[t].ref) /\ Matches(t, r)
           /\ ~AlreadyReversed(input[t].ref)
  <1>1. Promise!Stored = Stored
    BY DEF Promise!Stored, Stored
  <1>2. \A x \in Request : [y \in Request |-> rows[y].status][x] = rows[x].status
    OBVIOUS
  <1>3. ASSUME r \in Request, input[r].ext = input[t].ref
        PROVE  Promise!Undoes(t, r) <=> Matches(t, r)
    <2>1. ReversalRejection(input[t], input[r], input[r].wallet, FALSE) = None <=> Matches(t, r)
      BY <1>3, RulesMatch
    <2>2. Promise!ReversalRejection(input[t], input[r], input[r].wallet, FALSE)
            = ReversalRejection(input[t], input[r], input[r].wallet, FALSE)
      BY DEF Promise!ReversalRejection, ReversalRejection, Promise!AllowedReferenceKinds,
             AllowedReferenceKinds
    <2> QED
      BY <2>1, <2>2 DEF Promise!Undoes
  <1>4. (\E s \in Promise!Stored : /\ [y \in Request |-> rows[y].status][s] = "PROCESSED"
                                   /\ input[s].kind \in Promise!Reversal
                                   /\ input[s].ref = input[t].ref)
          <=> AlreadyReversed(input[t].ref)
    BY <1>1, <1>2 DEF AlreadyReversed, Stored, Reversal, Promise!Reversal
  <1>5. r \in Promise!Reversible(t) <=>
          /\ r \in Promise!Stored /\ [y \in Request |-> rows[y].status][r] = "PROCESSED"
          /\ input[r].ext = input[t].ref /\ Promise!Undoes(t, r)
          /\ ~AlreadyReversed(input[t].ref)
    BY <1>4 DEF Promise!Reversible
  <1>6. r \in Stored => r \in Request
    BY DEF Stored
  <1>7. r \in ProcessedReference(input[t].ref) <=>
          r \in Stored /\ rows[r].status = "PROCESSED" /\ input[r].ext = input[t].ref
    BY DEF ProcessedReference, FindByExt
  <1>8. Matches(t, r) => input[r].ext = input[t].ref
    BY DEF Matches
  <1> QED
    BY <1>1, <1>2, <1>3, <1>5, <1>6, <1>7, <1>8

\* What a transaction that may be undone has moved is what it is worth.
LEMMA MovedWorth ==
  ASSUME BooksInv, NEW t \in Request, input[t].kind \in Reversal,
         NEW r \in Promise!Reversible(t)
  PROVE  [x \in Request |-> Net(EntriesOf(x))][r] = Worth(r)
  <1>1. r \in Request /\ rows[r].status = "PROCESSED" /\ Matches(t, r)
    BY ReversibleIs DEF ProcessedReference, FindByExt, Stored
  <1>2. input[r].kind \in {"BET", "WIN", "REFUND"}
    BY <1>1, MatchedWorth
  <1> QED
    BY <1>1, <1>2 DEF BooksInv, Booked

\* What the promised ledger lets a transaction add to its wallet.
LEMMA GainIs ==
  ASSUME BooksInv, NEW t \in Request, NEW m
  PROVE  m \in Promise!Gain(t) <=>
           /\ input[t].wallet \in Wallet /\ ExternallySubmittable(input[t].kind) /\ Owned(t)
           /\ \/ input[t].kind = "LOSS" /\ m = 0
              \/ /\ input[t].kind # "LOSS" /\ Priced(t)
                 /\ wallets[input[t].wallet].balance + m >= 0
                 /\ \/ /\ input[t].kind \in Reversal /\ ~AlreadyReversed(input[t].ref)
                       /\ \E r \in ProcessedReference(input[t].ref) :
                            Matches(t, r) /\ m = -Worth(r)
                    \/ input[t].kind \notin Reversal /\ m = Worth(t)
  <1> DEFINE found == {-[x \in Request |-> Net(EntriesOf(x))][r] : r \in Promise!Reversible(t)}
             asked == {IF input[t].kind = "BET" THEN -input[t].amount ELSE input[t].amount}
             some  == IF input[t].kind \in Reversal THEN found ELSE asked
  <1>1. input[t].kind \in Reversal =>
          (m \in found <=> /\ ~AlreadyReversed(input[t].ref)
                           /\ \E r \in ProcessedReference(input[t].ref) :
                                Matches(t, r) /\ m = -Worth(r))
    <2> SUFFICES ASSUME input[t].kind \in Reversal
                 PROVE  m \in found <=> /\ ~AlreadyReversed(input[t].ref)
                                        /\ \E r \in ProcessedReference(input[t].ref) :
                                             Matches(t, r) /\ m = -Worth(r)
      OBVIOUS
    <2>1. m \in found <=> \E r \in Promise!Reversible(t) : m = -Worth(r)
      BY MovedWorth
    <2> HIDE DEF found
    <2>2. \A r : r \in Promise!Reversible(t) <=>
            /\ r \in ProcessedReference(input[t].ref) /\ Matches(t, r)
            /\ ~AlreadyReversed(input[t].ref)
      BY ReversibleIs
    <2> QED
      BY <2>1, <2>2
  <1>2. m \in asked <=> m = Worth(t)
    BY DEF Worth
  <1>3. m \in Promise!Gain(t) <=>
           /\ input[t].wallet \in Wallet /\ ExternallySubmittable(input[t].kind) /\ Owned(t)
           /\ \/ input[t].kind = "LOSS" /\ m = 0
              \/ /\ input[t].kind # "LOSS" /\ Priced(t)
                 /\ wallets[input[t].wallet].balance + m >= 0 /\ m \in some
    <2> HIDE DEF some
    <2>1. CASE input[t].wallet \notin Wallet \/ ~ExternallySubmittable(input[t].kind)
      <3>1. Promise!Gain(t) = {}
        BY <2>1 DEF Promise!Gain, Promise!ExternallySubmittable, ExternallySubmittable
      <3> QED
        BY <2>1, <3>1
    <2>2. CASE /\ input[t].wallet \in Wallet /\ ExternallySubmittable(input[t].kind)
               /\ input[t].kind = "LOSS"
      <3>1. Promise!Gain(t) = IF Owned(t) THEN {0} ELSE {}
        BY <2>2 DEF Promise!Gain, Promise!ExternallySubmittable, ExternallySubmittable, Owned
      <3> QED
        BY <2>2, <3>1
    <2>3. CASE /\ input[t].wallet \in Wallet /\ ExternallySubmittable(input[t].kind)
               /\ input[t].kind # "LOSS"
      <3> DEFINE b == [w \in Wallet |-> wallets[w].balance][input[t].wallet]
      <3>1. b = wallets[input[t].wallet].balance
        BY <2>3
      <3>2. Promise!Gain(t) = IF Owned(t) THEN {x \in some : Priced(t) /\ b + x >= 0} ELSE {}
        BY <2>3 DEF Promise!Gain, Promise!ExternallySubmittable, ExternallySubmittable, Owned,
                    Priced, some, Promise!Reversal, Reversal
      <3> HIDE DEF b
      <3> QED
        BY <2>3, <3>1, <3>2
    <2> QED
      BY <2>1, <2>2, <2>3
  <1> HIDE DEF found, asked
  <1> QED
    BY <1>1, <1>2, <1>3

\* What is in vain for the code is not promised.
LEMMA NoGain ==
  ASSUME TypeInv, BooksInv, NEW p \in Process, NEW t \in Request, Submitted(t), Vain(p, t)
  PROVE  Promise!Gain(t) = {}
  <1> SUFFICES ASSUME NEW m \in Promise!Gain(t) PROVE FALSE
    OBVIOUS
  <1>1. /\ input[t].wallet \in Wallet /\ ExternallySubmittable(input[t].kind) /\ Owned(t)
        /\ \/ input[t].kind = "LOSS" /\ m = 0
           \/ /\ input[t].kind # "LOSS" /\ Priced(t)
              /\ wallets[input[t].wallet].balance + m >= 0
              /\ \/ /\ input[t].kind \in Reversal /\ ~AlreadyReversed(input[t].ref)
                    /\ \E r \in ProcessedReference(input[t].ref) :
                         Matches(t, r) /\ m = -Worth(r)
                 \/ input[t].kind \notin Reversal /\ m = Worth(t)
    BY GainIs
  <1>2. /\ input[t].kind # "LOSS" /\ Priced(t)
        /\ \/ /\ input[t].kind \in Reversal
              /\ \A r \in ProcessedReference(input[t].ref) : Refused(t, r)
           \/ /\ input[t].kind \notin Reversal
              /\ wallets[input[t].wallet].balance + Worth(t) < 0
    BY <1>1 DEF Vain
  <1> PICK b : b = wallets[input[t].wallet].balance
    OBVIOUS
  <1>3. b \in Nat
    BY <1>1 DEF TypeInv, DatabaseOK, WalletType
  <1>4. CASE input[t].kind \notin Reversal
    <2>1. Worth(t) \in Int /\ b + Worth(t) >= 0 /\ b + Worth(t) < 0
      BY <1>1, <1>2, <1>4, Amounts
    <2> QED
      BY <1>3, <2>1
  <1>5. CASE input[t].kind \in Reversal
    <2> PICK r \in ProcessedReference(input[t].ref) : Matches(t, r) /\ m = -Worth(r)
      BY <1>1, <1>2, <1>5
    <2>1. r \in Request /\ Submitted(r)
      BY StoredKnown DEF ProcessedReference, FindByExt
    <2>2. b - Worth(r) < 0 /\ Worth(r) \in Int /\ b + m >= 0
      BY <1>1, <1>2, <1>5, <2>1, Amounts DEF Refused
    <2> PICK a : a = Worth(r)
      OBVIOUS
    <2> QED
      BY <1>3, <2>2
  <1> QED
    BY <1>4, <1>5

\* What a process has decided to apply is promised.
LEMMA HasGain ==
  ASSUME TypeInv, SubmitInv, LedgerInv, ReversalInv, BooksInv,
         NEW p \in Process, pc[p] = "commit", Apply(p), NEW t, t = Own(p),
         uow[p].writes[t].status = "PROCESSED"
  PROVE  Share(p, t) \in Promise!Gain(t)
  <1> PICK m, r : m = Share(p, t) /\ r = uow[p].writes[t].refTx
    OBVIOUS
  <1>a. t \in Request /\ Submitted(t) /\ Accounts(p, t) /\ ProcessOK(p)
    BY OwnNotProcessed DEF BooksInv, BooksOK, ReversalInv
  <1>b. Holds(p) /\ input[t].wallet = WalletOf(p) /\ input[t].wallet \in Wallet
    BY <1>a DEF ProcessOK, Guarded, Holds
  <1>1. ExternallySubmittable(input[t].kind) /\ Owned(t)
    BY <1>a DEF Accounts
  <1>2. CASE input[t].kind = "LOSS"
    <2>1. m = 0
      BY <1>2 DEF Share
    <2>2. m \in Promise!Gain(t)
      BY <1>1, <1>2, <1>a, <1>b, <2>1, GainIs
    <2> QED
      BY <2>2
  <1>3. CASE input[t].kind # "LOSS"
    <2>1. Priced(t) /\ m = Change(t, r)
      BY <1>3, <1>a DEF Accounts, Share
    <2>2. wallets[input[t].wallet].balance + m >= 0
      BY <1>3, <1>b, CommitMoves
    <2>3. CASE input[t].kind \in Reversal
      <3>1. t \in Undoing(p)
        BY <1>a, <2>3 DEF Undoing
      <3>2. r \in Request /\ Matches(t, r) /\ (rows[r].status = "PROCESSED" \/ (r = p /\ t # p))
        BY <1>a, <3>1 DEF ProcessOK, Undoes
      <3>3. ~(r = p /\ t # p)
        BY <3>2, OwnNotProcessed DEF Process
      <3>4. r \in ProcessedReference(input[t].ref)
        BY <3>2, <3>3 DEF ProcessedReference, FindByExt, Stored, Matches
      <3>5. ~AlreadyReversed(input[t].ref)
        BY <1>a, <3>1 DEF ProcessOK, Undoes, AlreadyReversed, Undone
      <3>6. m = -Worth(r)
        BY <2>1, <2>3 DEF Change
      <3>7. m \in Promise!Gain(t)
        BY <1>1, <1>3, <1>a, <1>b, <2>1, <2>2, <2>3, <3>2, <3>4, <3>5, <3>6, GainIs
      <3> QED
        BY <3>7
    <2>4. CASE input[t].kind \notin Reversal
      <3>1. m = Worth(t)
        BY <2>1, <2>4 DEF Change
      <3>2. m \in Promise!Gain(t)
        BY <1>1, <1>3, <1>a, <1>b, <2>1, <2>2, <2>4, <3>1, GainIs
      <3> QED
        BY <3>2
    <2> QED
      BY <2>3, <2>4
  <1> QED
    BY <1>2, <1>3

\* What a commit shows.
LEMMA CommitShows ==
  ASSUME TypeInv, TypeInv', SubmitInv, LedgerInv, ReversalInv, BooksInv,
         NEW p \in Process, pc[p] = "commit", Apply(p), UNCHANGED input,
         NEW t, t = Own(p), NEW m, m = Share(p, t)
  PROVE  /\ \A x \in Request : rows'[x].status =
              IF x \in Staged(p) THEN uow[p].writes[x].status ELSE rows[x].status
         /\ Net(EntriesOf(t)') = m /\ Net(EntriesOf(t)) = 0
         /\ \A x \in Undos(p) : Net(EntriesOf(x)') = -m
         /\ \A x \in Request : x # t /\ x \notin Undos(p) => EntriesOf(x)' = EntriesOf(x)
  <1>a. /\ t \in Request /\ input[t].wallet = WalletOf(p) /\ rows[t].status # "PROCESSED"
        /\ (p \in Request => t = p) /\ (p \in Worker => p \notin Request)
    BY OwnNotProcessed
  <1>b. t \in Staged(p)
    <2>1. uow[p].writes[t].status # "NONE"
      BY DEF BooksInv, BooksOK, Accounts
    <2> QED
      BY <1>a, <2>1, AbsentRow DEF Staged
  <1>c. Stored' = Stored \cup Staged(p)
    BY ApplyStores
  <1>1. \A x \in Request : rows'[x].status =
              IF x \in Staged(p) THEN uow[p].writes[x].status ELSE rows[x].status
    BY DEF Apply, Staged
  <1>2. Net(EntriesOf(t)) = 0
    <2>1. EntriesOf(t) = {}
      BY <1>a, EntriesOfTx DEF BooksInv, Booked
    <2> QED
      BY <2>1, NetOfNone
  <1>3. ASSUME NEW x \in Stored', input[x].wallet = WalletOf(p), WalletOf(p) \in Wallet
        PROVE  EntriesOf(x)' = EntriesIn(ledger'[WalletOf(p)], x)
    BY <1>3 DEF EntriesOf, EntriesIn
  <1>4. Net(EntriesOf(t)') = m
    <2>1. WalletOf(p) \in Wallet
      BY <1>a DEF WalletOf, Process, TypeInv, ControlOK, Checked, Known
    <2>2. EntriesOf(t)' = EntriesIn(ledger'[WalletOf(p)], t)
      BY <1>3, <1>a, <1>b, <1>c, <2>1
    <2>3. CASE uow[p].writes[t].status # "PROCESSED" \/ input[t].kind = "LOSS"
      <3>1. m = 0 /\ EntriesIn(ledger'[WalletOf(p)], t) = {}
        BY <2>1, <2>3, CommitMoves
      <3> QED
        BY <2>2, <3>1, NetOfNone
    <2>4. CASE uow[p].writes[t].status = "PROCESSED" /\ input[t].kind # "LOSS"
      BY <2>2, <2>4, CommitMoves
    <2> QED
      BY <2>3, <2>4
  <1>5. ASSUME NEW x \in Undos(p)
        PROVE  Net(EntriesOf(x)') = -m
    <2>1. x \in Stored' /\ input[x].wallet = WalletOf(p) /\ WalletOf(p) \in Wallet
      BY <1>c, UndosKnown DEF Undos, Holds
    <2>2. Net(EntriesIn(ledger'[WalletOf(p)], x)) = -m
      BY CommitMoves
    <2> QED
      BY <1>3, <2>1, <2>2
  <1>6. ASSUME NEW x \in Request, x # t, x \notin Undos(p)
        PROVE  EntriesOf(x)' = EntriesOf(x)
    <2>1. x \in Staged(p) => x \in Stored
      BY <1>6, <1>a DEF SubmitInv, RowsKnown, Process
    <2>2. x \in Stored' <=> x \in Stored
      BY <1>c, <2>1
    <2>3. \A v \in Wallet : EntriesIn(ledger'[v], x) = EntriesIn(ledger[v], x)
      BY <1>6, CommitMoves
    <2> QED
      BY <2>2, <2>3 DEF EntriesOf, EntriesIn
  <1> QED
    BY <1>1, <1>2, <1>4, <1>5, <1>6

\* A request that commits is told what it has stored, under a key and an identifier of its
\* own.
LEMMA CommitIsFresh ==
  ASSUME TypeInv, SubmitInv, ReversalInv, BooksInv, NEW p \in Request, Commit(p), StepOf(p),
         NEW s, s = uow[p].writes[p].status
  PROVE  Promise!Fresh(p) /\ Promise!Tell(p, s, p)
  <1>a. /\ p \in Process /\ pc[p] = "commit" /\ p \in Inserting /\ p \notin Stored
    BY OwnNotProcessed DEF Process, Commit
  <1>1. Promise!Unanswered(p)
    BY <1>a, Waits
  <1>2. ~\E t \in Promise!Stored : Promise!Same(p, t)
    BY <1>a DEF Promise!Stored, Stored, Promise!Same, SubmitInv, Unique, Collide
  <1>3. answer'[p] = FirstAnswer(p) /\ \A q \in Request \ {p} : answer'[q] = answer[q]
    BY DEF Commit, Return, TypeInv, InputsOK
  <1>4. answer'[p].status = s /\ answer'[p].tx = p
    BY <1>3 DEF FirstAnswer
  <1>5. Promise!Tell(p, s, p)
    BY <1>3, <1>4, AnswerShown
  <1> QED
    BY <1>1, <1>2, <1>5 DEF Promise!Fresh

\* A commit of one row that is not processed changes that row only.
LEMMA OneRowShown ==
  ASSUME TypeInv, TypeInv', SubmitInv, LedgerInv, ReversalInv, BooksInv,
         NEW p \in Process, pc[p] = "commit", Apply(p), UNCHANGED input,
         NEW t, t = Own(p), NEW s, s = uow[p].writes[t].status, s # "PROCESSED"
  PROVE  /\ Statuses' = [Statuses EXCEPT ![t] = s]
         /\ UNCHANGED <<Movements, Balances>>
  <1> PICK m : m = Share(p, t)
    OBVIOUS
  <1>a. /\ t \in Request /\ t \in Staged(p) /\ Undos(p) = {}
        /\ \A x \in Staged(p) : x = t
    <2>1. t \in Request /\ Accounts(p, t) /\ ProcessOK(p) /\ (p \in Request => t = p)
          /\ (p \in Worker => t = target[p])
      BY OwnNotProcessed DEF BooksInv, BooksOK, ReversalInv
    <2>2. t \in Staged(p)
      BY <2>1, AbsentRow DEF Accounts, Staged
    <2>3. Undos(p) = {}
      <3>1. CASE p \in Request
        BY <2>1, <3>1, UndosKnown
      <3>2. CASE p \in Worker
        BY <2>1, <3>2, UndosKnown, ConstantsAssumption
      <3> QED
        BY <3>1, <3>2 DEF Process
    <2>4. \A x \in Staged(p) : x = t
      BY <2>1 DEF ProcessOK, RequestRows, WorkerRows, Foreign, Process
    <2> QED
      BY <2>1, <2>2, <2>3, <2>4
  <1>b. /\ \A x \in Request : rows'[x].status =
              IF x \in Staged(p) THEN uow[p].writes[x].status ELSE rows[x].status
        /\ Net(EntriesOf(t)') = m /\ Net(EntriesOf(t)) = 0
        /\ \A x \in Request : x # t /\ x \notin Undos(p) => EntriesOf(x)' = EntriesOf(x)
    BY CommitShows
  <1>c. m = 0
    BY CommitMoves
  <1>1. Statuses' = [Statuses EXCEPT ![t] = s]
    BY <1>a, <1>b DEF Statuses
  <1>2. Movements' = Movements
    <2>1. \A x \in Request : Net(EntriesOf(x)') = Net(EntriesOf(x))
      BY <1>a, <1>b, <1>c
    <2> QED
      BY <2>1 DEF Movements
  <1>3. \A v \in Wallet : wallets'[v].balance = wallets[v].balance
    <2>1. \A v \in Wallet : wallets[v].balance + 0 = wallets[v].balance
      BY DEF TypeInv, DatabaseOK, WalletType
    <2> QED
      BY <1>c, <2>1, CommitMoves
  <1> QED
    BY <1>1, <1>2, <1>3 DEF Balances

\* A submission is rejected, or left to wait, because there is nothing it could add.
LEMMA CommitPutsAside ==
  ASSUME TypeInv, TypeInv', SubmitInv, LedgerInv, ReversalInv, BooksInv,
         NEW p \in Request, Commit(p), StepOf(p), uow[p].writes[p].status # "PROCESSED"
  PROVE  Promise!Reject(p) \/ Promise!Wait(p)
  <1> PICK s : s = uow[p].writes[p].status
    OBVIOUS
  <1>a. /\ p \in Process /\ p = Own(p) /\ pc[p] = "commit" /\ Apply(p) /\ UNCHANGED input
        /\ Submitted(p) /\ Accounts(p, p) /\ ProcessOK(p)
        /\ s \in {"REJECTED", "PENDING_REFERENCE"}
    <2>1. p \in Process /\ p = Own(p) /\ pc[p] = "commit" /\ Apply(p) /\ UNCHANGED input
      BY ConstantsAssumption DEF Process, Own, Commit
    <2>2. Submitted(p) /\ Accounts(p, p) /\ ProcessOK(p)
      BY <2>1, OwnNotProcessed DEF BooksInv, BooksOK, ReversalInv
    <2>3. uow[p].writes[p] \in RowType /\ s # "NONE"
      BY <2>1, <2>2 DEF Accounts, TypeInv, UowOK, UowType
    <2> QED
      BY <2>1, <2>2, <2>3 DEF RowType
  <1>1. Promise!Fresh(p) /\ Promise!Tell(p, s, p)
    BY CommitIsFresh
  <1>2. Promise!Gain(p) = {}
    BY <1>a, NoGain DEF Accounts
  <1>3. Statuses' = [Statuses EXCEPT ![p] = s] /\ UNCHANGED <<Movements, Balances>>
    BY <1>a, OneRowShown
  <1>4. CASE s = "REJECTED"
    BY <1>1, <1>2, <1>3, <1>4, <1>a DEF Promise!Reject, Statuses, Movements, Balances
  <1>5. CASE s = "PENDING_REFERENCE"
    <2>1. input[p].kind \in Promise!Reversal /\ input[p].ref # None
      BY <1>5, <1>a DEF ProcessOK, RequestRows, Accounts, Promise!Reversal, Reversal
    <2> QED
      BY <1>1, <1>2, <1>3, <1>5, <1>a, <2>1 DEF Promise!Wait, Statuses, Movements, Balances
  <1> QED
    BY <1>4, <1>5, <1>a

\* A worker settles the reversal it retries.
LEMMA WorkerCommitMaps ==
  ASSUME TypeInv, TypeInv', SubmitInv, LedgerInv, ReversalInv, BooksInv,
         NEW k \in Worker, WorkerCommit(k)
  PROVE  Promise!Next
  <1> PICK t, s, m : t = Own(k) /\ s = uow[k].writes[t].status /\ m = Share(k, t)
    OBVIOUS
  <1>a. k \in Process /\ pc[k] = "commit" /\ Apply(k) /\ UNCHANGED <<input, answer>>
    BY DEF Process, WorkerCommit
  <1>b. /\ t \in Request /\ Submitted(t) /\ t = target[k] /\ k \notin Request
        /\ rows[t].status = "PENDING_REFERENCE" /\ input[t].wallet = WalletOf(k)
        /\ Accounts(k, t) /\ ProcessOK(k)
    BY <1>a, OwnNotProcessed DEF BooksInv, BooksOK, ReversalInv
  <1>c. t \in Staged(k) /\ s \in {"PROCESSED", "REJECTED"}
    <2>1. t \in Staged(k) /\ s # "NONE"
      BY <1>a, <1>b, AbsentRow DEF Accounts, Staged
    <2>2. s # "PENDING_REFERENCE"
      BY <1>b, <2>1 DEF ProcessOK, Guarded, Foreign
    <2>3. uow[k].writes[t] \in RowType
      BY <1>a, <1>b DEF TypeInv, UowOK, UowType
    <2> QED
      BY <2>1, <2>2, <2>3 DEF RowType
  <1>d. Statuses[t] = "PENDING_REFERENCE"
    BY <1>b DEF Statuses
  <1>e. UNCHANGED [p \in Request |-> [status |-> answer[p].status, tx |-> answer[p].tx]]
    BY <1>a
  <1>1. CASE s = "REJECTED"
    <2>1. Promise!Gain(t) = {}
      BY <1>1, <1>a, <1>b, NoGain DEF Accounts
    <2>2. Statuses' = [Statuses EXCEPT ![t] = s] /\ UNCHANGED <<Movements, Balances>>
      BY <1>1, <1>a, OneRowShown
    <2>3. Promise!Resolve(t)
      BY <1>1, <1>a, <1>d, <1>e, <2>1, <2>2 DEF Promise!Resolve, Statuses, Movements, Balances
    <2> QED
      BY <1>b, <2>3 DEF Promise!Next
  <1>2. CASE s = "PROCESSED"
    <2>1. m \in Promise!Gain(t)
      BY <1>2, <1>a, HasGain
    <2>2. Undos(k) = {} /\ \A x \in Staged(k) : x = t
      BY <1>a, <1>b, UndosKnown DEF ProcessOK, WorkerRows
    <2>3. /\ \A x \in Request : rows'[x].status =
               IF x \in Staged(k) THEN uow[k].writes[x].status ELSE rows[x].status
          /\ Net(EntriesOf(t)') = m
          /\ \A x \in Request : x # t /\ x \notin Undos(k) => EntriesOf(x)' = EntriesOf(x)
      BY <1>a, CommitShows
    <2>4. /\ \A v \in Wallet : v = input[t].wallet =>
               wallets'[v].balance = wallets[v].balance + m
          /\ \A v \in Wallet : v # input[t].wallet =>
               wallets'[v].balance = wallets[v].balance
      <3>1. /\ \A v \in Wallet : v = WalletOf(k) /\ Undos(k) = {} =>
                 wallets'[v].balance = wallets[v].balance + m
            /\ \A v \in Wallet : v # WalletOf(k) \/ Undos(k) # {} =>
                 wallets'[v].balance = wallets[v].balance
        BY <1>a, CommitMoves
      <3> QED
        BY <1>b, <2>2, <3>1, Zenon
    <2>5. Statuses' = [Statuses EXCEPT ![t] = "PROCESSED"]
      <3>1. \A x \in Request : rows'[x].status = IF x = t THEN "PROCESSED" ELSE rows[x].status
        BY <1>2, <1>c, <2>2, <2>3
      <3> QED
        BY <1>b, <3>1 DEF Statuses
    <2>6. Movements' = [Movements EXCEPT ![t] = m]
      <3>1. \A x \in Request : Net(EntriesOf(x)') = IF x = t THEN m ELSE Net(EntriesOf(x))
        BY <2>2, <2>3
      <3> QED
        BY <1>b, <3>1 DEF Movements
    <2>7. Balances' = [Balances EXCEPT ![input[t].wallet] = @ + m]
      BY <2>4 DEF Balances
    <2>8. Promise!Resolve(t)
      BY <1>a, <1>d, <1>e, <2>1, <2>5, <2>6, <2>7
         DEF Promise!Resolve, Statuses, Movements, Balances
    <2> QED
      BY <1>b, <2>8 DEF Promise!Next
  <1> QED
    BY <1>1, <1>2, <1>c

\* How a submission is processed that adds m, together with the reversals S that wait for
\* it, of which those in U undo it.
Settlement(p, m, S, U) ==
  /\ Statuses' = [t \in Request |-> IF t \in U \cup {p} THEN "PROCESSED"
                                    ELSE IF t \in S THEN "REJECTED" ELSE Statuses[t]]
  /\ Movements' = [t \in Request |-> IF t = p THEN m ELSE IF t \in U THEN -m
                                     ELSE Movements[t]]
  /\ Balances' = [Balances EXCEPT ![input[p].wallet] = IF U = {} THEN @ + m ELSE @]
Undoers(undone) == IF undone = {} THEN {{}} ELSE {{t} : t \in undone}

LEMMA ProcessIs ==
  ASSUME NEW p \in Request, Promise!Fresh(p), Promise!Tell(p, "PROCESSED", p), UNCHANGED input,
         NEW m \in Promise!Gain(p), NEW S, S \in SUBSET Promise!Waiting(p),
         {t \in Promise!Waiting(p) : input[t].wallet = input[p].wallet} \subseteq S,
         NEW undone, undone = {t \in S : Promise!Undoes(t, p)},
         NEW U, U \in Undoers(undone), Settlement(p, m, S, U)
  PROVE  Promise!Process(p)
  <1>1. /\ {t \in Promise!Waiting(p) : input[t].wallet = input[p].wallet} \subseteq S
        /\ \E V \in Undoers({t \in S : Promise!Undoes(t, p)}) : Settlement(p, m, S, V)
    OBVIOUS
  <1>2. \E n \in Promise!Gain(p) : \E T \in SUBSET Promise!Waiting(p) :
          /\ {t \in Promise!Waiting(p) : input[t].wallet = input[p].wallet} \subseteq T
          /\ \E V \in Undoers({t \in T : Promise!Undoes(t, p)}) : Settlement(p, n, T, V)
    BY <1>1
  <1> QED
    BY <1>2, Zenon DEF Promise!Process, Undoers, Settlement, Statuses, Movements, Balances

\* A submission is processed, and with it what waits for it.
LEMMA CommitProcesses ==
  ASSUME TypeInv, TypeInv', SubmitInv, LedgerInv, ReversalInv, BooksInv,
         NEW p \in Request, Commit(p), StepOf(p), uow[p].writes[p].status = "PROCESSED"
  PROVE  Promise!Process(p)
  <1> PICK m, U : m = Share(p, p) /\ U = Undos(p)
    OBVIOUS
  <1> DEFINE S == {t \in Foreign(p) : rows[t].status = "PENDING_REFERENCE"}
             undone == {t \in S : Promise!Undoes(t, p)}
  <1>a. /\ p \in Process /\ p = Own(p) /\ pc[p] = "commit" /\ Apply(p) /\ UNCHANGED input
        /\ p \notin Worker
    BY ConstantsAssumption DEF Process, Own, Commit
  <1>b. /\ Submitted(p) /\ ProcessOK(p) /\ Resolves(p) /\ p \notin Stored
        /\ rows[p].status = "NONE" /\ input[p].wallet = WalletOf(p)
    BY <1>a, OwnNotProcessed DEF BooksInv, BooksOK, ReversalInv
  <1>c. \A t \in Foreign(p) :
          /\ t \in Request /\ t \in Staged(p) /\ t # p /\ input[t].ref = input[p].ext
          /\ rows[t].status \in {"PENDING_REFERENCE", "REJECTED"}
          /\ uow[p].writes[t].status \in {"PROCESSED", "REJECTED"}
    <2> TAKE t \in Foreign(p)
    <2>1. t \in Request /\ t \in Staged(p) /\ t # p
      BY DEF Foreign, Staged
    <2>2. /\ input[t].ref = input[p].ext
          /\ rows[t].status \in {"PENDING_REFERENCE", "REJECTED"}
          /\ uow[p].writes[t].status # "PENDING_REFERENCE"
      BY <1>b DEF ProcessOK, RequestRows, Guarded
    <2>3. uow[p].writes[t] \in RowType /\ uow[p].writes[t].status # "NONE"
      BY <1>a, <2>1, AbsentRow DEF Staged, TypeInv, UowOK, UowType
    <2> QED
      BY <2>1, <2>2, <2>3 DEF RowType
  <1>d. Foreign(p) = Staged(p) \ {p} /\ p \in Staged(p)
    BY AbsentRow DEF Foreign, Staged
  <1>1. Promise!Fresh(p) /\ Promise!Tell(p, "PROCESSED", p)
    BY CommitIsFresh
  <1>2. m \in Promise!Gain(p)
    BY <1>a, HasGain
  <1>e. \A t \in Request : t \in Promise!Waiting(p) <=>
          rows[t].status = "PENDING_REFERENCE" /\ input[t].ref = input[p].ext
    BY DEF Promise!Waiting
  <1>3. S \in SUBSET Promise!Waiting(p)
    BY <1>c, <1>e
  <1>4. {t \in Promise!Waiting(p) : input[t].wallet = input[p].wallet} \subseteq S
    <2> SUFFICES ASSUME NEW t \in Request, rows[t].status = "PENDING_REFERENCE",
                        input[t].ref = input[p].ext, input[t].wallet = input[p].wallet
                 PROVE  t \in S
      BY <1>e DEF Promise!Waiting
    <2>1. t \in PendingFor(input[p].ext)
      BY DEF PendingFor, Stored
    <2>2. t \in Staged(p)
      BY <1>a, <1>b, <2>1 DEF ProcessOK, Wakes, RequestRows
    <2> QED
      BY <1>b, <1>d, <2>2
  <1>f. \A t \in Foreign(p) : Promise!Undoes(t, p) <=> Matches(t, p)
    <2> TAKE t \in Foreign(p)
    <2>1. ReversalRejection(input[t], input[p], input[p].wallet, FALSE) = None <=> Matches(t, p)
      BY <1>c, RulesMatch
    <2>2. Promise!ReversalRejection(input[t], input[p], input[p].wallet, FALSE)
            = ReversalRejection(input[t], input[p], input[p].wallet, FALSE)
      BY DEF Promise!ReversalRejection, ReversalRejection, Promise!AllowedReferenceKinds,
             AllowedReferenceKinds
    <2> QED
      BY <2>1, <2>2 DEF Promise!Undoes
  <1>g. \A s \in U : s \in Foreign(p) /\ s \in S /\ Matches(s, p) /\ U = {s}
    <2> TAKE s \in U
    <2>1. /\ s \in Foreign(p) /\ rows[s].status = "PENDING_REFERENCE" /\ Matches(s, p)
          /\ \A x \in Undos(p) : x = s
      BY <1>a, UndosKnown
    <2> QED
      BY <2>1
  <1>5. U \in Undoers(undone)
    <2>1. CASE U = {}
      <3>1. ~uow[p].reversed
        BY <1>b, <2>1 DEF Resolves, Undos
      <3>2. \A s \in Foreign(p) : ~Matches(s, p)
        BY <1>b, <3>1 DEF Resolves
      <3>3. undone = {}
        BY <1>f, <3>2
      <3> QED
        BY <2>1, <3>3 DEF Undoers
    <2>2. CASE U # {}
      <3> PICK s : s \in U
        BY <2>2
      <3>1. s \in undone /\ U = {s}
        BY <1>f, <1>g
      <3> HIDE DEF undone
      <3> QED
        BY <3>1 DEF Undoers
    <2> QED
      BY <2>1, <2>2
  <1>h. /\ \A x \in Request : rows'[x].status =
              IF x \in Staged(p) THEN uow[p].writes[x].status ELSE rows[x].status
        /\ Net(EntriesOf(p)') = m
        /\ \A x \in Undos(p) : Net(EntriesOf(x)') = -m
        /\ \A x \in Request : x # p /\ x \notin Undos(p) => EntriesOf(x)' = EntriesOf(x)
    BY <1>a, CommitShows
  <1>6. \A x \in Request :
          rows'[x].status = IF x \in U \cup {p} THEN "PROCESSED"
                            ELSE IF x \in S THEN "REJECTED" ELSE rows[x].status
    <2> TAKE x \in Request
    <2>1. CASE x = p
      BY <1>d, <1>h, <2>1
    <2>2. CASE x \in U
      BY <1>a, <1>h, <2>2 DEF Undos
    <2>3. CASE x \in Foreign(p) /\ x \notin U
      <3>1. rows'[x].status = "REJECTED"
        BY <1>a, <1>c, <1>h, <2>3 DEF Undos
      <3>2. x \notin S => rows[x].status = "REJECTED"
        BY <1>c, <2>3
      <3> QED
        BY <1>c, <2>3, <3>1, <3>2
    <2>4. CASE x # p /\ x \notin U /\ x \notin Foreign(p)
      BY <1>d, <1>h, <2>4
    <2> QED
      BY <2>1, <2>2, <2>3, <2>4
  <1>7. \A x \in Request : Net(EntriesOf(x)') = IF x = p THEN m ELSE IF x \in U THEN -m
                                                ELSE Net(EntriesOf(x))
    BY <1>h
  <1>8. /\ \A v \in Wallet : v = input[p].wallet /\ U = {} =>
             wallets'[v].balance = wallets[v].balance + m
        /\ \A v \in Wallet : v # input[p].wallet \/ U # {} =>
             wallets'[v].balance = wallets[v].balance
    BY <1>a, <1>b, CommitMoves
  <1> HIDE DEF S
  <1>9. Statuses' = [t \in Request |-> IF t \in U \cup {p} THEN "PROCESSED"
                                       ELSE IF t \in S THEN "REJECTED" ELSE Statuses[t]]
    BY <1>6 DEF Statuses
  <1>10. Movements' = [t \in Request |-> IF t = p THEN m ELSE IF t \in U THEN -m
                                         ELSE Movements[t]]
    BY <1>7 DEF Movements
  <1>11. Balances' = [Balances EXCEPT ![input[p].wallet] = IF U = {} THEN @ + m ELSE @]
    BY <1>8 DEF Balances
  <1>12. Settlement(p, m, S, U)
    BY <1>9, <1>10, <1>11 DEF Settlement
  <1>13. undone = {t \in S : Promise!Undoes(t, p)}
    OBVIOUS
  <1> HIDE DEF undone
  <1> QED
    BY <1>a, <1>1, <1>2, <1>3, <1>4, <1>5, <1>12, <1>13, ProcessIs

-----------------------------------------------------------------------------
(* The refinement. *)

LEMMA InitMaps == Init => Promise!Init
  <1> SUFFICES ASSUME Init PROVE Promise!Init
    OBVIOUS
  <1>1. \A t \in Request : rows[t].status = "NONE" /\ EntriesOf(t) = {}
    BY DEF Init, NoRow, EntriesOf, Stored
  <1>2. [t \in Request |-> Net(EntriesOf(t))] = [t \in Request |-> 0]
    BY <1>1, NetOfNone
  <1>3. [w \in Wallet |-> wallets[w].balance] = Opening
    BY ConstantsAssumption DEF Init
  <1>4. [p \in Request |-> [status |-> answer[p].status, tx |-> answer[p].tx]]
          = [p \in Request |-> Promise!NoAnswer]
    BY DEF Init, Failed, Promise!NoAnswer
  <1> QED
    BY <1>1, <1>2, <1>3, <1>4 DEF Init, Promise!Init

\* Every step of the system is a step of the promised ledger, or shows nothing.
LEMMA NextMaps ==
  TypeInv /\ TypeInv' /\ SubmitInv /\ LedgerInv /\ ReversalInv /\ BooksInv /\ [Next]_vars
    => [Promise!Next]_(Promise!vars)
  <1> SUFFICES ASSUME TypeInv, TypeInv', SubmitInv, LedgerInv, ReversalInv, BooksInv, [Next]_vars
               PROVE  Promise!Next \/ UNCHANGED Promise!vars
    OBVIOUS
  <1>1. ASSUME NEW p \in Request, StepOf(p), Arrive(p) \/ ExecuteStep(p) \/ AbortRequest(p)
        PROVE  Promise!Next \/ UNCHANGED Promise!vars
    <2>1. CASE Commit(p)
      <3>1. Promise!Reject(p) \/ Promise!Wait(p) \/ Promise!Process(p)
        BY <1>1, <2>1, CommitPutsAside, CommitProcesses
      <3> QED
        BY <3>1 DEF Promise!Next
    <2>2. CASE ~Commit(p)
      BY <1>1, <2>2, RequestMaps
    <2> QED
      BY <2>1, <2>2
  <1>2. ASSUME NEW k \in Worker, StepOf(k), Pick(k) \/ RetryStep(k) \/ AbortWorker(k)
        PROVE  Promise!Next \/ UNCHANGED Promise!vars
    BY <1>2, WorkerCommitMaps, WorkerMaps
  <1>3. CASE UNCHANGED vars
    <2>1. UNCHANGED <<Statuses, Movements, Balances, Answers, input>>
      BY <1>3 DEF vars, Statuses, Movements, Balances, Answers, EntriesOf, Stored
    <2> QED
      BY <2>1 DEF Promise!vars, Statuses, Movements, Balances, Answers
  <1> QED
    BY <1>1, <1>2, <1>3, NextStepOf

\* However requests and workers interleave, abort and retry on however many wallets, they
\* do what a ledger does that takes one submission at a time: every commit settles one
\* submission, with the reversals that wait for it on its wallet, as the rules say for the
\* state it meets, its answer is that state's, and every other answer is a replay of what is
\* stored, a conflict with it, or a failure that leaves nothing behind
\* (ProcessWagerUseCase.execute and retryPendingReference).
THEOREM LedgerIsImplemented == Spec => ImplementsLedger
  BY TypeInvHolds, SubmitInvHolds, LedgerInvHolds, ReversalInvHolds, BooksInvHolds,
     InitMaps, NextMaps, PTL DEF Spec, Promise!Spec, ImplementsLedger
=============================================================================
