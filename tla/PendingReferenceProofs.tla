----------------------- MODULE PendingReferenceProofs -----------------------
(***************************************************************************)
(* A reversal that waits is not given up before its backoff has passed or  *)
(* its expiry has come, for every number of workers, of reversals and of   *)
(* attempts.                                                               *)
(***************************************************************************)
EXTENDS PendingReference, FiniteSetTheorems, TLAPS

-----------------------------------------------------------------------------
(* Numbers *)

LEMMA Least ==
  ASSUME NEW T \in SUBSET Nat, T # {}
  PROVE  \E m \in T : \A n \in T : m <= n
  <1>1. PICK m \in T : \A n \in T : ~(<<n, m>> \in OpToRel(<, Nat))
    BY NatLessThanWellFounded, WFMin
  <1>2. ASSUME NEW n \in T
        PROVE  m <= n
    <2>1. ~(<<n, m>> \in OpToRel(<, Nat))
      BY <1>1
    <2>2. ~(n < m)
      BY <2>1 DEF OpToRel
    <2>3. QED
      BY <2>2
  <1>3. QED
    BY <1>2

LEMMA MaxOfBounded ==
  ASSUME NEW S \in SUBSET Int, S # {}, NEW b \in Int, \A x \in S : x <= b
  PROVE  Max(S) \in S /\ \A x \in S : x <= Max(S)
  <1> DEFINE T == {b - x : x \in S}
  <1>1. T \in SUBSET Nat
    <2>1. ASSUME NEW x \in S
          PROVE  b - x \in Nat
      <3>1. x \in Int /\ x <= b
        OBVIOUS
      <3>2. QED
        BY <3>1
    <2>2. QED
      BY <2>1
  <1>2. PICK m \in T : \A n \in T : m <= n
    <2>1. T # {}
      OBVIOUS
    <2> HIDE DEF T
    <2>2. QED
      BY <1>1, <2>1, Least
  <1>3. PICK x \in S : m = b - x
    OBVIOUS
  <1>4. ASSUME NEW y \in S
        PROVE  x >= y
    <2>1. m <= b - y
      BY <1>2
    <2>2. x \in Int /\ y \in Int
      OBVIOUS
    <2>3. QED
      BY <1>3, <2>1, <2>2
  <1>5. Max(S) \in S /\ \A y \in S : Max(S) >= y
    BY <1>4 DEF Max
  <1>6. QED
    BY <1>5

LEMMA MinOfTwo ==
  ASSUME NEW a \in Int, NEW b \in Int
  PROVE  /\ Min({a, b}) = a \/ Min({a, b}) = b
         /\ Min({a, b}) <= a /\ Min({a, b}) <= b
  <1>1. \E x \in {a, b} : \A y \in {a, b} : x =< y
    OBVIOUS
  <1>2. Min({a, b}) \in {a, b} /\ \A y \in {a, b} : Min({a, b}) =< y
    BY <1>1 DEF Min
  <1>3. QED
    BY <1>2

LEMMA MaxOfTwo ==
  ASSUME NEW a \in Int, NEW b \in Int
  PROVE  /\ Max({a, b}) = a \/ Max({a, b}) = b
         /\ a <= Max({a, b}) /\ b <= Max({a, b})
  <1>1. \E x \in {a, b} : \A y \in {a, b} : x >= y
    OBVIOUS
  <1>2. Max({a, b}) \in {a, b} /\ \A y \in {a, b} : Max({a, b}) >= y
    BY <1>1 DEF Max
  <1>3. QED
    BY <1>2

Highest == Max({FirstDelay} \cup {Delay(n) : n \in 1..MaxAttempts})

LEMMA DelayAtMost30 ==
  ASSUME NEW n \in 1..MaxAttempts
  PROVE  Delay(n) \in Nat /\ 1 <= Delay(n) /\ Delay(n) <= 30
  <1>1. 2 ^ n \in Int
    <2>1. n \in Nat
      BY ConstantsAssumption
    <2>2. QED
      BY <2>1
  <1>2. Delay(n) <= 30
    <2>1. PICK a \in Int : a = 2 ^ n
      BY <1>1
    <2>2. Min({a, 30}) <= 30
      BY MinOfTwo
    <2>3. QED
      BY <2>1, <2>2 DEF Delay
  <1>3. Delay(n) \in Nat \ {0}
    BY ConstantsAssumption
  <1>4. QED
    BY <1>2, <1>3

LEMMA HighestIs ==
  /\ Highest \in Nat /\ 1 <= Highest
  /\ \A n \in 1..MaxAttempts : Delay(n) <= Highest
  <1> DEFINE D == {FirstDelay} \cup {Delay(n) : n \in 1..MaxAttempts}
  <1>1. D \in SUBSET Int /\ \A x \in D : x <= 30
    <2>1. ASSUME NEW x \in D
          PROVE  x \in Int /\ x <= 30
      <3>1. CASE x = FirstDelay
        BY <3>1 DEF FirstDelay
      <3>2. ASSUME NEW n \in 1..MaxAttempts, x = Delay(n)
            PROVE  x \in Int /\ x <= 30
        BY <3>2, DelayAtMost30
      <3>3. QED
        BY <3>1, <3>2
    <2> HIDE DEF D
    <2>2. QED
      BY <2>1
  <1>2. FirstDelay \in D /\ \A n \in 1..MaxAttempts : Delay(n) \in D
    OBVIOUS
  <1>3. Highest = Max(D)
    BY DEF Highest
  <1> HIDE DEF D
  <1>4. Highest \in D /\ \A x \in D : x <= Highest
    <2>1. D # {} /\ 30 \in Int
      BY <1>2
    <2>2. Max(D) \in D /\ \A x \in D : x <= Max(D)
      BY <1>1, <2>1, MaxOfBounded
    <2>3. QED
      BY <1>3, <2>2
  <1>5. Highest \in Int /\ FirstDelay <= Highest
    BY <1>1, <1>2, <1>4
  <1>6. ASSUME NEW n \in 1..MaxAttempts
        PROVE  Delay(n) <= Highest
    BY <1>2, <1>4
  <1>7. Highest \in Nat /\ 1 <= Highest
    BY <1>5 DEF FirstDelay
  <1>8. QED
    BY <1>6, <1>7

-----------------------------------------------------------------------------
(* Backoff is well defined: the functions that add up the first n delays   *)
(* exist for every n, since there is no smallest n without one.            *)

Adds(h, n) ==
  /\ h \in [0..n -> Int]
  /\ \A i \in 0..n : h[i] = IF i = 0 THEN FirstDelay ELSE h[i - 1] + Delay(i)

LEMMA AddsOn ==
  ASSUME NEW n \in Nat, n + 1 \in 1..MaxAttempts, NEW g, Adds(g, n)
  PROVE  \E h : Adds(h, n + 1)
  <1>1. PICK d \in Int : d = Delay(n + 1)
    BY DelayAtMost30
  <1> DEFINE h == [i \in 0..(n + 1) |-> IF i = n + 1 THEN g[n] + d ELSE g[i]]
  <1>2. ASSUME NEW i \in 0..n
        PROVE  i \in 0..(n + 1) /\ h[i] = g[i] /\ g[i] \in Int
    BY <1>2 DEF Adds
  <1>3. n \in 0..n /\ h[n + 1] = g[n] + d /\ g[n] \in Int
    BY DEF Adds
  <1>4. h \in [0..(n + 1) -> Int]
    BY <1>1, <1>2, <1>3
  <1>5. ASSUME NEW i \in 0..(n + 1)
        PROVE  h[i] = IF i = 0 THEN FirstDelay ELSE h[i - 1] + Delay(i)
    <2>1. CASE i = n + 1
      <3>1. i # 0 /\ i - 1 = n
        BY <2>1
      <3>2. h[i - 1] = g[n]
        BY <1>2, <1>3, <3>1
      <3>3. h[i] = g[n] + d
        BY <1>3, <2>1
      <3> HIDE DEF h
      <3>4. QED
        BY <1>1, <2>1, <3>1, <3>2, <3>3
    <2>2. CASE i \in 0..n
      <3>1. h[i] = g[i] /\ (g[i] = IF i = 0 THEN FirstDelay ELSE g[i - 1] + Delay(i))
        BY <1>2, <2>2 DEF Adds
      <3>2. i # 0 => h[i - 1] = g[i - 1]
        BY <1>2, <2>2
      <3> HIDE DEF h
      <3>3. QED
        BY <3>1, <3>2
    <2>3. QED
      BY <2>1, <2>2
  <1> HIDE DEF h
  <1>6. Adds(h, n + 1)
    BY <1>4, <1>5 DEF Adds
  <1>7. QED
    BY <1>6

LEMMA AddsExist == \E h : Adds(h, MaxAttempts - 1)
  <1> DEFINE T == {n \in Nat : n < MaxAttempts /\ ~\E h : Adds(h, n)}
  <1>1. MaxAttempts - 1 \in Nat /\ MaxAttempts - 1 < MaxAttempts
    BY ConstantsAssumption
  <1>2. SUFFICES ASSUME T # {} PROVE FALSE
    BY <1>1
  <1>3. PICK n \in T : \A m \in T : n <= m
    <2>1. T \in SUBSET Nat
      OBVIOUS
    <2> HIDE DEF T
    <2>2. QED
      BY <1>2, <2>1, Least
  <1>4. n \in Nat /\ n < MaxAttempts /\ ~\E h : Adds(h, n)
    OBVIOUS
  <1>5. CASE n = 0
    <2>1. Adds([i \in 0..0 |-> FirstDelay], 0)
      BY DEF Adds, FirstDelay
    <2>2. QED
      BY <1>4, <1>5, <2>1
  <1>6. CASE n # 0
    <2>1. n - 1 \in Nat /\ n - 1 < MaxAttempts /\ ~(n <= n - 1)
      BY <1>4, <1>6, ConstantsAssumption
    <2>2. PICK g : Adds(g, n - 1)
      BY <1>3, <2>1
    <2>3. (n - 1) + 1 = n /\ (n - 1) + 1 \in 1..MaxAttempts
      BY <1>4, <1>6, ConstantsAssumption
    <2>4. \E h : Adds(h, (n - 1) + 1)
      BY <2>1, <2>2, <2>3, AddsOn
    <2>5. QED
      BY <1>4, <2>3, <2>4
  <1>7. QED
    BY <1>5, <1>6

LEMMA BackoffIs ==
  /\ Backoff[0] = FirstDelay
  /\ \A n \in 0..(MaxAttempts - 1) : Backoff[n] \in Int
  /\ \A n \in 1..(MaxAttempts - 1) : Backoff[n] = Backoff[n - 1] + Delay(n)
  <1> DEFINE P(g) == g = [n \in 0..(MaxAttempts - 1) |->
                            IF n = 0 THEN FirstDelay ELSE g[n - 1] + Delay(n)]
  <1>1. PICK h : Adds(h, MaxAttempts - 1)
    BY AddsExist
  <1>2. P(h)
    BY <1>1 DEF Adds
  <1>3. Backoff = CHOOSE g : P(g)
    BY DEF Backoff
  <1>4. P(Backoff)
    <2> HIDE DEF P
    <2>1. QED
      BY <1>2, <1>3
  <1>5. MaxAttempts \in Nat /\ 0 \in 0..(MaxAttempts - 1)
    BY ConstantsAssumption
  <1>6. ASSUME NEW n \in 0..(MaxAttempts - 1)
        PROVE  Backoff[n] = IF n = 0 THEN FirstDelay ELSE Backoff[n - 1] + Delay(n)
    BY <1>4
  <1>7. ASSUME NEW n \in 1..(MaxAttempts - 1)
        PROVE  Backoff[n] = Backoff[n - 1] + Delay(n)
    <2>1. n \in 0..(MaxAttempts - 1) /\ n # 0
      BY <1>5
    <2>2. QED
      BY <1>6, <2>1
  <1>8. ASSUME NEW n \in 0..(MaxAttempts - 1)
        PROVE  Backoff[n] \in Int
    <2> DEFINE T == {m \in 0..(MaxAttempts - 1) : Backoff[m] \notin Int}
    <2>1. SUFFICES ASSUME T # {} PROVE FALSE
      OBVIOUS
    <2>2. PICK m \in T : \A l \in T : m <= l
      <3>1. T \in SUBSET Nat
        BY <1>5
      <3> HIDE DEF T
      <3>2. QED
        BY <2>1, <3>1, Least
    <2>3. m # 0
      BY <1>5, <1>6 DEF FirstDelay
    <2>4. m - 1 \in 0..(MaxAttempts - 1) /\ ~(m <= m - 1) /\ m \in 1..(MaxAttempts - 1)
      BY <1>5, <2>3
    <2>5. Backoff[m - 1] \in Int
      BY <2>2, <2>4
    <2>6. Delay(m) \in Int
      BY <1>5, <2>4, DelayAtMost30
    <2>7. Backoff[m] \in Int
      BY <1>7, <2>4, <2>5, <2>6
    <2>8. QED
      BY <2>7
  <1>9. QED
    BY <1>5, <1>6, <1>7, <1>8

-----------------------------------------------------------------------------
(* The invariant.  That a row is not given up early needs to be known while it waits: *)
(* what has passed of its time and what is still to pass before it is due make up all *)
(* the delays it has been given.                                                      *)

RowsOK ==
  /\ status \in [Transaction -> {"NONE", "PENDING_REFERENCE", "PROCESSED", "REJECTED"}]
  /\ failure \in [Transaction -> {None, "NOT_FOUND", "RULE"}]
  /\ attempts \in [Transaction -> 0..(MaxAttempts - 1)]
  /\ due \in [Transaction -> (-MaxAge)..Highest]
  /\ life \in [Transaction -> (-MaxAge)..Expiry]

WorkersOK ==
  /\ ticking \in [Worker -> BOOLEAN]
  /\ batch \in [Worker -> Seq(Transaction)]
  /\ age \in [Worker -> 0..MaxAge]
  /\ \A k \in Worker : ticking[k] <=> batch[k] # <<>>

LEMMA TypeParts == TypeOK <=> RowsOK /\ WorkersOK
  BY DEF TypeOK, RowsOK, WorkersOK, Highest

\* With l seconds to live and d until the next retry, after a retries.
Waited(l, d, a) == l <= 0 \/ Expiry - l + d >= Backoff[a]

WaitsInTime == \A t \in Transaction : t \in Pending => Waited(life[t], due[t], attempts[t])

\* Nothing has been tried before a row exists.
FreshRows == \A t \in Transaction : status[t] = "NONE" => attempts[t] = 0

IInv == TypeOK /\ FreshRows /\ WaitsInTime

\* NotGivenUpEarly, of one step.
NoneGivenUp ==
  \A t \in Transaction :
    failure[t] = None /\ failure'[t] = "NOT_FOUND"
      => Expiry - life[t] >= Patience \/ life[t] <= 0

LEMMA Numbers ==
  /\ MaxAttempts \in Nat /\ 1 <= MaxAttempts
  /\ Expiry \in Nat /\ 1 <= Expiry
  /\ MaxAge \in Nat /\ 1 <= MaxAge
  /\ BatchSize \in Nat /\ 1 <= BatchSize
  /\ 0 \in 0..(MaxAttempts - 1)
  /\ 0 \in (-MaxAge)..Highest
  /\ 0 \in (-MaxAge)..Expiry
  <1>1. /\ MaxAttempts \in Nat \ {0} /\ Expiry \in Nat \ {0}
        /\ BatchSize \in Nat \ {0} /\ MaxAge \in Nat \ {0}
    BY ConstantsAssumption
  <1>2. Highest \in Nat
    BY HighestIs
  <1>3. QED
    BY <1>1, <1>2

LEMMA InitIInv == Init => IInv
  <1> SUFFICES ASSUME Init PROVE IInv
    OBVIOUS
  <1>1. RowsOK
    BY Numbers DEF Init, RowsOK
  <1>2. WorkersOK
    BY Numbers DEF Init, WorkersOK
  <1>3. WaitsInTime
    BY DEF Init, WaitsInTime, Pending
  <1>4. FreshRows
    BY DEF Init, FreshRows
  <1>5. QED
    BY <1>1, <1>2, <1>3, <1>4, TypeParts DEF IInv

-----------------------------------------------------------------------------
(* The rows *)

\* Rows as they should be, before or after a step.
RowsFine == RowsOK /\ FreshRows /\ WaitsInTime

LEMMA RowsUnchanged ==
  ASSUME RowsFine, UNCHANGED rowVars
  PROVE  RowsFine' /\ NoneGivenUp
  <1>1. RowsFine'
    BY DEF rowVars, RowsFine, RowsOK, FreshRows, WaitsInTime, Pending
  <1>2. NoneGivenUp
    BY ConstantsAssumption DEF rowVars, NoneGivenUp
  <1>3. QED
    BY <1>1, <1>2

\* Settling ends waits and begins none.
LEMMA SettleKeeps ==
  ASSUME RowsFine, NEW done, NEW refused, NEW code \in {None, "NOT_FOUND", "RULE"},
         SettleAll(done, refused, code)
  PROVE  RowsFine'
  <1>1. status' \in [Transaction -> {"NONE", "PENDING_REFERENCE", "PROCESSED", "REJECTED"}]
    BY DEF RowsFine, RowsOK, SettleAll
  <1>2. failure' \in [Transaction -> {None, "NOT_FOUND", "RULE"}]
    BY DEF RowsFine, RowsOK, SettleAll
  <1>3. attempts' \in [Transaction -> 0..(MaxAttempts - 1)]
    BY Numbers DEF RowsFine, RowsOK, SettleAll
  <1>4. due' \in [Transaction -> (-MaxAge)..Highest]
    BY Numbers DEF RowsFine, RowsOK, SettleAll
  <1>5. life' \in [Transaction -> (-MaxAge)..Expiry]
    BY Numbers DEF RowsFine, RowsOK, SettleAll
  <1>6. ASSUME NEW t \in Transaction, t \in Pending'
        PROVE  Waited(life'[t], due'[t], attempts'[t])
    <2>1. status'[t] = "PENDING_REFERENCE"
      BY <1>6 DEF Pending
    <2>2. t \notin done \cup refused
      BY <2>1 DEF SettleAll
    <2>3. /\ status[t] = "PENDING_REFERENCE"
          /\ life'[t] = life[t] /\ due'[t] = due[t] /\ attempts'[t] = attempts[t]
      BY <2>1, <2>2 DEF SettleAll
    <2>4. QED
      BY <2>3 DEF RowsFine, WaitsInTime, Pending
  <1>7. WaitsInTime'
    BY <1>6 DEF WaitsInTime
  <1>8. FreshRows'
    <2>1. ASSUME NEW t \in Transaction, status'[t] = "NONE"
          PROVE  attempts'[t] = 0
      <3>1. status'[t] = IF t \in done THEN "PROCESSED"
                         ELSE IF t \in refused THEN "REJECTED" ELSE status[t]
        BY DEF SettleAll
      <3>2. t \notin done \cup refused /\ status[t] = "NONE"
        BY <2>1, <3>1
      <3>3. attempts'[t] = attempts[t]
        BY <3>2 DEF SettleAll
      <3>4. QED
        BY <3>2, <3>3 DEF RowsFine, FreshRows
    <2>2. QED
      BY <2>1 DEF FreshRows
  <1>9. QED
    BY <1>1, <1>2, <1>3, <1>4, <1>5, <1>7, <1>8 DEF RowsFine, RowsOK

\* Refused by a rule is not given up.
LEMMA SettleGivesUpNone ==
  ASSUME NEW done, NEW refused, NEW code \in {None, "RULE"}, SettleAll(done, refused, code)
  PROVE  NoneGivenUp
  <1>1. ASSUME NEW t \in Transaction
        PROVE  failure'[t] = code \/ failure'[t] = failure[t]
    BY DEF SettleAll
  <1>2. None # "NOT_FOUND" /\ "RULE" # "NOT_FOUND"
    BY ConstantsAssumption
  <1>3. QED
    BY <1>1, <1>2 DEF NoneGivenUp

LEMMA SubmitKeeps ==
  ASSUME RowsFine, NEW t \in Transaction, Submit(t)
  PROVE  RowsFine' /\ NoneGivenUp
  <1>1. CASE /\ status' = [status EXCEPT ![t] = "PENDING_REFERENCE"]
             /\ due' = [due EXCEPT ![t] = FirstDelay]
             /\ life' = [life EXCEPT ![t] = Expiry]
             /\ UNCHANGED <<failure, attempts>>
    <2>1. FirstDelay \in (-MaxAge)..Highest /\ Expiry \in (-MaxAge)..Expiry
      BY Numbers, HighestIs DEF FirstDelay
    <2>2. RowsOK'
      BY <1>1, <2>1 DEF RowsFine, RowsOK
    <2>3. WaitsInTime'
      <3>1. ASSUME NEW u \in Transaction, u \in Pending'
            PROVE  Waited(life'[u], due'[u], attempts'[u])
        <4>1. CASE u = t
          <5>1. attempts[t] = 0
            BY DEF Submit, RowsFine, FreshRows
          <5>2. life'[t] = Expiry /\ due'[t] = FirstDelay /\ attempts'[t] = 0
            BY <1>1, <5>1 DEF RowsFine, RowsOK
          <5>3. Expiry - Expiry + FirstDelay >= Backoff[0]
            BY Numbers, BackoffIs DEF FirstDelay
          <5>4. QED
            BY <4>1, <5>2, <5>3 DEF Waited
        <4>2. CASE u # t
          <5>1. status[u] = "PENDING_REFERENCE"
            BY <1>1, <3>1, <4>2 DEF Pending, RowsFine, RowsOK
          <5>2. QED
            BY <1>1, <4>2, <5>1 DEF RowsFine, RowsOK, WaitsInTime, Pending
        <4>3. QED
          BY <4>1, <4>2
      <3>2. QED
        BY <3>1 DEF WaitsInTime
    <2>4. NoneGivenUp
      BY <1>1, ConstantsAssumption DEF NoneGivenUp
    <2>5. FreshRows'
      BY <1>1 DEF RowsFine, RowsOK, FreshRows
    <2>6. QED
      BY <2>2, <2>3, <2>4, <2>5 DEF RowsFine
  <1>2. ASSUME ProcessWithWaiters(t)
        PROVE  RowsFine' /\ NoneGivenUp
    <2>1. PICK done : SettleAll({t} \cup done, Waiters(t) \ done, "RULE")
      BY <1>2 DEF ProcessWithWaiters
    <2>2. QED
      BY <2>1, SettleKeeps, SettleGivesUpNone
  <1>3. ASSUME SettleAll({}, {t}, "RULE")
        PROVE  RowsFine' /\ NoneGivenUp
    BY <1>3, SettleKeeps, SettleGivesUpNone
  <1>4. QED
    BY <1>1, <1>2, <1>3 DEF Submit

\* What a retry does to the row of t, apart from giving it up.
LEMMA JudgeKeeps ==
  ASSUME RowsFine, NEW t, Judge(t)
  PROVE  RowsFine' /\ NoneGivenUp
  <1>1. CASE SettleAll({t}, {}, None)
    BY <1>1, SettleKeeps, SettleGivesUpNone
  <1>2. CASE SettleAll({}, {t}, "RULE")
    BY <1>2, SettleKeeps, SettleGivesUpNone
  <1>3. QED
    BY <1>1, <1>2 DEF Judge

\* The row read again is due at the time of the tick, so what has passed of its time is
\* at least what it had to wait: one more delay may be added, from the time of the tick.
LEMMA WaitedAgain ==
  ASSUME NEW l \in Int, NEW d \in Int, NEW g \in Nat, d + g <= 0,
         NEW a \in Nat, a + 1 < MaxAttempts, Waited(l, d, a)
  PROVE  Waited(l, Delay(a + 1) - g, a + 1)
  <1>1. a \in 0..(MaxAttempts - 1) /\ a + 1 \in 1..(MaxAttempts - 1) /\ a + 1 \in 1..MaxAttempts
    BY Numbers
  <1>2. PICK p \in Int : p = Backoff[a]
    BY <1>1, BackoffIs
  <1>3. PICK e \in Int : e = Delay(a + 1)
    BY <1>1, DelayAtMost30
  <1>4. Backoff[a + 1] = p + e
    <2>1. (a + 1) - 1 = a
      OBVIOUS
    <2>2. Backoff[a + 1] = Backoff[(a + 1) - 1] + Delay(a + 1)
      BY <1>1, BackoffIs
    <2>3. QED
      BY <1>2, <1>3, <2>1, <2>2
  <1>5. PICK x \in Int : x = Expiry
    BY Numbers
  <1>6. l <= 0 \/ x - l + d >= p
    BY <1>2, <1>5 DEF Waited
  <1>7. l <= 0 \/ x - l + (e - g) >= p + e
    BY <1>6
  <1>8. QED
    BY <1>3, <1>4, <1>5, <1>7 DEF Waited

LEMMA RescheduleKeeps ==
  ASSUME RowsFine, WorkersOK, NEW k \in Worker, NEW t \in Transaction, t \in Pending,
         StillDue(k, t), ~Exhausted(k, t), Reschedule(k, t)
  PROVE  RowsFine' /\ NoneGivenUp
  <1>1. PICK a \in Nat : a = attempts[t]
    BY Numbers DEF RowsFine, RowsOK
  <1>2. PICK g \in 0..MaxAge : g = age[k]
    BY DEF WorkersOK
  <1>3. PICK d \in Int : d = due[t]
    BY Numbers, HighestIs DEF RowsFine, RowsOK
  <1>4. PICK l \in Int : l = life[t]
    BY Numbers DEF RowsFine, RowsOK
  <1>5. a + 1 < MaxAttempts /\ a + 1 \in 1..MaxAttempts /\ a + 1 \in 0..(MaxAttempts - 1)
    BY <1>1, Numbers DEF Exhausted
  <1>6. g \in Nat /\ g <= MaxAge /\ d + g <= 0
    BY <1>2, <1>3, Numbers DEF StillDue
  <1>7. PICK e \in Int : e = Delay(a + 1)
    BY <1>5, DelayAtMost30
  <1>8. e - g \in (-MaxAge)..Highest
    <2>1. 1 <= e /\ e <= Highest
      BY <1>5, <1>7, DelayAtMost30, HighestIs
    <2>2. QED
      BY <1>6, <2>1, Numbers, HighestIs
  <1>9. /\ attempts' = [attempts EXCEPT ![t] = a + 1]
        /\ due' = [due EXCEPT ![t] = e - g]
        /\ UNCHANGED <<status, failure, life>>
    BY <1>1, <1>2, <1>7 DEF Reschedule, RowsFine, RowsOK
  <1>10. RowsOK'
    BY <1>5, <1>8, <1>9 DEF RowsFine, RowsOK
  <1>11. Waited(l, d, a)
    BY <1>1, <1>3, <1>4 DEF RowsFine, WaitsInTime
  <1>12. Waited(l, e - g, a + 1)
    BY <1>5, <1>6, <1>7, <1>11, WaitedAgain
  <1>13. WaitsInTime'
    <2>1. ASSUME NEW u \in Transaction, u \in Pending'
          PROVE  Waited(life'[u], due'[u], attempts'[u])
      <3>1. CASE u = t
        <4>1. life'[t] = l /\ due'[t] = e - g /\ attempts'[t] = a + 1
          BY <1>4, <1>9 DEF RowsFine, RowsOK
        <4>2. QED
          BY <1>12, <3>1, <4>1
      <3>2. CASE u # t
        <4>1. u \in Pending
          BY <1>9, <2>1 DEF Pending
        <4>2. life'[u] = life[u] /\ due'[u] = due[u] /\ attempts'[u] = attempts[u]
          BY <1>9, <3>2 DEF RowsFine, RowsOK
        <4>3. QED
          BY <4>1, <4>2 DEF RowsFine, WaitsInTime
      <3>3. QED
        BY <3>1, <3>2
    <2>2. QED
      BY <2>1 DEF WaitsInTime
  <1>14. FreshRows'
    BY <1>9 DEF RowsFine, RowsOK, FreshRows, Pending
  <1>15. NoneGivenUp
    BY <1>9, ConstantsAssumption DEF NoneGivenUp
  <1>16. QED
    BY <1>10, <1>13, <1>14, <1>15 DEF RowsFine

\* With all attempts used up the whole backoff has passed; otherwise the expiry has come.
LEMMA GiveUpKeeps ==
  ASSUME RowsFine, WorkersOK, NEW k \in Worker, NEW t \in Transaction, t \in Pending,
         StillDue(k, t), Exhausted(k, t), SettleAll({}, {t}, "NOT_FOUND")
  PROVE  RowsFine' /\ NoneGivenUp
  <1>1. RowsFine'
    BY SettleKeeps
  <1>2. ASSUME NEW u \in Transaction, failure[u] = None, failure'[u] = "NOT_FOUND"
        PROVE  u = t
    BY <1>2, ConstantsAssumption DEF SettleAll
  <1>3. PICK a \in 0..(MaxAttempts - 1) : a = attempts[t]
    BY DEF RowsFine, RowsOK
  <1>4. PICK g \in 0..MaxAge : g = age[k]
    BY DEF WorkersOK
  <1>5. PICK d \in Int : d = due[t]
    BY Numbers, HighestIs DEF RowsFine, RowsOK
  <1>6. PICK l \in Int : l = life[t]
    BY Numbers DEF RowsFine, RowsOK
  <1>7. g \in Nat /\ d <= 0
    BY <1>4, <1>5, Numbers DEF StillDue
  <1>8. Waited(l, d, a)
    BY <1>3, <1>5, <1>6 DEF RowsFine, WaitsInTime
  <1>9. Expiry - l >= Patience \/ l <= 0
    <2>1. CASE a + 1 >= MaxAttempts
      <3>1. a = MaxAttempts - 1
        BY <2>1, Numbers
      <3>2. PICK p \in Int : p = Patience
        BY Numbers, BackoffIs DEF Patience
      <3>3. Backoff[a] = p
        BY <3>1, <3>2 DEF Patience
      <3>4. l <= 0 \/ Expiry - l + d >= p
        BY <1>8, <3>3 DEF Waited
      <3>5. QED
        BY <1>7, <3>2, <3>4, Numbers
    <2>2. CASE l + g <= 0
      BY <1>7, <2>2
    <2>3. QED
      BY <1>3, <1>4, <1>6, <2>1, <2>2 DEF Exhausted
  <1>10. NoneGivenUp
    BY <1>2, <1>6, <1>9 DEF NoneGivenUp
  <1>11. QED
    BY <1>1, <1>10

-----------------------------------------------------------------------------
(* The workers *)

LEMMA BatchIs ==
  ASSUME Due # {}, NEW b \in Batches
  PROVE  b \in Seq(Transaction) /\ b # <<>>
  <1> DEFINE size == Min({BatchSize, Cardinality(Due)})
  <1>1. Due \in SUBSET Transaction
    BY DEF Due, Pending
  <1>2. IsFiniteSet(Due)
    BY <1>1, ConstantsAssumption, FS_Subset
  <1>3. PICK n \in Nat : n = Cardinality(Due)
    BY <1>2, FS_CardinalityType
  <1>4. n # 0
    BY <1>2, <1>3, FS_EmptySet
  <1>5. PICK m \in Int : m = BatchSize /\ 1 <= m
    BY Numbers
  <1>6. PICK z : z = size
    OBVIOUS
  <1>7. z = m \/ z = n
    BY <1>3, <1>5, <1>6, MinOfTwo
  <1>8. z \in Nat /\ 1 <= z
    BY <1>3, <1>4, <1>5, <1>7
  <1>9. b \in [1..z -> Due]
    BY <1>6 DEF Batches
  <1>10. b \in [1..z -> Transaction]
    BY <1>1, <1>9
  <1>11. b \in Seq(Transaction) /\ Len(b) = z
    BY <1>8, <1>10
  <1>12. QED
    BY <1>8, <1>11

LEMMA TickStartKeeps ==
  ASSUME WorkersOK, NEW k \in Worker, TickStart(k)
  PROVE  WorkersOK'
  <1>1. PICK b \in Batches : batch' = [batch EXCEPT ![k] = b]
    BY DEF TickStart
  <1>2. b \in Seq(Transaction) /\ b # <<>>
    BY BatchIs DEF TickStart
  <1>3. 0 \in 0..MaxAge
    BY Numbers
  <1>4. QED
    BY <1>1, <1>2, <1>3 DEF TickStart, WorkersOK

LEMMA ProceedKeeps ==
  ASSUME WorkersOK, NEW k \in Worker, batch[k] # <<>>, Proceed(k)
  PROVE  WorkersOK'
  <1>1. PICK b \in Seq(Transaction) : b = batch[k]
    BY DEF WorkersOK
  <1>2. Tail(b) \in Seq(Transaction) /\ (Len(b) > 1 <=> Tail(b) # <<>>)
    <2>1. b # <<>>
      BY <1>1
    <2>2. PICK n \in Nat : n = Len(b) /\ n # 0
      BY <2>1
    <2>3. PICK m \in Nat : m = Len(Tail(b)) /\ m = n - 1
      BY <2>1, <2>2
    <2>4. PICK t \in Seq(Transaction) : t = Tail(b)
      <3>1. Tail(b) \in Seq(Transaction)
        BY <2>1
      <3>2. QED
        BY <3>1
    <2>5. Len(t) = 0 <=> t = <<>>
      OBVIOUS
    <2>6. n > 1 <=> m # 0
      BY <2>2, <2>3
    <2>7. QED
      BY <2>2, <2>3, <2>4, <2>5, <2>6
  <1>3. 0 \in 0..MaxAge
    BY Numbers
  <1>4. /\ batch' = [batch EXCEPT ![k] = Tail(b)]
        /\ age' = [age EXCEPT ![k] = IF Len(b) = 1 THEN 0 ELSE @]
    BY <1>1 DEF Proceed
  <1>5. batch' \in [Worker -> Seq(Transaction)] /\ age' \in [Worker -> 0..MaxAge]
    BY <1>2, <1>3, <1>4 DEF WorkersOK
  <1>6. CASE Len(b) > 1
    <2>1. ticking' = [ticking EXCEPT ![k] = TRUE]
      BY <1>1, <1>6 DEF Proceed
    <2>2. Tail(b) # <<>>
      BY <1>2, <1>6
    <2>3. QED
      BY <1>4, <1>5, <2>1, <2>2 DEF WorkersOK
  <1>7. CASE ~(Len(b) > 1)
    <2>1. (Len(batch[k]) > 1) = FALSE
      BY <1>1, <1>7
    <2>2. ticking' = [ticking EXCEPT ![k] = FALSE]
      BY <2>1 DEF Proceed
    <2>3. Tail(b) = <<>>
      BY <1>2, <1>7
    <2>4. QED
      BY <1>4, <1>5, <2>2, <2>3 DEF WorkersOK
  <1>8. QED
    BY <1>6, <1>7

LEMMA CrashKeeps ==
  ASSUME WorkersOK, NEW k \in Worker, Crash(k)
  PROVE  WorkersOK'
  <1>1. 0 \in 0..MaxAge
    BY Numbers
  <1>2. <<>> \in Seq(Transaction)
    OBVIOUS
  <1>3. QED
    BY <1>1, <1>2 DEF Crash, WorkersOK

LEMMA RetryNextKeeps ==
  ASSUME RowsFine, WorkersOK, NEW k \in Worker, RetryNext(k)
  PROVE  RowsFine' /\ NoneGivenUp /\ WorkersOK'
  <1>1. PICK t \in Transaction : t = Head(batch[k])
    BY DEF RetryNext, WorkersOK
  <1>2. WorkersOK'
    BY ProceedKeeps DEF RetryNext
  <1>3. CASE UNCHANGED rowVars
    BY <1>2, <1>3, RowsUnchanged
  <1>4. CASE Judge(t)
    BY <1>2, <1>4, JudgeKeeps
  <1>5. CASE t \in Pending /\ StillDue(k, t) /\ Exhausted(k, t) /\ SettleAll({}, {t}, "NOT_FOUND")
    BY <1>2, <1>5, GiveUpKeeps
  <1>6. CASE t \in Pending /\ StillDue(k, t) /\ ~Exhausted(k, t) /\ Reschedule(k, t)
    BY <1>2, <1>6, RescheduleKeeps
  <1>7. QED
    BY <1>1, <1>3, <1>4, <1>5, <1>6 DEF RetryNext

-----------------------------------------------------------------------------
(* Time *)

LEMMA ElapseOne ==
  ASSUME NEW x \in Int, NEW h \in Int, x \in (-MaxAge)..h, NEW y, y = Max({x - 1, -MaxAge})
  PROVE  /\ y \in (-MaxAge)..h
         /\ x - 1 <= y
         /\ 0 < x => y = x - 1
         /\ x <= 0 => y <= 0
  <1>1. PICK m \in Int : m = -MaxAge /\ m <= 0
    BY Numbers
  <1>2. PICK z \in Int : z = x - 1
    OBVIOUS
  <1>3. (y = z \/ y = m) /\ z <= y /\ m <= y
    BY <1>1, <1>2, MaxOfTwo
  <1>4. m <= x /\ x <= h
    BY <1>1
  <1>5. y \in Int /\ m <= y /\ y <= h /\ x - 1 <= y /\ (0 < x => y = x - 1) /\ (x <= 0 => y <= 0)
    BY <1>1, <1>2, <1>3, <1>4
  <1>6. QED
    BY <1>1, <1>5

LEMMA WaitedASecond ==
  ASSUME NEW l \in Int, NEW d \in Int, NEW a \in 0..(MaxAttempts - 1), Waited(l, d, a),
         NEW m \in Int, NEW e \in Int, l <= 0 => m <= 0, 0 < l => m = l - 1, d - 1 <= e
  PROVE  Waited(m, e, a)
  <1>1. PICK p \in Int : p = Backoff[a]
    BY BackoffIs
  <1>2. PICK x \in Int : x = Expiry
    BY Numbers
  <1>3. l <= 0 \/ x - l + d >= p
    BY <1>1, <1>2 DEF Waited
  <1>4. m <= 0 \/ x - m + e >= p
    BY <1>3
  <1>5. QED
    BY <1>1, <1>2, <1>4 DEF Waited

LEMMA SecondKeeps ==
  ASSUME RowsFine, WorkersOK, Second
  PROVE  RowsFine' /\ NoneGivenUp /\ WorkersOK'
  <1>1. ASSUME NEW t \in Transaction, t \in Pending
        PROVE  /\ due'[t] \in (-MaxAge)..Highest /\ due[t] - 1 <= due'[t]
               /\ life'[t] \in (-MaxAge)..Expiry
               /\ 0 < life[t] => life'[t] = life[t] - 1
               /\ life[t] <= 0 => life'[t] <= 0
    <2>1. due[t] \in (-MaxAge)..Highest /\ life[t] \in (-MaxAge)..Expiry
      BY DEF RowsFine, RowsOK
    <2>2. due[t] \in Int /\ life[t] \in Int /\ Highest \in Int /\ Expiry \in Int
      BY <2>1, Numbers, HighestIs
    <2>3. due'[t] = Max({due[t] - 1, -MaxAge}) /\ life'[t] = Max({life[t] - 1, -MaxAge})
      BY <1>1 DEF Second, Elapse
    <2>4. due'[t] \in (-MaxAge)..Highest /\ due[t] - 1 <= due'[t]
      BY <2>1, <2>2, <2>3, ElapseOne
    <2>5. /\ life'[t] \in (-MaxAge)..Expiry
          /\ 0 < life[t] => life'[t] = life[t] - 1
          /\ life[t] <= 0 => life'[t] <= 0
      BY <2>1, <2>2, <2>3, ElapseOne
    <2>6. QED
      BY <2>4, <2>5
  <1>2. ASSUME NEW t \in Transaction, t \notin Pending
        PROVE  due'[t] = due[t] /\ life'[t] = life[t]
    BY <1>2 DEF Second, Elapse
  <1>3. due' \in [Transaction -> (-MaxAge)..Highest]
    <2>1. due' = [t \in Transaction |-> due'[t]]
      BY DEF Second, Elapse
    <2>2. \A t \in Transaction : due'[t] \in (-MaxAge)..Highest
      BY <1>1, <1>2 DEF RowsFine, RowsOK
    <2>3. QED
      BY <2>1, <2>2
  <1>4. life' \in [Transaction -> (-MaxAge)..Expiry]
    <2>1. life' = [t \in Transaction |-> life'[t]]
      BY DEF Second, Elapse
    <2>2. \A t \in Transaction : life'[t] \in (-MaxAge)..Expiry
      BY <1>1, <1>2 DEF RowsFine, RowsOK
    <2>3. QED
      BY <2>1, <2>2
  <1>5. RowsOK'
    BY <1>3, <1>4 DEF RowsFine, RowsOK, Second
  <1>6. ASSUME NEW t \in Transaction, t \in Pending'
        PROVE  Waited(life'[t], due'[t], attempts'[t])
    <2>1. t \in Pending
      BY <1>6 DEF Pending, Second
    <2>2. PICK l \in Int, d \in Int : l = life[t] /\ d = due[t]
      BY Numbers, HighestIs DEF RowsFine, RowsOK
    <2>3. PICK a \in 0..(MaxAttempts - 1) : a = attempts[t]
      BY DEF RowsFine, RowsOK
    <2>4. PICK m \in Int, e \in Int : m = life'[t] /\ e = due'[t]
      BY <1>5, Numbers, HighestIs DEF RowsOK
    <2>5. Waited(l, d, a)
      BY <2>1, <2>2, <2>3 DEF RowsFine, WaitsInTime
    <2>6. d - 1 <= e /\ (0 < l => m = l - 1) /\ (l <= 0 => m <= 0)
      BY <1>1, <2>1, <2>2, <2>4
    <2>7. Waited(m, e, a)
      BY <2>5, <2>6, WaitedASecond
    <2>8. QED
      BY <2>3, <2>4, <2>7 DEF Second
  <1>7. WaitsInTime'
    BY <1>6 DEF WaitsInTime
  <1>8. FreshRows'
    BY DEF RowsFine, FreshRows, Second
  <1>9. NoneGivenUp
    BY ConstantsAssumption DEF Second, NoneGivenUp
  <1>10. ASSUME NEW k \in Worker
         PROVE  (IF ticking[k] THEN age[k] + 1 ELSE 0) \in 0..MaxAge
    <2>1. PICK g \in 0..MaxAge : g = age[k]
      BY DEF WorkersOK
    <2>2. ticking[k] => g < MaxAge
      BY <2>1 DEF Second
    <2>3. (g < MaxAge => g + 1 \in 0..MaxAge) /\ 0 \in 0..MaxAge
      BY Numbers
    <2>4. QED
      BY <2>1, <2>2, <2>3
  <1>11. WorkersOK'
    <2>1. age' \in [Worker -> 0..MaxAge]
      BY <1>10 DEF Second
    <2>2. QED
      BY <2>1 DEF WorkersOK, Second
  <1>12. QED
    BY <1>5, <1>7, <1>8, <1>9, <1>11 DEF RowsFine

-----------------------------------------------------------------------------
(* Theorems *)

LEMMA NextKeeps == IInv /\ [Next]_vars => IInv' /\ [NoneGivenUp]_vars
  <1> SUFFICES ASSUME RowsFine, WorkersOK, [Next]_vars
               PROVE  RowsFine' /\ WorkersOK' /\ NoneGivenUp
    <2>1. IInv => RowsFine /\ WorkersOK
      BY TypeParts DEF IInv, RowsFine
    <2>2. RowsFine' /\ WorkersOK' => IInv'
      <3>1. RowsOK' /\ WorkersOK' => TypeOK'
        BY DEF RowsOK, WorkersOK, TypeOK, Highest
      <3>2. QED
        BY <3>1 DEF IInv, RowsFine
    <2>3. QED
      BY <2>1, <2>2
  <1>1. ASSUME NEW t \in Transaction, Submit(t)
        PROVE  RowsFine' /\ WorkersOK' /\ NoneGivenUp
    <2>1. WorkersOK'
      BY <1>1 DEF Submit, WorkersOK, workerVars
    <2>2. QED
      BY <1>1, <2>1, SubmitKeeps
  <1>2. ASSUME NEW k \in Worker, TickStart(k)
        PROVE  RowsFine' /\ WorkersOK' /\ NoneGivenUp
    <2>1. UNCHANGED rowVars
      BY <1>2 DEF TickStart
    <2>2. QED
      BY <1>2, <2>1, TickStartKeeps, RowsUnchanged
  <1>3. ASSUME NEW k \in Worker, RetryNext(k)
        PROVE  RowsFine' /\ WorkersOK' /\ NoneGivenUp
    BY <1>3, RetryNextKeeps
  <1>4. ASSUME NEW k \in Worker, RetryFails(k)
        PROVE  RowsFine' /\ WorkersOK' /\ NoneGivenUp
    <2>1. UNCHANGED rowVars /\ WorkersOK'
      BY <1>4, ProceedKeeps DEF RetryFails
    <2>2. QED
      BY <2>1, RowsUnchanged
  <1>5. ASSUME NEW k \in Worker, Crash(k)
        PROVE  RowsFine' /\ WorkersOK' /\ NoneGivenUp
    <2>1. UNCHANGED rowVars
      BY <1>5 DEF Crash
    <2>2. QED
      BY <1>5, <2>1, CrashKeeps, RowsUnchanged
  <1>6. CASE Second
    BY <1>6, SecondKeeps
  <1>7. CASE UNCHANGED vars
    <2>1. UNCHANGED rowVars /\ WorkersOK'
      BY <1>7 DEF vars, rowVars, workerVars, WorkersOK
    <2>2. QED
      BY <2>1, RowsUnchanged
  <1>8. QED
    BY <1>1, <1>2, <1>3, <1>4, <1>5, <1>6, <1>7 DEF Next

LEMMA Invariance == Spec => []IInv
  <1>1. IInv /\ [Next]_vars => IInv'
    BY NextKeeps
  <1>2. QED
    BY InitIInv, <1>1, PTL DEF Spec

\* In every reachable state a waiting row has fewer attempts than the limit and times
\* within their bounds, and a worker ticks exactly while it has rows to retry.
THEOREM TypeCorrect == Spec => []TypeOK
  <1>1. IInv => TypeOK
    BY DEF IInv
  <1>2. QED
    BY <1>1, Invariance, PTL

\* However many workers overlap on a row, it is not given up before its whole backoff has
\* passed or its expiry has come (the recheck of nextReferenceAttemptAt in
\* retryPendingReference).
THEOREM PatienceIsKept == Spec => NotGivenUpEarly
  <1>1. IInv /\ [Next]_vars => [NoneGivenUp]_vars
    BY NextKeeps
  <1>2. Spec => [][NoneGivenUp]_vars
    BY <1>1, Invariance, PTL DEF Spec
  <1>3. QED
    BY <1>2 DEF NotGivenUpEarly, NoneGivenUp
=============================================================================
