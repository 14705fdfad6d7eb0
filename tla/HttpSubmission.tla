--------------------------- MODULE HttpSubmission ---------------------------
(***************************************************************************)
(* POST /wagering/transactions: WageringController.submit wraps the use    *)
(* case in IdempotencyService, whose cache of responses is read before the *)
(* use case's transaction and written after it, in a transaction of its    *)
(* own.  Several instances serve clients that send a submission again      *)
(* until they get an answer.  The use case is one step here, as the        *)
(* refinement of WagerLedger by ProcessWager allows.                       *)
(*                                                                         *)
(* A submission is a record [key, ext, hash]: the Idempotency-Key header,  *)
(* the identifier (providerId, externalTransactionId), and the rest of     *)
(* the payload.  A transaction is named by its identifier.                 *)
(***************************************************************************)
EXTENDS FiniteSets

CONSTANTS
  Client,   \* each sends one submission, and again after an error
  Inputs,   \* the submissions a client may send
  None

Terminal == {"PROCESSED", "REJECTED"}
Status == Terminal \cup {"PENDING_REFERENCE"}

Keys == {i.key : i \in Inputs}
Exts == {i.ext : i \in Inputs}

Row == [by : Inputs, status : Status]
Answer ==
  [status : Status, tx : Exts, replay : BOOLEAN]
  \cup [status : {"NONE", "CONFLICT", "UNIQUE_VIOLATION"}, tx : {None}, replay : {FALSE}]
CacheRow == [by : Inputs, response : Answer]

ASSUME ConstantsAssumption ==
  /\ \A i \in Inputs : None \notin {i.key, i.ext, i.hash}
  /\ None \notin Inputs /\ None \notin Status
  /\ None \notin Row /\ None \notin CacheRow

VARIABLES
  sent,     \* the submission of each client
  pc,       \* where the handler of its request is
  held,     \* the response the handler is about to save or return
  answer,   \* what the client got last
  seen,     \* the status a later GET showed it
  rows,     \* committed: table wager_transactions
  cache     \* committed: table idempotency_keys

vars == <<sent, pc, held, answer, seen, rows, cache>>

\* Fault: the hash does not cover the external identifier.
SamePayload_HashOnly(i, j) == i.hash = j.hash

SamePayload(i, j) == i.ext = j.ext /\ i.hash = j.hash

Response(status, ext, replay) == [status |-> status, tx |-> ext, replay |-> replay]
Refused(status) == Response(status, None, FALSE)

Init ==
  /\ sent = [c \in Client |-> None]
  /\ pc = [c \in Client |-> "idle"]
  /\ held = [c \in Client |-> Refused("NONE")]
  /\ answer = [c \in Client |-> Refused("NONE")]
  /\ seen = [c \in Client |-> None]
  /\ rows = [e \in Exts |-> None]
  /\ cache = [k \in Keys |-> None]

Go(c, label) == pc' = [pc EXCEPT ![c] = label]
Hold(c, response) == held' = [held EXCEPT ![c] = response]

Stored == {e \in Exts : rows[e] # None}

\* The transaction that execute finds for a submission, by key first, then by identifier.
Existing(i) ==
  LET byKey == {e \in Stored : rows[e].by.key = i.key} IN
  IF byKey # {} THEN byKey ELSE Stored \cap {i.ext}

-----------------------------------------------------------------------------
Send(c) ==
  /\ pc[c] = "idle"
  /\ \E i \in Inputs : sent' = [sent EXCEPT ![c] = i]
  /\ Go(c, "lookup")
  /\ UNCHANGED <<held, answer, seen, rows, cache>>

\* A client sends its submission again after an error; one that sends it again after an
\* answer is another client.
Resend(c) ==
  /\ pc[c] = "failed"
  /\ Go(c, "lookup")
  /\ UNCHANGED <<sent, held, answer, seen, rows, cache>>

\* Fault: the flag of the cached response is returned as it was saved.
Cached_FlagAsSaved(hit) == hit.response

\* A cached response is a replay, whatever it said when it was saved.
Cached(hit) == [hit.response EXCEPT !.replay = TRUE]

\* Fault: the fast path is skipped.
Lookup_Skipped(c) ==
  /\ pc[c] = "lookup"
  /\ Go(c, "execute")
  /\ UNCHANGED <<sent, held, answer, seen, rows, cache>>

\* handle, before the use case.
Lookup(c) ==
  LET i == sent[c]
      hit == cache[i.key]
  IN
  /\ pc[c] = "lookup"
  /\ \/ /\ hit = None
        /\ Go(c, "execute") /\ UNCHANGED held
     \/ /\ hit # None /\ ~SamePayload(hit.by, i)
        /\ Hold(c, Refused("CONFLICT")) /\ Go(c, "reply")
     \/ /\ hit # None /\ SamePayload(hit.by, i)
        /\ Hold(c, Cached(hit)) /\ Go(c, "reply")
  /\ UNCHANGED <<sent, answer, seen, rows, cache>>

\* ProcessWagerUseCase.execute, in its own transaction.
Execute(c) ==
  LET i == sent[c] IN
  /\ pc[c] = "execute"
  /\ \/ \E e \in Existing(i) :
          /\ IF SamePayload(rows[e].by, i)
             THEN Hold(c, Response(rows[e].status, e, TRUE)) /\ Go(c, "save")
             ELSE Hold(c, Refused("CONFLICT")) /\ Go(c, "reply")
          /\ UNCHANGED rows
     \/ /\ Existing(i) = {}
        /\ \E status \in Status :
             /\ rows' = [rows EXCEPT ![i.ext] = [by |-> i, status |-> status]]
             /\ Hold(c, Response(status, i.ext, FALSE))
        /\ Go(c, "save")
  /\ UNCHANGED <<sent, answer, seen, cache>>

\* Fault: the last writer of a key wins.
Save_Upsert(c) ==
  /\ pc[c] = "save"
  /\ cache' = [cache EXCEPT ![sent[c].key] = [by |-> sent[c], response |-> held[c]]]
  /\ Go(c, "reply")
  /\ UNCHANGED <<sent, held, answer, seen, rows>>

\* handle, after the use case: an INSERT, which fails on the primary key if a
\* concurrent request has saved its response first.
Save(c) ==
  LET key == sent[c].key IN
  /\ pc[c] = "save"
  /\ \/ /\ cache[key] = None
        /\ cache' = [cache EXCEPT ![key] = [by |-> sent[c], response |-> held[c]]]
        /\ Go(c, "reply") /\ UNCHANGED <<held, answer>>
     \/ /\ cache[key] # None
        /\ answer' = [answer EXCEPT ![c] = Refused("UNIQUE_VIOLATION")]
        /\ Hold(c, Refused("NONE")) /\ Go(c, "failed") /\ UNCHANGED cache
  /\ UNCHANGED <<sent, seen, rows>>

Reply(c) ==
  /\ pc[c] = "reply"
  /\ answer' = [answer EXCEPT ![c] = held[c]]
  /\ Hold(c, Refused("NONE"))
  /\ Go(c, "done")
  /\ UNCHANGED <<sent, seen, rows, cache>>

\* The connection is lost, a statement fails, or the process dies.
Fail(c) ==
  /\ pc[c] \in {"lookup", "execute", "save", "reply"}
  /\ Hold(c, Refused("NONE"))
  /\ Go(c, "failed")
  /\ UNCHANGED <<sent, answer, seen, rows, cache>>

\* Fault: a reversal that cannot be applied is marked FAILED.
Settle_MarkFailed(e) ==
  /\ e \in Stored /\ rows[e].status = "PENDING_REFERENCE"
  /\ \E status \in {"PROCESSED", "FAILED"} : rows' = [rows EXCEPT ![e].status = status]
  /\ UNCHANGED <<sent, pc, held, answer, seen, cache>>

\* The loop of a reference or a worker settles a waiting reversal.
Settle(e) ==
  /\ e \in Stored /\ rows[e].status = "PENDING_REFERENCE"
  /\ \E status \in Terminal : rows' = [rows EXCEPT ![e].status = status]
  /\ UNCHANGED <<sent, pc, held, answer, seen, cache>>

\* getByTransactionId, getByExternalId.
Get(c) ==
  /\ pc[c] = "done" /\ answer[c].status = "PENDING_REFERENCE"
  /\ seen' = [seen EXCEPT ![c] = rows[answer[c].tx].status]
  /\ UNCHANGED <<sent, pc, held, answer, rows, cache>>

Handle(c) == Lookup(c) \/ Execute(c) \/ Save(c) \/ Reply(c)

Next ==
  \/ \E c \in Client : Send(c) \/ Resend(c) \/ Handle(c) \/ Fail(c) \/ Get(c)
  \/ \E e \in Exts : Settle(e)

Spec == Init /\ [][Next]_vars

\* Requests are served, though any one may fail, and clients try again after an error.
Fairness ==
  \A c \in Client :
    /\ SF_vars(Lookup(c)) /\ SF_vars(Execute(c)) /\ SF_vars(Save(c)) /\ SF_vars(Reply(c))
    /\ WF_vars(Resend(c))

FairSpec == Spec /\ Fairness

-----------------------------------------------------------------------------
(* Properties *)

\* Every variable has its type; a request being served carries a submission.
TypeOK ==
  /\ sent \in [Client -> Inputs \cup {None}]
  /\ pc \in [Client -> {"idle", "lookup", "execute", "save", "reply", "failed", "done"}]
  /\ held \in [Client -> Answer]
  /\ answer \in [Client -> Answer]
  /\ seen \in [Client -> Status \cup {None}]
  /\ rows \in [Exts -> Row \cup {None}]
  /\ cache \in [Keys -> CacheRow \cup {None}]
  /\ \A c \in Client : pc[c] # "idle" => sent[c] \in Inputs

Succeeded(c) == answer[c].tx # None

\* All answers ever given to one key are the same answer, though requests race, the
\* reversal is settled meanwhile, and answers are lost: nothing is answered before it is
\* the one response saved for the key (the exact original response, handle).
OneAnswerPerKey ==
  \A c, d \in Client :
    Succeeded(c) /\ Succeeded(d) /\ sent[c].key = sent[d].key
      => answer[c].tx = answer[d].tx /\ answer[c].status = answer[d].status

\* An answer names a stored transaction with the client's own payload, and once the
\* answer or a later GET has shown it settled, the row never says anything else: neither a
\* key that two payloads share nor an answer cached while it was pending mixes them up.
AnswerMatchesRow ==
  \A c \in Client : Succeeded(c) =>
    /\ answer[c].tx = sent[c].ext
    /\ answer[c].tx \in Stored /\ rows[answer[c].tx].by.hash = sent[c].hash
    /\ answer[c].status \in Terminal => rows[answer[c].tx].status = answer[c].status
    /\ seen[c] \in Terminal => rows[answer[c].tx].status = seen[c]

\* At most one client is ever told that its request was the first (201, 202 or 422): to
\* every other one a transaction is a replay, also out of the cache.
FirstAnswerOnce ==
  \A c, d \in Client :
    /\ Succeeded(c) /\ ~answer[c].replay
    /\ Succeeded(d) /\ ~answer[d].replay
    => answer[c].tx # answer[d].tx \/ c = d

\* A client that keeps trying gets an answer or a conflict, whatever it races with and
\* wherever earlier requests died between the two transactions.
Served == \A c \in Client : pc[c] # "idle" ~> pc[c] = "done"
=============================================================================
