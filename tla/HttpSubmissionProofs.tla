------------------------ MODULE HttpSubmissionProofs ------------------------
(***************************************************************************)
(* What the answers to POST /wagering/transactions mean, for every number  *)
(* of clients and submissions: one response per key, true to its row, and  *)
(* one client that is told it was the first.                               *)
(***************************************************************************)
EXTENDS HttpSubmission, TLAPS

\* A response is true for a submission if it names the row with its payload, and
\* says of a settled transaction what the row says.
Good(i, response) ==
  /\ response.tx = i.ext /\ response.tx \in Stored
  /\ rows[response.tx].by.hash = i.hash
  /\ response.status \in Terminal => rows[response.tx].status = response.status

AsCached(i, response) ==
  /\ cache[i.key] # None
  /\ cache[i.key].response.tx = response.tx
  /\ cache[i.key].response.status = response.status

Owned == \A e \in Stored : rows[e].by.ext = e
CacheOK ==
  \A k \in Keys : cache[k] # None =>
    cache[k].response.tx # None /\ Good(cache[k].by, cache[k].response)

\* A handler holds a response only until it has saved or returned it, and by the time it
\* returns one the cache has it; so an answer is always the cached one.
ClientOK(c) ==
  /\ held[c].tx # None => pc[c] \in {"save", "reply"} /\ Good(sent[c], held[c])
  /\ held[c].tx # None /\ pc[c] = "reply" => AsCached(sent[c], held[c])
  /\ pc[c] = "save" => held[c].tx # None
  /\ Succeeded(c) => pc[c] = "done" /\ Good(sent[c], answer[c]) /\ AsCached(sent[c], answer[c])
  /\ seen[c] \in Terminal => Succeeded(c) /\ rows[answer[c].tx].status = seen[c]

\* A client that is, or is about to be, told that it was the first for a transaction.
First(c, e) ==
  \/ held[c].tx = e /\ ~held[c].replay
  \/ answer[c].tx = e /\ ~answer[c].replay
FirstOnce ==
  \A c, d \in Client, e \in Exts : First(c, e) => e \in Stored /\ (First(d, e) => c = d)

CacheInv == TypeOK /\ Owned /\ CacheOK /\ FirstOnce /\ \A c \in Client : ClientOK(c)

\* What no step takes back: a row keeps its submission, and its status once settled; the
\* response saved for a key stays.
RowsGrow ==
  \A e \in Exts : rows[e] # None =>
    /\ rows'[e] # None /\ rows'[e].by = rows[e].by
    /\ rows[e].status \in Terminal => rows'[e].status = rows[e].status
CacheGrows == \A k \in Keys : cache[k] # None => cache'[k] = cache[k]

-----------------------------------------------------------------------------
\* The identifier and the key of a submission, and None among the responses.
LEMMA Names ==
  /\ \A i \in Inputs : i.ext \in Exts /\ i.key \in Keys
  /\ None \notin Exts
  /\ \A response \in Answer :
       response.tx # None => response.tx \in Exts /\ response.status \in Status /\ response.replay \in BOOLEAN
  BY ConstantsAssumption DEF Exts, Keys, Answer

LEMMA Responses ==
  /\ \A status : Refused(status).tx = None
  /\ \A status \in {"NONE", "CONFLICT", "UNIQUE_VIOLATION"} : Refused(status) \in Answer
  /\ \A status \in Status, e \in Exts, replay \in BOOLEAN :
       /\ Response(status, e, replay) \in Answer
       /\ Response(status, e, replay).tx = e
       /\ Response(status, e, replay).status = status
       /\ Response(status, e, replay).replay = replay
  BY DEF Refused, Response, Answer

\* What a step of one client, which keeps its own part of the invariant, does to the rest.
LEMMA StepOfClient ==
  ASSUME CacheInv, TypeOK', NEW c \in Client, RowsGrow, CacheGrows,
         \A d \in Client : d # c =>
           /\ sent'[d] = sent[d] /\ pc'[d] = pc[d] /\ held'[d] = held[d]
           /\ answer'[d] = answer[d] /\ seen'[d] = seen[d],
         ClientOK(c)', Owned', CacheOK',
         \A e \in Exts : First(c, e)' => First(c, e) \/ (e \notin Stored /\ e \in Stored')
  PROVE  CacheInv'
  <1>1. ASSUME NEW d \in Client PROVE ClientOK(d)'
    <2>1. CASE d = c
      BY <2>1
    <2>2. CASE d # c
      <3>1. ClientOK(d)
        BY DEF CacheInv
      <3>2. /\ sent'[d] = sent[d] /\ pc'[d] = pc[d] /\ held'[d] = held[d]
            /\ answer'[d] = answer[d] /\ seen'[d] = seen[d]
        BY <2>2
      <3>3. pc[d] # "idle" => sent[d].key \in Keys
        BY Names DEF CacheInv, TypeOK
      <3> QED
        BY <3>1, <3>2, <3>3 DEF ClientOK, Good, AsCached, Succeeded, Stored, RowsGrow, CacheGrows
    <2> QED
      BY <2>1, <2>2
  <1>2. FirstOnce'
    <2>1. \A e \in Exts : e \in Stored => e \in Stored'
      BY DEF RowsGrow, Stored
    <2>2. \A d \in Client, e \in Exts : d # c => (First(d, e)' <=> First(d, e))
      BY DEF First
    <2> QED
      BY <2>1, <2>2 DEF FirstOnce, CacheInv
  <1> QED
    BY <1>1, <1>2 DEF CacheInv

-----------------------------------------------------------------------------
\* Steps that touch neither table, and leave their client with no transaction to tell of.
LEMMA Quiet ==
  ASSUME CacheInv, NEW c \in Client, NEW i \in Inputs,
         NEW label \in {"lookup", "execute", "reply", "failed", "done"},
         NEW response \in Answer, response.tx = None,
         NEW reply \in Answer, reply.tx = None,
         sent' = [sent EXCEPT ![c] = i], pc[c] # "idle" => i = sent[c],
         pc' = [pc EXCEPT ![c] = label],
         held' = [held EXCEPT ![c] = response],
         answer' = [answer EXCEPT ![c] = reply],
         UNCHANGED <<seen, rows, cache>>, pc[c] # "done"
  PROVE  CacheInv'
  <1>0. TypeOK /\ ClientOK(c)
    BY DEF CacheInv
  <1>1. ~Succeeded(c)
    BY <1>0 DEF ClientOK
  <1>2. /\ sent'[c] = i /\ pc'[c] = label /\ held'[c].tx = None /\ answer'[c].tx = None
        /\ \A d \in Client : d # c =>
             /\ sent'[d] = sent[d] /\ pc'[d] = pc[d] /\ held'[d] = held[d]
             /\ answer'[d] = answer[d] /\ seen'[d] = seen[d]
    BY <1>0 DEF TypeOK
  <1>3. TypeOK'
    <2>1. sent' \in [Client -> Inputs \cup {None}]
      BY <1>0 DEF TypeOK
    <2>2. pc' \in [Client -> {"idle", "lookup", "execute", "save", "reply", "failed", "done"}]
      BY <1>0 DEF TypeOK
    <2>3. held' \in [Client -> Answer] /\ answer' \in [Client -> Answer]
      BY <1>0 DEF TypeOK
    <2> QED
      BY <1>0, <1>2, <2>1, <2>2, <2>3 DEF TypeOK
  <1>4. ClientOK(c)'
    BY <1>0, <1>1, <1>2 DEF ClientOK, Succeeded
  <1>5. Owned' /\ CacheOK' /\ RowsGrow /\ CacheGrows
    BY DEF CacheInv, Owned, CacheOK, Good, Stored, RowsGrow, CacheGrows
  <1>6. \A e \in Exts : ~First(c, e)'
    BY <1>2, Names DEF First
  <1> QED
    BY <1>2, <1>3, <1>4, <1>5, <1>6, StepOfClient

\* Steps that touch neither table, of a client that holds or is told a cached response.
LEMMA FromCache ==
  ASSUME CacheInv, NEW c \in Client, NEW response \in Answer, NEW reply \in Answer,
         NEW label \in {"reply", "done"},
         pc' = [pc EXCEPT ![c] = label],
         held' = [held EXCEPT ![c] = response],
         answer' = [answer EXCEPT ![c] = reply],
         UNCHANGED <<sent, seen, rows, cache>>, pc[c] \in {"lookup", "reply"},
         label = "reply" => reply = answer[c] /\ Good(sent[c], response) /\ AsCached(sent[c], response),
         label = "done" => response.tx = None /\ Good(sent[c], reply) /\ AsCached(sent[c], reply),
         \A e \in Exts : First(c, e)' => First(c, e)
  PROVE  CacheInv'
  <1>0. TypeOK /\ ClientOK(c)
    BY DEF CacheInv
  <1>1. ~Succeeded(c) /\ answer[c].tx = None
    BY <1>0 DEF ClientOK, Succeeded
  <1>2. /\ pc'[c] = label /\ held'[c] = response /\ answer'[c] = reply
        /\ \A d \in Client : d # c =>
             /\ sent'[d] = sent[d] /\ pc'[d] = pc[d] /\ held'[d] = held[d]
             /\ answer'[d] = answer[d] /\ seen'[d] = seen[d]
    BY <1>0 DEF TypeOK
  <1>3. TypeOK'
    <2>1. pc' \in [Client -> {"idle", "lookup", "execute", "save", "reply", "failed", "done"}]
      BY <1>0 DEF TypeOK
    <2>2. held' \in [Client -> Answer] /\ answer' \in [Client -> Answer]
      BY <1>0 DEF TypeOK
    <2>3. \A d \in Client : pc'[d] # "idle" => sent'[d] \in Inputs
      BY <1>0, <1>2 DEF TypeOK
    <2> QED
      BY <1>0, <2>1, <2>2, <2>3 DEF TypeOK
  <1>4. ClientOK(c)'
    BY <1>0, <1>1, <1>2, Names DEF ClientOK, Succeeded, Good, AsCached, Stored
  <1>5. Owned' /\ CacheOK' /\ RowsGrow /\ CacheGrows
    BY DEF CacheInv, Owned, CacheOK, Good, Stored, RowsGrow, CacheGrows
  <1> QED
    BY <1>2, <1>3, <1>4, <1>5, StepOfClient

LEMMA LookupKeepsInv ==
  ASSUME CacheInv, NEW c \in Client, Lookup(c)
  PROVE  CacheInv'
  <1> DEFINE hit == cache[sent[c].key]
  <1>0. TypeOK /\ ClientOK(c) /\ pc[c] = "lookup" /\ sent[c] \in Inputs
    BY DEF CacheInv, Lookup, TypeOK
  <1>1. sent' = [sent EXCEPT ![c] = sent[c]] /\ answer' = [answer EXCEPT ![c] = answer[c]]
    BY <1>0 DEF Lookup, TypeOK
  <1>2. answer[c] \in Answer /\ answer[c].tx = None /\ held[c] \in Answer /\ held[c].tx = None
    BY <1>0 DEF ClientOK, Succeeded, TypeOK
  <1>3. CASE hit = None
    <2>1. pc' = [pc EXCEPT ![c] = "execute"] /\ held' = [held EXCEPT ![c] = held[c]]
      BY <1>0, <1>3 DEF Lookup, Go, TypeOK
    <2> QED
      BY <1>0, <1>1, <1>2, <2>1, Quiet DEF Lookup
  <1>4. CASE hit # None /\ ~SamePayload(hit.by, sent[c])
    <2>1. /\ pc' = [pc EXCEPT ![c] = "reply"]
          /\ held' = [held EXCEPT ![c] = Refused("CONFLICT")]
          /\ UNCHANGED <<seen, rows, cache>>
      BY <1>4 DEF Lookup, Go, Hold
    <2>2. Refused("CONFLICT") \in Answer /\ Refused("CONFLICT").tx = None
      BY Responses
    <2> QED
      BY <1>0, <1>1, <1>2, <2>1, <2>2, Quiet
  <1>5. CASE hit # None /\ SamePayload(hit.by, sent[c])
    <2> DEFINE response == Cached(hit)
    <2>1. /\ pc' = [pc EXCEPT ![c] = "reply"]
          /\ held' = [held EXCEPT ![c] = response]
      BY <1>5 DEF Lookup, Go, Hold
    <2>2. hit \in CacheRow /\ hit.response.tx # None /\ Good(hit.by, hit.response)
      BY <1>0, <1>5, Names DEF CacheInv, CacheOK, TypeOK
    <2>3. /\ response \in Answer /\ response.replay
          /\ response.tx = hit.response.tx /\ response.status = hit.response.status
      BY <2>2 DEF Cached, CacheRow, Answer
    <2> HIDE DEF response
    <2>4. Good(sent[c], response) /\ AsCached(sent[c], response)
      BY <1>5, <2>2, <2>3 DEF Good, AsCached, SamePayload
    <2>5. \A e \in Exts : First(c, e)' => First(c, e)
      BY <1>0, <1>1, <2>1, <2>3 DEF First, TypeOK
    <2> QED
      BY <1>0, <1>1, <1>2, <2>1, <2>3, <2>4, <2>5, FromCache DEF Lookup
  <1> QED
    BY <1>3, <1>4, <1>5

LEMMA ReplyKeepsInv ==
  ASSUME CacheInv, NEW c \in Client, Reply(c)
  PROVE  CacheInv'
  <1>0. /\ TypeOK /\ ClientOK(c) /\ pc[c] = "reply"
        /\ sent[c] \in Inputs /\ held[c] \in Answer
    BY DEF CacheInv, Reply, TypeOK
  <1>1. /\ pc' = [pc EXCEPT ![c] = "done"]
        /\ held' = [held EXCEPT ![c] = Refused("NONE")]
        /\ answer' = [answer EXCEPT ![c] = held[c]]
        /\ UNCHANGED <<sent, seen, rows, cache>>
        /\ sent' = [sent EXCEPT ![c] = sent[c]]
    BY <1>0 DEF Reply, Go, Hold, TypeOK
  <1>2. CASE held[c].tx = None
    BY <1>0, <1>1, <1>2, Quiet, Responses, ZenonT(30)
  <1>3. CASE held[c].tx # None
    <2>1. \A e \in Exts : First(c, e)' => First(c, e)
      BY <1>0, <1>1, Names, Responses DEF First, TypeOK
    <2>2. Good(sent[c], held[c]) /\ AsCached(sent[c], held[c])
      BY <1>0, <1>3 DEF ClientOK
    <2>3. Refused("NONE") \in Answer /\ Refused("NONE").tx = None
      BY Responses
    <2> QED
      BY <1>0, <1>1, <2>1, <2>2, <2>3, FromCache
  <1> QED
    BY <1>2, <1>3

LEMMA SaveKeepsInv ==
  ASSUME CacheInv, NEW c \in Client, Save(c)
  PROVE  CacheInv'
  <1> DEFINE key == sent[c].key
  <1>0. /\ TypeOK /\ ClientOK(c) /\ pc[c] = "save"
        /\ sent[c] \in Inputs /\ held[c] \in Answer /\ answer[c] \in Answer /\ key \in Keys
    BY Names DEF CacheInv, Save, TypeOK
  <1>1. answer[c].tx = None /\ held[c].tx # None /\ Good(sent[c], held[c])
    BY <1>0 DEF ClientOK, Succeeded
  <1>2. CASE cache[key] # None
    <2>1. /\ pc' = [pc EXCEPT ![c] = "failed"]
          /\ held' = [held EXCEPT ![c] = Refused("NONE")]
          /\ answer' = [answer EXCEPT ![c] = Refused("UNIQUE_VIOLATION")]
          /\ UNCHANGED <<seen, rows, cache>>
          /\ sent' = [sent EXCEPT ![c] = sent[c]]
      BY <1>0, <1>2 DEF Save, Go, Hold, TypeOK
    <2>2. /\ Refused("NONE") \in Answer /\ Refused("NONE").tx = None
          /\ Refused("UNIQUE_VIOLATION") \in Answer /\ Refused("UNIQUE_VIOLATION").tx = None
      BY Responses
    <2> QED
      BY <1>0, <2>1, <2>2, Quiet
  <1>3. CASE cache[key] = None
    <2> DEFINE row == [by |-> sent[c], response |-> held[c]]
    <2>1. /\ pc' = [pc EXCEPT ![c] = "reply"]
          /\ cache' = [cache EXCEPT ![key] = row]
          /\ UNCHANGED <<sent, held, answer, seen, rows>>
      BY <1>3 DEF Save, Go
    <2>2. row \in CacheRow /\ row # None /\ row.by = sent[c] /\ row.response = held[c]
      BY <1>0, ConstantsAssumption DEF CacheRow
    <2> HIDE DEF row
    <2>3. /\ pc'[c] = "reply" /\ cache'[key] = row
          /\ \A d \in Client : d # c => pc'[d] = pc[d]
          /\ \A k \in Keys : k # key => cache'[k] = cache[k]
      BY <1>0, <2>1 DEF TypeOK
    <2>4. TypeOK'
      <3>1. cache' \in [Keys -> CacheRow \cup {None}]
        BY <1>0, <2>1, <2>2 DEF TypeOK
      <3>2. pc' \in [Client -> {"idle", "lookup", "execute", "save", "reply", "failed", "done"}]
        BY <1>0, <2>1 DEF TypeOK
      <3>3. \A d \in Client : pc'[d] # "idle" => sent'[d] \in Inputs
        BY <1>0, <2>1, <2>3 DEF TypeOK
      <3> QED
        BY <1>0, <2>1, <3>1, <3>2, <3>3 DEF TypeOK
    <2>5. RowsGrow /\ CacheGrows /\ Owned'
      BY <1>3, <2>1, <2>3 DEF RowsGrow, CacheGrows, CacheInv, Owned, Stored
    <2>6. ClientOK(c)'
      BY <1>0, <1>1, <2>1, <2>2, <2>3 DEF ClientOK, Succeeded, Good, AsCached, Stored
    <2>7. CacheOK'
      <3> SUFFICES ASSUME NEW k \in Keys, cache'[k] # None
                   PROVE  cache'[k].response.tx # None /\ Good(cache[k].by, cache[k].response)'
        BY DEF CacheOK
      <3>1. CASE k = key
        BY <1>1, <2>1, <2>2, <2>3, <3>1 DEF Good, Stored
      <3>2. CASE k # key
        BY <2>1, <2>3, <3>2 DEF CacheInv, CacheOK, Good, Stored
      <3> QED
        BY <3>1, <3>2
    <2>8. \A e \in Exts : First(c, e)' => First(c, e)
      BY <2>1 DEF First
    <2> QED
      BY <2>1, <2>3, <2>4, <2>5, <2>6, <2>7, <2>8, StepOfClient
  <1> QED
    BY <1>2, <1>3

LEMMA ExecuteKeepsInv ==
  ASSUME CacheInv, NEW c \in Client, Execute(c)
  PROVE  CacheInv'
  <1> DEFINE i == sent[c]
  <1>0. /\ TypeOK /\ ClientOK(c) /\ pc[c] = "execute"
        /\ i \in Inputs /\ answer[c] \in Answer /\ i.ext \in Exts
    BY Names DEF CacheInv, Execute, TypeOK
  <1>1. answer[c].tx = None /\ answer' = [answer EXCEPT ![c] = answer[c]]
    BY <1>0 DEF ClientOK, Succeeded, Execute, TypeOK
  <1>2. (\A e \in Existing(i) : e \in Stored) /\ sent' = sent
    BY DEF Existing, Execute
  <1>3. ASSUME NEW e \in Existing(i), ~SamePayload(rows[e].by, i), UNCHANGED rows,
               Hold(c, Refused("CONFLICT")), Go(c, "reply")
        PROVE  CacheInv'
    <2>1. /\ sent' = [sent EXCEPT ![c] = i] /\ UNCHANGED <<seen, rows, cache>>
          /\ held' = [held EXCEPT ![c] = Refused("CONFLICT")] /\ pc' = [pc EXCEPT ![c] = "reply"]
      BY <1>0, <1>3 DEF Execute, Hold, Go, TypeOK
    <2>2. Refused("CONFLICT") \in Answer /\ Refused("CONFLICT").tx = None
      BY Responses
    <2> QED
      BY <1>0, <1>1, <2>1, <2>2, Quiet
  <1>4. ASSUME NEW response \in Answer, response.tx # None, Good(i, response)', TypeOK',
               Hold(c, response), Go(c, "save"), RowsGrow, Owned',
               response.replay \/ (response.tx \notin Stored /\ response.tx \in Stored')
        PROVE  CacheInv'
    <2>1. /\ pc'[c] = "save" /\ held'[c] = response /\ answer'[c] = answer[c]
          /\ UNCHANGED <<sent, seen, cache>>
          /\ \A d \in Client : d # c =>
               /\ sent'[d] = sent[d] /\ pc'[d] = pc[d] /\ held'[d] = held[d]
               /\ answer'[d] = answer[d] /\ seen'[d] = seen[d]
      BY <1>0, <1>4 DEF Execute, Hold, Go, TypeOK
    <2>2. CacheGrows
      BY <2>1 DEF CacheGrows
    <2>3. ClientOK(c)'
      BY <1>0, <1>1, <1>4, <2>1 DEF ClientOK, Succeeded, Good
    <2>4. CacheOK'
      <3> SUFFICES ASSUME NEW k \in Keys, cache[k] # None
                   PROVE  cache[k].response.tx # None /\ Good(cache[k].by, cache[k].response)'
        BY <2>1 DEF CacheOK
      <3>1. cache[k].response.tx # None /\ Good(cache[k].by, cache[k].response)
        BY DEF CacheInv, CacheOK
      <3> QED
        BY <1>4, <2>1, <3>1 DEF Good, Stored, RowsGrow
    <2>5. \A e \in Exts : First(c, e)' => First(c, e) \/ (e \notin Stored /\ e \in Stored')
      BY <1>1, <1>4, <2>1, Names DEF First
    <2> QED
      BY <1>4, <2>1, <2>2, <2>3, <2>4, <2>5, StepOfClient
  <1>5. ASSUME NEW response \in Answer, Hold(c, response), Go(c, "save"),
               rows' \in [Exts -> Row \cup {None}],
               \A d \in Client : seen'[d] = seen[d]
        PROVE  TypeOK'
    <2>1. held' \in [Client -> Answer]
      BY <1>0, <1>5 DEF TypeOK, Hold
    <2>2. pc' \in [Client -> {"idle", "lookup", "execute", "save", "reply", "failed", "done"}]
      BY <1>0, <1>5 DEF TypeOK, Go
    <2>3. \A d \in Client : pc'[d] # "idle" => sent'[d] \in Inputs
      BY <1>0, <1>5 DEF TypeOK, Go, Execute
    <2> QED
      BY <1>0, <1>5, <2>1, <2>2, <2>3 DEF TypeOK, Execute
  <1>6. ASSUME NEW e \in Existing(i), SamePayload(rows[e].by, i), UNCHANGED rows,
               Hold(c, Response(rows[e].status, e, TRUE)), Go(c, "save")
        PROVE  CacheInv'
    <2>1. e \in Stored /\ e \in Exts /\ rows[e] \in Row
      BY <1>0, <1>2 DEF Stored, TypeOK
    <2>2. rows[e].by.ext = e /\ rows[e].status \in Status
      BY <2>1 DEF CacheInv, Owned, Row
    <2>3. PICK response \in Answer :
            /\ response = Response(rows[e].status, e, TRUE)
            /\ response.tx = e /\ response.status = rows[e].status /\ response.replay
      BY <2>1, <2>2, Responses
    <2>4. response.tx # None /\ Good(i, response)'
      BY <1>2, <1>6, <2>1, <2>2, <2>3, Names DEF Good, Stored, SamePayload
    <2>5. RowsGrow /\ Owned'
      BY <1>6 DEF RowsGrow, CacheInv, Owned, Stored
    <2>6. TypeOK'
      BY <1>0, <1>5, <1>6, <2>3 DEF TypeOK, Execute
    <2> QED
      BY <1>4, <1>6, <2>3, <2>4, <2>5, <2>6
  <1>7. ASSUME Existing(i) = {}, NEW status \in Status,
               rows' = [rows EXCEPT ![i.ext] = [by |-> i, status |-> status]],
               Hold(c, Response(status, i.ext, FALSE)), Go(c, "save")
        PROVE  CacheInv'
    <2> DEFINE row == [by |-> i, status |-> status]
    <2>1. row \in Row /\ row # None /\ row.by = i /\ row.status = status
      BY <1>0, ConstantsAssumption DEF Row
    <2> HIDE DEF row
    <2>2. /\ rows' \in [Exts -> Row \cup {None}]
          /\ rows'[i.ext] = row /\ \A e \in Exts : e # i.ext => rows'[e] = rows[e]
      BY <1>0, <1>7, <2>1 DEF TypeOK, row
    <2>3. PICK response \in Answer :
            /\ response = Response(status, i.ext, FALSE)
            /\ response.tx = i.ext /\ response.status = status /\ ~response.replay
      BY <1>0, Responses
    <2>4. i.ext \notin Stored /\ i.ext \in Stored'
      BY <1>0, <1>7, <2>1, <2>2 DEF Existing, Stored
    <2>5. response.tx # None /\ Good(i, response)'
      BY <1>0, <1>2, <2>1, <2>2, <2>3, <2>4, Names DEF Good
    <2>6. RowsGrow /\ Owned'
      BY <1>0, <2>1, <2>2, <2>4 DEF RowsGrow, CacheInv, Owned, Stored
    <2>7. TypeOK'
      BY <1>5, <1>7, <2>2, <2>3 DEF Execute
    <2> QED
      BY <1>4, <1>7, <2>3, <2>4, <2>5, <2>6, <2>7
  <1> QED
    BY <1>3, <1>6, <1>7 DEF Execute

LEMMA SettleKeepsInv ==
  ASSUME CacheInv, NEW e \in Exts, Settle(e)
  PROVE  CacheInv'
  <1>0. TypeOK /\ rows[e] \in Row /\ rows[e].status = "PENDING_REFERENCE"
    BY DEF CacheInv, Settle, TypeOK, Stored
  <1>1. PICK status \in Terminal : rows' = [rows EXCEPT ![e] = [rows[e] EXCEPT !.status = status]]
    BY DEF Settle
  <1> DEFINE row == [rows[e] EXCEPT !.status = status]
  <1>2. row \in Row /\ row # None /\ row.by = rows[e].by
    BY <1>0, ConstantsAssumption DEF Row, Status
  <1> HIDE DEF row
  <1>3. /\ rows' \in [Exts -> Row \cup {None}]
        /\ rows'[e] = row /\ \A f \in Exts : f # e => rows'[f] = rows[f]
    BY <1>0, <1>1, <1>2 DEF TypeOK, row
  <1>4. RowsGrow
    BY <1>0, <1>2, <1>3 DEF RowsGrow, Terminal
  <1>5. UNCHANGED <<sent, pc, held, answer, seen, cache>>
    BY DEF Settle
  <1>6. TypeOK' /\ Owned' /\ Stored \subseteq Stored'
    BY <1>0, <1>2, <1>3, <1>5 DEF TypeOK, CacheInv, Owned, Stored, Settle
  <1>7. CacheOK'
    <2> SUFFICES ASSUME NEW k \in Keys, cache[k] # None
                 PROVE  cache[k].response.tx # None /\ Good(cache[k].by, cache[k].response)'
      BY <1>5 DEF CacheOK
    <2>1. cache[k].response.tx # None /\ Good(cache[k].by, cache[k].response)
      BY DEF CacheInv, CacheOK
    <2> QED
      BY <1>4, <1>5, <2>1 DEF Good, Stored, RowsGrow
  <1>8. FirstOnce'
    BY <1>5, <1>6 DEF CacheInv, FirstOnce, First
  <1>9. ASSUME NEW c \in Client PROVE ClientOK(c)'
    <2>1. ClientOK(c)
      BY DEF CacheInv
    <2> QED
      BY <2>1, <1>4, <1>5 DEF ClientOK, Succeeded, Good, AsCached, Stored, RowsGrow
  <1> QED
    BY <1>6, <1>7, <1>8, <1>9 DEF CacheInv

LEMMA GetKeepsInv ==
  ASSUME CacheInv, NEW c \in Client, Get(c)
  PROVE  CacheInv'
  <1> DEFINE e == answer[c].tx
  <1>0. TypeOK /\ ClientOK(c) /\ answer[c] \in Answer /\ answer[c].status = "PENDING_REFERENCE"
    BY DEF CacheInv, Get, TypeOK
  <1>1. e # None
    BY <1>0, Names DEF Answer
  <1>2. e \in Stored /\ rows[e] \in Row
    BY <1>0, <1>1 DEF ClientOK, Succeeded, Good, Stored, TypeOK
  <1>3. seen' \in [Client -> Status \cup {None}]
    BY <1>0, <1>2 DEF Get, Row, TypeOK
  <1>4. /\ UNCHANGED <<sent, pc, held, answer, rows, cache>>
        /\ seen'[c] = rows[e].status
        /\ \A d \in Client : d # c => seen'[d] = seen[d]
    BY <1>0 DEF Get, TypeOK
  <1>5. TypeOK' /\ Owned' /\ CacheOK' /\ RowsGrow /\ CacheGrows
    BY <1>0, <1>3, <1>4 DEF TypeOK, CacheInv, Owned, CacheOK, Good, Stored, RowsGrow, CacheGrows
  <1>6. ClientOK(c)'
    BY <1>0, <1>1, <1>4 DEF ClientOK, Succeeded, Good, AsCached, Stored
  <1>7. \A f \in Exts : First(c, f)' => First(c, f)
    BY <1>4 DEF First
  <1> QED
    BY <1>4, <1>5, <1>6, <1>7, StepOfClient

-----------------------------------------------------------------------------
LEMMA InitCacheInv == Init => CacheInv
  <1> SUFFICES ASSUME Init PROVE CacheInv
    OBVIOUS
  <1>1. TypeOK
    BY Responses DEF Init, TypeOK
  <1>2. \A c \in Client : held[c].tx = None /\ answer[c].tx = None /\ seen[c] \notin Terminal /\ pc[c] = "idle"
    BY Responses, ConstantsAssumption DEF Init, Status
  <1>3. Owned /\ CacheOK
    BY DEF Init, Owned, CacheOK, Stored
  <1>4. FirstOnce
    BY <1>2, Names DEF FirstOnce, First
  <1>5. \A c \in Client : ClientOK(c)
    BY <1>2 DEF ClientOK, Succeeded
  <1> QED
    BY <1>1, <1>3, <1>4, <1>5 DEF CacheInv

LEMMA NextCacheInv == CacheInv /\ [Next]_vars => CacheInv'
  <1> SUFFICES ASSUME CacheInv, [Next]_vars PROVE CacheInv'
    OBVIOUS
  <1>1. CASE UNCHANGED vars
    BY <1>1 DEF vars, CacheInv, TypeOK, Owned, CacheOK, FirstOnce, First, ClientOK, Succeeded,
       Good, AsCached, Stored
  <1>2. ASSUME NEW c \in Client PROVE TypeOK /\ held[c] \in Answer /\ answer[c] \in Answer /\ ClientOK(c)
    BY DEF CacheInv, TypeOK
  <1>3. ASSUME NEW c \in Client, Send(c) PROVE CacheInv'
    <2>1. PICK i \in Inputs : sent' = [sent EXCEPT ![c] = i]
      BY <1>3 DEF Send
    <2>2. held[c].tx = None /\ answer[c].tx = None /\ pc[c] = "idle"
      BY <1>2, <1>3 DEF Send, ClientOK, Succeeded
    <2>3. /\ held' = [held EXCEPT ![c] = held[c]] /\ answer' = [answer EXCEPT ![c] = answer[c]]
          /\ pc' = [pc EXCEPT ![c] = "lookup"] /\ UNCHANGED <<seen, rows, cache>>
      BY <1>2, <1>3 DEF Send, Go, TypeOK
    <2> QED
      BY <1>2, <2>1, <2>2, <2>3, Quiet
  <1>4. ASSUME NEW c \in Client, Resend(c) PROVE CacheInv'
    <2>1. held[c].tx = None /\ answer[c].tx = None /\ pc[c] = "failed" /\ sent[c] \in Inputs
      BY <1>2, <1>4 DEF Resend, ClientOK, Succeeded, TypeOK
    <2>2. /\ held' = [held EXCEPT ![c] = held[c]] /\ answer' = [answer EXCEPT ![c] = answer[c]]
          /\ sent' = [sent EXCEPT ![c] = sent[c]]
          /\ pc' = [pc EXCEPT ![c] = "lookup"] /\ UNCHANGED <<seen, rows, cache>>
      BY <1>2, <1>4 DEF Resend, Go, TypeOK
    <2> QED
      BY <1>2, <2>1, <2>2, Quiet
  <1>5. ASSUME NEW c \in Client, Fail(c) PROVE CacheInv'
    <2>1. answer[c].tx = None /\ pc[c] \in {"lookup", "execute", "save", "reply"} /\ sent[c] \in Inputs
      BY <1>2, <1>5 DEF Fail, ClientOK, Succeeded, TypeOK
    <2>2. /\ held' = [held EXCEPT ![c] = Refused("NONE")] /\ answer' = [answer EXCEPT ![c] = answer[c]]
          /\ sent' = [sent EXCEPT ![c] = sent[c]]
          /\ pc' = [pc EXCEPT ![c] = "failed"] /\ UNCHANGED <<seen, rows, cache>>
      BY <1>2, <1>5 DEF Fail, Go, Hold, TypeOK
    <2> QED
      BY <1>2, <2>1, <2>2, Quiet, Responses
  <1> QED
    BY <1>1, <1>3, <1>4, <1>5, LookupKeepsInv, ExecuteKeepsInv, SaveKeepsInv, ReplyKeepsInv,
       GetKeepsInv, SettleKeepsInv DEF Next, Handle

LEMMA CacheInvHolds == Spec => []CacheInv
  BY InitCacheInv, NextCacheInv, PTL DEF Spec

-----------------------------------------------------------------------------
\* The types of the variables, for any number of clients and submissions.
THEOREM TypeCorrect == Spec => []TypeOK
  <1>1. CacheInv => TypeOK
    BY DEF CacheInv
  <1> QED
    BY <1>1, CacheInvHolds, PTL

\* Two clients that used one key and got an answer got the same answer: an answer is the
\* cached response of its key, and a response, once cached, is never replaced.
THEOREM KeysHaveOneAnswer == Spec => []OneAnswerPerKey
  <1>1. CacheInv => OneAnswerPerKey
    BY DEF CacheInv, ClientOK, AsCached, OneAnswerPerKey
  <1> QED
    BY <1>1, CacheInvHolds, PTL

\* An answer is about a stored transaction with the client's own identifier and payload,
\* and what it, or a GET after it, says of a settled one stays true.
THEOREM AnswersAreTrue == Spec => []AnswerMatchesRow
  <1>1. CacheInv => AnswerMatchesRow
    BY DEF CacheInv, ClientOK, Good, AnswerMatchesRow
  <1> QED
    BY <1>1, CacheInvHolds, PTL

\* Only the request that stored a transaction can be told that it was the first, and one
\* that dies before it has its answer takes that with it.
THEOREM FirstIsToldOnce == Spec => []FirstAnswerOnce
  <1>1. CacheInv => FirstAnswerOnce
    <2> SUFFICES ASSUME CacheInv, NEW c \in Client, NEW d \in Client,
                        Succeeded(c), ~answer[c].replay, Succeeded(d), ~answer[d].replay,
                        answer[c].tx = answer[d].tx
                 PROVE  c = d
      BY DEF FirstAnswerOnce
    <2>1. answer[c].tx \in Exts
      BY Names DEF CacheInv, TypeOK, Succeeded
    <2> QED
      BY <2>1 DEF CacheInv, FirstOnce, First
  <1> QED
    BY <1>1, CacheInvHolds, PTL
=============================================================================
