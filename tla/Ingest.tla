------------------------------- MODULE Ingest -------------------------------
(***************************************************************************)
(* POST /v1/notifications: Server.handleIngest, ingest.Service.Ingest and  *)
(* Store.IngestTransactional.  A key stands for an (idempotency_key,       *)
(* channel) pair.  The transaction is one step: it inserts the delivery,   *)
(* the key, an outbox or a scheduled row and the audit event, or nothing;  *)
(* the primary key of idempotency_keys makes concurrent transactions with  *)
(* the same key wait for each other.                                       *)
(***************************************************************************)
EXTENDS Notification

CONSTANTS
  Keys,         \* (idempotency key, channel) pairs
  Ids,          \* delivery ids uuid.NewString may return
  Clients,      \* concurrent requests
  MaxRequests,  \* how many requests a behaviour may contain
  MaxFaults,    \* how many calls to the store may fail
  NoId          \* no row in idempotency_keys

ASSUME IngestAssumption ==
  /\ MaxRequests \in Nat /\ MaxFaults \in Nat
  /\ Keys # {} /\ NoId \notin Ids

VARIABLES
  rows,      \* deliveries: the ids that exist, with their key and status
  keyOf,     \* idempotency_keys: the delivery a key is registered for
  expired,   \* the keys with expires_at <= NOW()
  boxed,     \* deliveries with an outbox row
  planned,   \* deliveries with a scheduled_notifications row
  received,  \* deliveries with a NotificationReceived audit event
  cpc,       \* where each request is
  req,       \* its key, and whether scheduled_at lies in the future
  answers,   \* history: what was answered
  requests, faults

vars == <<rows, keyOf, expired, boxed, planned, received, cpc, req, answers,
          requests, faults>>

tables == <<rows, keyOf, boxed, planned, received>>

\* The requests Validate lets through: what the rest of the code tells apart.
Requests == [key : Keys, later : BOOLEAN]

DeliveryRows == [id : Ids, key : Keys, status : Statuses]
Answers == [key : Keys, id : Ids \cup {NoId}, kind : {"accepted", "duplicate", "error"}]

TypeOK ==
  /\ rows \subseteq DeliveryRows
  /\ keyOf \in [Keys -> Ids \cup {NoId}]
  /\ expired \subseteq Keys
  /\ boxed \subseteq Ids /\ planned \subseteq Ids /\ received \subseteq Ids
  /\ cpc \in [Clients -> {"idle", "lookup", "insert", "again"}]
  /\ req \in [Clients -> Requests]
  /\ answers \subseteq Answers
  /\ requests \in 0..MaxRequests /\ faults \in 0..MaxFaults

Init ==
  /\ rows = {}
  /\ keyOf = [k \in Keys |-> NoId]
  /\ expired = {}
  /\ boxed = {} /\ planned = {} /\ received = {}
  /\ cpc = [c \in Clients |-> "idle"]
  /\ req = [c \in Clients |-> [key |-> CHOOSE k \in Keys : TRUE, later |-> FALSE]]
  /\ answers = {}
  /\ requests = 0 /\ faults = 0

Key(c) == req[c].key

Answer(c, id, kind) ==
  /\ answers' = answers \cup {[key |-> Key(c), id |-> id, kind |-> kind]}
  /\ cpc' = [cpc EXCEPT ![c] = "idle"]

Goto(c, l) == cpc' = [cpc EXCEPT ![c] = l] /\ UNCHANGED answers

\* A valid, authorised request arrives: new, or a client's retry.
Request(c) ==
  /\ cpc[c] = "idle"
  /\ requests < MaxRequests
  /\ \E r \in Requests : req' = [req EXCEPT ![c] = r]
  /\ Goto(c, "lookup")
  /\ requests' = requests + 1
  /\ UNCHANGED <<tables, expired, faults>>

\* FindByIdempotencyKey: only unexpired keys are found.
Found(k) == keyOf[k] # NoId /\ k \notin expired

\* The fast path: answer 200, or start a transaction.
FastPath(c) ==
  /\ cpc[c] = "lookup"
  /\ \/ Found(Key(c)) /\ Answer(c, keyOf[Key(c)], "duplicate")
     \/ ~Found(Key(c)) /\ Goto(c, "insert")
  /\ UNCHANGED <<tables, expired, req, requests, faults>>

Used == {r.id : r \in rows}

\* Mutant: ON CONFLICT DO UPDATE, the new delivery takes the key over.
Conflict_Never(k) == FALSE

\* ON CONFLICT DO NOTHING, then the registered id differs from the new one;
\* expiry is not looked at here.
Conflict(k) == keyOf[k] # NoId

NewDelivery(id, c) ==
  [id |-> id, key |-> Key(c),
   status |-> IF req[c].later THEN NewRow.status ELSE Queue(NewRow).status]

\* IngestTransactional commits; the answer is 202, or 500 when the reply of
\* the commit is lost.
Commit(c, id) ==
  /\ cpc[c] = "insert"
  /\ ~Conflict(Key(c))
  /\ rows' = rows \cup {NewDelivery(id, c)}
  /\ keyOf' = [keyOf EXCEPT ![Key(c)] = id]
  /\ IF req[c].later
     THEN planned' = planned \cup {id} /\ UNCHANGED boxed
     ELSE boxed' = boxed \cup {id} /\ UNCHANGED planned
  /\ received' = received \cup {id}
  /\ \/ Answer(c, id, "accepted") /\ UNCHANGED faults
     \/ Answer(c, NoId, "error") /\ faults < MaxFaults /\ faults' = faults + 1
  /\ UNCHANGED <<expired, req, requests>>

\* Mutant: ErrDuplicate is passed on like any other error.
RollBack_Error(c) ==
  /\ cpc[c] = "insert"
  /\ Conflict(Key(c))
  /\ Answer(c, NoId, "error")
  /\ UNCHANGED <<tables, expired, req, requests, faults>>

\* ErrDuplicate: the transaction is rolled back.
RollBack(c) ==
  /\ cpc[c] = "insert"
  /\ Conflict(Key(c))
  /\ Goto(c, "again")
  /\ UNCHANGED <<tables, expired, req, requests, faults>>

\* The second lookup, after ErrDuplicate; ErrNotFound is answered with 500.
FindWinner(c) ==
  /\ cpc[c] = "again"
  /\ IF Found(Key(c)) THEN Answer(c, keyOf[Key(c)], "duplicate")
                      ELSE Answer(c, NoId, "error")
  /\ UNCHANGED <<tables, expired, req, requests, faults>>

\* A call to the store fails without effect: 500.
StoreError(c) ==
  /\ cpc[c] # "idle"
  /\ faults < MaxFaults /\ faults' = faults + 1
  /\ Answer(c, NoId, "error")
  /\ UNCHANGED <<tables, expired, req, requests>>

\* IDEMPOTENCY_TTL runs out.  Nothing removes the row.
Expire(k) ==
  /\ Found(k)
  /\ expired' = expired \cup {k}
  /\ UNCHANGED <<tables, cpc, req, answers, requests, faults>>

Next ==
  \/ \E c \in Clients :
       \/ Request(c) \/ FastPath(c) \/ RollBack(c) \/ FindWinner(c) \/ StoreError(c)
       \/ \E id \in Ids \ Used : Commit(c, id)
  \/ \E k \in Keys : Expire(k)

Spec == Init /\ [][Next]_vars

-----------------------------------------------------------------------------
(* Properties.                                                             *)

\* Within its TTL a key has one delivery: concurrent requests create one between
\* them, also when they all miss in the fast path and when the client retries
\* after a lost reply.
OneDeliveryPerKey ==
  \A r, s \in rows : r.key = s.key /\ r.key \notin expired => r.id = s.id

\* Within the TTL all clients are told the same delivery id for a key,
\* and it is that of a committed delivery: a duplicate is never answered with
\* the id of a transaction that rolled back, nor with one that neither the
\* outbox nor the scheduler has.
SameAnswer ==
  \A a \in answers : a.kind # "error" =>
    /\ \E r \in rows :
         /\ r.id = a.id /\ r.key = a.key
         /\ r.id \in (IF r.status = "queued" THEN boxed ELSE planned)
    /\ \A b \in answers : b.kind # "error" /\ b.key = a.key /\ a.key \notin expired
                         => b.id = a.id

\* Losing the race for a key is never the client's problem: ErrDuplicate ends in
\* the winner's id, and a 500 means that a call failed or that the key had
\* expired (its row is not removed, so such a key is refused and not reused).
ErrorHasCause ==
  \A a \in answers : a.kind = "error" => faults > 0 \/ a.key \in expired
=============================================================================
