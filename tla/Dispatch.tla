------------------------------ MODULE Dispatch ------------------------------
(***************************************************************************)
(* The worker binary: internal/application/dispatch on top of the delivery *)
(* rows in PostgreSQL and of the NOTIFICATIONS stream in NATS JetStream.   *)
(*                                                                         *)
(* Every worker process subscribes once per consumer name "worker-i"; each *)
(* name is a durable consumer of its own, so EVERY durable is offered      *)
(* every message, and the processes share the messages of one durable.     *)
(* A handler is one subscription callback <<process, durable>>; it handles *)
(* one message at a time.  Every call to the store, to the provider or to  *)
(* the broker is a step of its own: between two of them any other handler  *)
(* may run, and the process may die.                                       *)
(***************************************************************************)
EXTENDS Notification, Sequences, FiniteSets

CONSTANTS
  Deliveries,   \* delivery ids
  Unrouted,     \* the deliveries whose channel has no registered provider
  Processes,    \* worker containers
  Durables,     \* consumer names worker-0 .. worker-(WORKER_CONCURRENCY-1)
  MaxPublish,   \* how often the outbox may publish one delivery (at least once)
  MaxAttempts,  \* MAX_RETRY_ATTEMPTS
  MaxDeliver,   \* NATS_MAX_DELIVER, per durable and message
  Limit         \* how many faults of each kind a behaviour may contain

FaultKinds == {"crash", "store", "ackwait"}

ASSUME DispatchAssumption ==
  /\ Deliveries # {} /\ Unrouted \subseteq Deliveries
  /\ MaxPublish \in Nat \ {0}
  /\ MaxAttempts \in Nat \ {0}
  /\ MaxDeliver \in Nat \ {0}
  /\ Limit \in [FaultKinds -> Nat]

Handlers == Processes \X Durables
Messages == Deliveries \X (1..MaxPublish)

VARIABLES
  row,         \* deliveries table: [Deliveries -> Rows]
  attempts,    \* delivery_attempts table, in insertion order
  audit,       \* audit_events table: the event types present
  stream,      \* the messages published to NOTIFICATIONS
  delivered,   \* JetStream: how often a durable was handed a message
  pending,     \* JetStream: handed out, neither acked nor naked nor timed out
  acked,       \* JetStream: acknowledged, never redelivered
  deadLetters, \* deliveries with a message on the DLQ stream
  pc,          \* where each handler is
  msg,         \* the message a handler works on
  local,       \* the handler's copy `d` of the row
  accepted,    \* history: how often a provider accepted the delivery
  calls,       \* history: how often a provider was called for it
  used         \* how many faults of each kind have happened

store == <<row, attempts, audit>>
jetstream == <<stream, delivered, pending, acked>>
history == <<accepted, calls>>
vars == <<row, attempts, audit, stream, delivered, pending, acked,
          deadLetters, pc, msg, local, accepted, calls, used>>

Locations ==
  {"idle", "find", "claim", "admit", "send",
   "okUpdate", "okAttempt", "okAudit",
   "retryUpdate", "retryAttempt", "retryAudit",
   "dlqAttempt", "dlqUpdate", "dlqPublish", "dlqAudit", "ack", "nak"}

AttemptRows == [number : Nat, success : BOOLEAN]
Events == {"DispatchSucceeded", "DispatchFailed", "NotificationMovedToDLQ",
           "NotificationReplayed"}

\* One type invariant: also bounds retry_count by the cap, which the code
\* compares before it increments, and the durable's delivery count by
\* NATS_MAX_DELIVER.
TypeOK ==
  /\ row \in [Deliveries -> [status : Statuses, retry : 0..(MaxAttempts - 1)]]
  /\ attempts \in [Deliveries -> Seq(AttemptRows)]
  /\ audit \in [Deliveries -> SUBSET Events]
  /\ stream \subseteq Messages
  /\ delivered \in [Durables -> [Messages -> 0..MaxDeliver]]
  /\ pending \in [Durables -> SUBSET Messages]
  /\ acked \in [Durables -> SUBSET Messages]
  /\ deadLetters \subseteq Deliveries
  /\ pc \in [Handlers -> Locations]
  /\ msg \in [Handlers -> Messages]
  /\ local \in [Handlers -> [status : Statuses, retry : 0..(MaxAttempts - 1)]]
  /\ accepted \in [Deliveries -> Nat]
  /\ calls \in [Deliveries -> Nat]
  /\ used \in [FaultKinds -> Nat]

Init ==
  /\ row = [d \in Deliveries |-> Queue(NewRow)]
  /\ attempts = [d \in Deliveries |-> <<>>]
  /\ audit = [d \in Deliveries |-> {}]
  /\ stream = {}
  /\ delivered = [c \in Durables |-> [m \in Messages |-> 0]]
  /\ pending = [c \in Durables |-> {}]
  /\ acked = [c \in Durables |-> {}]
  /\ deadLetters = {}
  /\ pc = [h \in Handlers |-> "idle"]
  /\ msg = [h \in Handlers |-> CHOOSE m \in Messages : TRUE]
  /\ local = [h \in Handlers |-> NewRow]
  /\ accepted = [d \in Deliveries |-> 0]
  /\ calls = [d \in Deliveries |-> 0]
  /\ used = [k \in FaultKinds |-> 0]

-----------------------------------------------------------------------------
(* Control of a handler, faults.                                           *)

Durable(h) == h[2]
Work(h) == msg[h][1]

Goto(h, l) == pc' = [pc EXCEPT ![h] = l]

Spend(k) ==
  /\ used[k] < Limit[k]
  /\ used' = [used EXCEPT ![k] = @ + 1]

\* A call to the store that took effect: the handler goes on, or the reply is
\* lost (or the context is cancelled by a shutdown) and it returns the error.
Returns(h, l) ==
  \/ Goto(h, l) /\ UNCHANGED used
  \/ Goto(h, "nak") /\ Spend("store")

StoreCalls ==
  {"find", "claim", "okUpdate", "okAttempt", "okAudit", "retryUpdate",
   "retryAttempt", "dlqAttempt", "dlqUpdate", "dlqAudit"}

\* A call to the store that failed without effect: `return err`, so Nak.
StoreError(h) ==
  /\ pc[h] \in StoreCalls
  /\ Goto(h, "nak")
  /\ Spend("store")
  /\ UNCHANGED <<store, jetstream, deadLetters, msg, local, history>>

\* The process dies: its handlers lose everything; the messages they held
\* stay pending until AckWait runs out.  The container is restarted.
Crash(p) ==
  /\ \E c \in Durables : pc[<<p, c>>] # "idle"
  /\ pc' = [h \in Handlers |-> IF h[1] = p THEN "idle" ELSE pc[h]]
  /\ Spend("crash")
  /\ UNCHANGED <<store, jetstream, deadLetters, msg, local, history>>

-----------------------------------------------------------------------------
(* The broker.                                                             *)

\* The outbox publisher hands a message to the stream; at least once.
Publish(m) ==
  /\ m \notin stream
  /\ stream' = stream \cup {m}
  /\ UNCHANGED <<store, delivered, pending, acked, deadLetters, pc, msg,
                 local, history, used>>

Deliverable(c) ==
  {m \in stream \ (acked[c] \cup pending[c]) : delivered[c][m] < MaxDeliver}

Held(c, m) ==
  \E p \in Processes : pc[<<p, c>>] # "idle" /\ msg[<<p, c>>] = m

\* Consume hands a message to an idle subscription of the durable.
Receive(h) ==
  /\ pc[h] = "idle"
  /\ \E m \in Deliverable(Durable(h)) :
       /\ msg' = [msg EXCEPT ![h] = m]
       /\ pending' = [pending EXCEPT ![Durable(h)] = @ \cup {m}]
       /\ delivered' = [delivered EXCEPT ![Durable(h)][m] = @ + 1]
  /\ Goto(h, "find")
  /\ UNCHANGED <<store, stream, acked, deadLetters, local, history, used>>

\* handlerErr = nil: msg.Ack().
Ack(h) ==
  /\ pc[h] = "ack"
  /\ acked' = [acked EXCEPT ![Durable(h)] = @ \cup {msg[h]}]
  /\ pending' = [pending EXCEPT ![Durable(h)] = @ \ {msg[h]}]
  /\ Goto(h, "idle")
  /\ UNCHANGED <<store, stream, delivered, deadLetters, msg, local, history,
                 used>>

\* handlerErr # nil: msg.Nak(), an immediate redelivery while the durable's
\* count is below MaxDeliver.
Nak(h) ==
  /\ pc[h] = "nak"
  /\ pending' = [pending EXCEPT ![Durable(h)] = @ \ {msg[h]}]
  /\ Goto(h, "idle")
  /\ UNCHANGED <<store, stream, delivered, acked, deadLetters, msg, local,
                 history, used>>

\* AckWait runs out.  It always does once nobody works on the message; while
\* a handler still does (a slow provider or store) it is a fault.
AckWait(c, m) ==
  /\ m \in pending[c]
  /\ IF Held(c, m) THEN Spend("ackwait") ELSE UNCHANGED used
  /\ pending' = [pending EXCEPT ![c] = @ \ {m}]
  /\ UNCHANGED <<store, stream, delivered, acked, deadLetters, pc, msg,
                 local, history>>

-----------------------------------------------------------------------------
(* Service.Dispatch.                                                       *)

\* Where Dispatch goes on after it has read the row.
Entry(r) ==
  IF Settled(r) THEN "ack"
  ELSE IF CanStartProcessing(r) THEN "claim" ELSE "nak"

FindByID(h) ==
  /\ pc[h] = "find"
  /\ local' = [local EXCEPT ![h] = row[Work(h)]]
  /\ Goto(h, Entry(row[Work(h)]))
  /\ UNCHANGED <<store, jetstream, deadLetters, msg, history, used>>

\* Mutant: the claim is a plain UPDATE.
StatusMatches_Plain(r, d) == TRUE

\* UPDATE ... WHERE id = $1 AND status = $6
StatusMatches(r, d) == r.status = d.status

\* UpdateIfStatus: the compare-and-swap that claims the delivery.  It writes
\* the retry_count of the handler's copy.  The loser acknowledges.
UpdateIfStatus(h) ==
  /\ pc[h] = "claim"
  /\ \/ /\ StatusMatches(row[Work(h)], local[h])
        /\ row' = [row EXCEPT ![Work(h)] = StartProcessing(local[h])]
        /\ local' = [local EXCEPT ![h] = StartProcessing(@)]
        /\ Returns(h, "admit")
     \/ /\ ~StatusMatches(row[Work(h)], local[h])
        /\ Goto(h, "ack")
        /\ UNCHANGED <<row, local, used>>
  /\ UNCHANGED <<attempts, audit, jetstream, deadLetters, msg, history>>

\* Mutants: the cap is off by one; the attempt of the last try is not recorded.
OnTransient_OffByOne(r) ==
  IF r.retry + 1 > MaxAttempts THEN "dlqAttempt" ELSE "retryUpdate"
OnTransient_Unrecorded(r) ==
  IF r.retry + 1 >= MaxAttempts THEN "dlqUpdate" ELSE "retryUpdate"

\* handleFailure's branch for a transient error.
OnTransient(r) ==
  IF r.retry + 1 >= MaxAttempts THEN "dlqAttempt" ELSE "retryUpdate"

\* Mutant: an open breaker returns ErrTransient without handleFailure.
Admit_Returns(h) ==
  /\ pc[h] = "admit"
  /\ \/ Work(h) \in Unrouted /\ Goto(h, "dlqUpdate")
     \/ Work(h) \notin Unrouted /\ Goto(h, "send")
     \/ Work(h) \notin Unrouted /\ Goto(h, "nak")
  /\ UNCHANGED <<store, jetstream, deadLetters, msg, local, history, used>>

\* The provider lookup and breaker.Allow.  The breaker is a component of its
\* own (CircuitBreaker); here it may refuse any call.
Admit(h) ==
  /\ pc[h] = "admit"
  /\ \/ Work(h) \in Unrouted /\ Goto(h, "dlqUpdate")
     \/ Work(h) \notin Unrouted /\ Goto(h, "send")
     \/ Work(h) \notin Unrouted /\ Goto(h, OnTransient(local[h]))
  /\ UNCHANGED <<store, jetstream, deadLetters, msg, local, history, used>>

\* provider.Send returns a result, a transient or a permanent error.
Send(h) ==
  /\ pc[h] = "send"
  /\ calls' = [calls EXCEPT ![Work(h)] = @ + 1]
  /\ \/ /\ accepted' = [accepted EXCEPT ![Work(h)] = @ + 1]
        /\ Goto(h, "okUpdate")
     \/ Goto(h, OnTransient(local[h])) /\ UNCHANGED accepted
     \/ Goto(h, "dlqAttempt") /\ UNCHANGED accepted
  /\ UNCHANGED <<store, jetstream, deadLetters, msg, local, used>>

\* deliveries.Update: writes the handler's copy WITHOUT a status condition.
Update(h, r, l) ==
  /\ row' = [row EXCEPT ![Work(h)] = r]
  /\ local' = [local EXCEPT ![h] = r]
  /\ Returns(h, l)
  /\ UNCHANGED <<attempts, audit, jetstream, deadLetters, msg, history>>

UpdateSucceeded(h) ==
  pc[h] = "okUpdate" /\ Update(h, MarkSucceeded(local[h]), "okAttempt")

UpdateRetrying(h) ==
  pc[h] = "retryUpdate" /\ Update(h, MarkRetrying(local[h]), "retryAttempt")

UpdateDLQ(h) ==
  pc[h] = "dlqUpdate" /\ Update(h, MarkDLQ(local[h]), "dlqPublish")

\* The attempt row: Success is set by MarkSucceeded on its own copy of the
\* attempt only, so the row that is written always says FALSE.
AttemptRow(n) == [number |-> n, success |-> FALSE]

RecordAttempt(h, n, l) ==
  /\ attempts' = [attempts EXCEPT ![Work(h)] = Append(@, AttemptRow(n))]
  /\ Returns(h, l)
  /\ UNCHANGED <<row, audit, jetstream, deadLetters, msg, local, history>>

\* Where the three callers of RecordAttempt go on.  Retrying has already
\* incremented the copy's retry_count, the attempt's number has not.
RecordSuccess(h) ==
  pc[h] = "okAttempt" /\ RecordAttempt(h, local[h].retry + 1, "okAudit")

RecordRetry(h) ==
  pc[h] = "retryAttempt" /\ RecordAttempt(h, local[h].retry, "retryAudit")

RecordDLQ(h) ==
  pc[h] = "dlqAttempt" /\ RecordAttempt(h, local[h].retry + 1, "dlqUpdate")

AppendAudit(h, e) ==
  /\ audit' = [audit EXCEPT ![Work(h)] = @ \cup {e}]
  /\ UNCHANGED <<row, attempts, jetstream, deadLetters, msg, local, history>>

AuditSucceeded(h) ==
  pc[h] = "okAudit" /\ AppendAudit(h, "DispatchSucceeded") /\ Returns(h, "ack")

AuditDLQ(h) ==
  /\ pc[h] = "dlqAudit"
  /\ AppendAudit(h, "NotificationMovedToDLQ")
  /\ Returns(h, "ack")

\* Mutant: handleFailure returns nil.
RetryResult_Nil == "ack"

\* handleFailure returns ErrTransient.
RetryResult == "nak"

\* The audit error is ignored here.
AuditRetry(h) ==
  /\ pc[h] = "retryAudit"
  /\ Goto(h, RetryResult)
  /\ \/ AppendAudit(h, "DispatchFailed") /\ UNCHANGED used
     \/ Spend("store") /\ UNCHANGED <<store, jetstream, deadLetters, msg,
                                      local, history>>

\* broker.Publish on dlq.<channel>: a failure is logged and forgotten.
PublishDLQ(h) ==
  /\ pc[h] = "dlqPublish"
  /\ Goto(h, "dlqAudit")
  /\ \/ deadLetters' = deadLetters \cup {Work(h)} /\ UNCHANGED used
     \/ Spend("store") /\ UNCHANGED deadLetters
  /\ UNCHANGED <<store, jetstream, msg, local, history>>

-----------------------------------------------------------------------------

Step(h) ==
  \/ Receive(h) \/ Ack(h) \/ Nak(h)
  \/ FindByID(h) \/ UpdateIfStatus(h) \/ Admit(h) \/ Send(h)
  \/ UpdateSucceeded(h) \/ UpdateRetrying(h) \/ UpdateDLQ(h)
  \/ RecordSuccess(h) \/ RecordRetry(h) \/ RecordDLQ(h)
  \/ AuditSucceeded(h) \/ AuditRetry(h) \/ AuditDLQ(h)
  \/ PublishDLQ(h)

Next ==
  \/ \E m \in Messages : Publish(m)
  \/ \E h \in Handlers : Step(h)
  \/ \E h \in Handlers : StoreError(h)
  \/ \E p \in Processes : Crash(p)
  \/ \E c \in Durables, m \in Messages : AckWait(c, m)

Spec == Init /\ [][Next]_vars

\* A handler that can go on does, the outbox publishes what it holds, and
\* JetStream's AckWait timer fires for a message nobody works on.
Fairness ==
  /\ \A h \in Handlers : WF_vars(Step(h))
  /\ \A m \in Messages : WF_vars(Publish(m))
  /\ \A c \in Durables, m \in Messages :
       WF_vars(~Held(c, m) /\ AckWait(c, m))

FairSpec == Spec /\ Fairness
-----------------------------------------------------------------------------
(* Properties.                                                             *)

\* The locations between a won claim and the Update that closes it.
Claimed == {"admit", "send", "okUpdate", "retryUpdate", "dlqAttempt",
            "dlqUpdate"}

\* UpdateIfStatus is a lock: at most one handler of all processes and durables
\* is between its claim and its closing Update for one delivery, and meanwhile
\* nobody has changed the row under it, so the unconditional Update that
\* closes the claim overwrites nothing but its own "processing".
ClaimExclusive ==
  \A h \in Handlers : pc[h] \in Claimed =>
    /\ row[Work(h)].status = "processing"
    /\ row[Work(h)].retry = local[h].retry
    /\ \A g \in Handlers \ {h} : pc[g] \in Claimed => Work(g) # Work(h)

\* Effectively once: whatever is redelivered, published twice, timed out or
\* interrupted by a crash, no delivery is accepted by a provider twice.
EffectivelyOnce == \A d \in Deliveries : accepted[d] <= 1

\* The row never contradicts the provider: "succeeded" only after it accepted
\* the delivery, and never "retrying" or "dlq" (which offer it for another
\* send or a replay) after it did.
OutcomeAgrees ==
  \A d \in Deliveries :
    /\ row[d].status = "succeeded" => accepted[d] > 0
    /\ row[d].status \in {"queued", "retrying", "dlq"} => accepted[d] = 0

\* A delivery in `dlq` whose channel has a provider has an attempt on record,
\* even if the worker dies half way: moveToDLQ records it before it updates
\* the row (the success and retry paths do it the other way round).
DLQHasAttempt ==
  \A d \in Deliveries \ Unrouted :
    row[d].status = "dlq" => attempts[d] # <<>>

\* A claim is left behind only by a worker that died or by a failed call to the
\* store: every other way out of Dispatch closes it.  (Nothing takes up a
\* delivery left in `processing`: Dispatch naks it until MaxDeliver.)
OrphanHasCause ==
  \A d \in Deliveries :
    row[d].status = "processing" =>
      \/ \E h \in Handlers : pc[h] \in Claimed /\ Work(h) = d
      \/ used["crash"] + used["store"] > 0

\* Losing the claim acknowledges the message (`return nil`), so some durable
\* must still hold a copy that is not acknowledged until the delivery is
\* settled: the losers' acknowledgements never add up to all of them, through
\* crashes and failing calls.  (It needs one process per durable: two of them
\* may hold the same copy when AckWait runs out early.)
NotAbandoned ==
  \A d \in Deliveries :
    ~Settled(row[d]) =>
      \A m \in stream : m[1] = d =>
        \E c \in Durables, n \in stream : n[1] = d /\ n \notin acked[c]

\* The worker implements the life cycle of a delivery.
DeliveryLifecycle ==
  INSTANCE Lifecycle WITH status <- [d \in Deliveries |-> row[d].status],
                          sent <- accepted
ImplementsLifecycle == DeliveryLifecycle!Spec

\* Every delivery ends in `succeeded` or `dlq`: the retry budget and the
\* redelivery budget of the broker fit together.
Settles == \A d \in Deliveries : <>[](Settled(row[d]))
=============================================================================
