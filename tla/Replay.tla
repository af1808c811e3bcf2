------------------------------- MODULE Replay -------------------------------
(***************************************************************************)
(* POST /v1/notifications/{id}/replay (internal/adapters/http, application *)
(* /replay and Service.ReplayDelivery of application/dispatch) running in  *)
(* the API beside the workers of Dispatch.  The API has its own copy of    *)
(* the row, writes it back without a condition, and publishes straight to  *)
(* NATS: the outbox is not involved.                                       *)
(***************************************************************************)
EXTENDS Dispatch

CONSTANTS
  Callers,     \* concurrent replay requests
  MaxReplays   \* how many replays a behaviour may start

ASSUME ReplayAssumption == MaxReplays \in Nat

VARIABLES
  rpc,      \* where each request is
  target,   \* the delivery it replays
  replays   \* how many requests got past the status check

rvars == <<rpc, target, replays>>
allVars == <<vars, rvars>>

ReplayTypeOK ==
  /\ TypeOK
  /\ rpc \in [Callers -> {"idle", "update", "publish", "audit"}]
  /\ target \in [Callers -> Deliveries]
  /\ replays \in 0..MaxReplays

ReplayInit ==
  /\ Init
  /\ rpc = [o \in Callers |-> "idle"]
  /\ target = [o \in Callers |-> CHOOSE d \in Deliveries : TRUE]
  /\ replays = 0

\* The row ReplayDelivery writes: d.Replay and then RetryCount = 0.
ReplayedRow == Replay(NewRow)

\* FindByID and d.Replay: any status but dlq and failed is an error.
ReplayFind(o, d) ==
  /\ rpc[o] = "idle"
  /\ replays < MaxReplays
  /\ CanReplay(row[d])
  /\ rpc' = [rpc EXCEPT ![o] = "update"]
  /\ target' = [target EXCEPT ![o] = d]
  /\ replays' = replays + 1
  /\ UNCHANGED vars

\* A call of the request that took effect: go on, or answer 500.
Answers(o, l) ==
  \/ rpc' = [rpc EXCEPT ![o] = l] /\ UNCHANGED used
  \/ rpc' = [rpc EXCEPT ![o] = "idle"] /\ Spend("store")

\* Mutant: the row is requeued and nothing is published.
ReplayUpdate_Unpublished(o) ==
  /\ rpc[o] = "update"
  /\ row' = [row EXCEPT ![target[o]] = ReplayedRow]
  /\ Answers(o, "audit")
  /\ UNCHANGED <<attempts, audit, jetstream, deadLetters, pc, msg, local,
                 history, target, replays>>

ReplayUpdate(o) ==
  /\ rpc[o] = "update"
  /\ row' = [row EXCEPT ![target[o]] = ReplayedRow]
  /\ Answers(o, "publish")
  /\ UNCHANGED <<attempts, audit, jetstream, deadLetters, pc, msg, local,
                 history, target, replays>>

ReplayPublish(o) ==
  /\ rpc[o] = "publish"
  /\ \E i \in 1..MaxPublish :
       <<target[o], i>> \notin stream /\ stream' = stream \cup {<<target[o], i>>}
  /\ Answers(o, "audit")
  /\ UNCHANGED <<store, delivered, pending, acked, deadLetters, pc, msg,
                 local, history, target, replays>>

ReplayAudit(o) ==
  /\ rpc[o] = "audit"
  /\ audit' = [audit EXCEPT ![target[o]] = @ \cup {"NotificationReplayed"}]
  /\ rpc' = [rpc EXCEPT ![o] = "idle"]
  /\ UNCHANGED <<row, attempts, jetstream, deadLetters, pc, msg, local,
                 history, used, target, replays>>

\* A call that failed without effect (answer 500), or the API dies.
ReplayStops(o) ==
  /\ rpc[o] # "idle"
  /\ rpc' = [rpc EXCEPT ![o] = "idle"]
  /\ Spend("store") \/ Spend("crash")
  /\ UNCHANGED <<store, jetstream, deadLetters, pc, msg, local, history,
                 target, replays>>

ReplayStep(o) ==
  \/ \E d \in Deliveries : ReplayFind(o, d)
  \/ ReplayUpdate(o) \/ ReplayPublish(o) \/ ReplayAudit(o)

ReplayNext ==
  \/ Next /\ UNCHANGED rvars
  \/ \E o \in Callers : ReplayStep(o) \/ ReplayStops(o)

ReplaySpec == ReplayInit /\ [][ReplayNext]_allVars

-----------------------------------------------------------------------------
(* Properties.                                                             *)

\* A queued delivery whose first message is out is offered to some worker, or
\* its replay is about to publish: while no call fails a replay never strands
\* it, although old copies of its messages are acked, exhausted or held.  (A
\* replay whose publish fails does: the row is `queued`, nothing is sent.)
QueuedIsOffered ==
  (\A k \in FaultKinds : used[k] = 0) =>
    \A d \in Deliveries :
      /\ row[d].status = "queued"
      /\ \E m \in stream : m[1] = d
      /\ \A o \in Callers : ~(rpc[o] = "publish" /\ target[o] = d)
      => \E c \in Durables, m \in stream :
           m[1] = d /\ m \in Deliverable(c) \cup pending[c]

\* Replays, one at a time, keep every send unique: the row can only leave
\* "dlq" through the replay itself, so the request's copy is never stale.
OneReplayIsSafe == EffectivelyOnce /\ OutcomeAgrees /\ ClaimExclusive
=============================================================================
