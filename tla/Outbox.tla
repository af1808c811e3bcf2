------------------------------- MODULE Outbox -------------------------------
(***************************************************************************)
(* The transactional outbox: the `outbox` table (adapters/postgres         *)
(* /outbox_repo.go) and the publishers that move its rows to NATS          *)
(* (application/outbox/publisher.go), one per API instance.  FetchPending  *)
(* runs outside a transaction, so its row locks end with the statement and *)
(* two publishers may hold the same row in their batch.                    *)
(***************************************************************************)
EXTENDS Naturals, Sequences, FiniteSetsExt

CONSTANTS
  Deliveries,   \* delivery ids
  Immediate,    \* the deliveries ingested for immediate dispatch
  Publishers,   \* API instances
  Batch,        \* rows per flush
  Limit         \* how many faults of each kind a behaviour may contain

\* "scheduler" is for the scheduler that shares the table (Scheduler).
FaultKinds == {"crash", "store", "broker", "scheduler"}

ASSUME OutboxAssumption ==
  /\ Immediate \subseteq Deliveries
  /\ IsFiniteSet(Publishers)
  /\ Batch \in Nat \ {0}
  /\ Limit \in [FaultKinds -> Nat]

VARIABLES
  box,     \* the outbox table in id order: [delivery, published, attempts]
  sent,    \* how many messages of a delivery are on the stream
  ppc,     \* where each publisher is
  batch,   \* the row ids it has left to handle
  used     \* how many faults of each kind have happened

ovars == <<box, sent, ppc, batch, used>>

BoxRows == [delivery : Deliveries, published : BOOLEAN, attempts : Nat]

OutboxTypeOK ==
  /\ box \in Seq(BoxRows)
  /\ sent \in [Deliveries -> Nat]
  /\ ppc \in [Publishers -> {"idle", "check", "dup", "publish", "fail", "mark"}]
  /\ batch \in [Publishers -> SUBSET DOMAIN box]
  /\ \A p \in Publishers : ppc[p] = "idle" <=> batch[p] = {}
  /\ used \in [FaultKinds -> Nat]

OutboxInit ==
  /\ box = <<>>
  /\ sent = [d \in Deliveries |-> 0]
  /\ ppc = [p \in Publishers |-> "idle"]
  /\ batch = [p \in Publishers |-> {}]
  /\ used = [k \in FaultKinds |-> 0]

Spend(k) ==
  /\ used[k] < Limit[k]
  /\ used' = [used EXCEPT ![k] = @ + 1]

RowsOf(d) == {i \in DOMAIN box : box[i].delivery = d}

NewBoxRow(d) == [delivery |-> d, published |-> FALSE, attempts |-> 0]

\* The INSERT of IngestTransactional, together with the delivery itself.
Enqueue(d) ==
  /\ d \in Immediate /\ RowsOf(d) = {}
  /\ box' = Append(box, NewBoxRow(d))
  /\ UNCHANGED <<sent, ppc, batch, used>>

\* Mutant: only rows that have not failed yet.
PendingIds_Untried ==
  {i \in DOMAIN box : ~box[i].published /\ box[i].attempts = 0}

PendingIds == {i \in DOMAIN box : ~box[i].published}

\* ORDER BY created_at LIMIT n: row ids are in the order of creation.
FirstOf(S, n) == {i \in S : Cardinality({j \in S : j <= i}) <= n}

FetchPending(p) ==
  /\ ppc[p] = "idle"
  /\ PendingIds # {}
  /\ batch' = [batch EXCEPT ![p] = FirstOf(PendingIds, Batch)]
  /\ ppc' = [ppc EXCEPT ![p] = "check"]
  /\ UNCHANGED <<box, sent, used>>

\* The batch is worked off in the order of its rows.
Current(p) == Min(batch[p])
DeliveryOf(p) == box[Current(p)].delivery

\* On to the next row of the batch, or to the end of flush.
Continue(p) ==
  /\ batch' = [batch EXCEPT ![p] = @ \ {Current(p)}]
  /\ ppc' = [ppc EXCEPT ![p] = IF batch[p] = {Current(p)} THEN "idle" ELSE "check"]

HasPublished(d) == \E i \in RowsOf(d) : box[i].published

HasPublishedForDelivery(p) ==
  /\ ppc[p] = "check"
  /\ ppc' = [ppc EXCEPT ![p] = IF HasPublished(DeliveryOf(p)) THEN "dup" ELSE "publish"]
  /\ UNCHANGED <<box, sent, batch, used>>

\* Mutant: the error of Publish is only logged.
OnPublishError_Logged == "mark"

\* MarkFailed and `continue`.
OnPublishError == "fail"

\* PublishMsg is acknowledged, or reported as failed whether or not the
\* message was stored; a failure is only counted on the row.
Publish(p) ==
  /\ ppc[p] = "publish"
  /\ \/ /\ sent' = [sent EXCEPT ![DeliveryOf(p)] = @ + 1]
        /\ ppc' = [ppc EXCEPT ![p] = "mark"]
        /\ UNCHANGED used
     \/ /\ \/ sent' = [sent EXCEPT ![DeliveryOf(p)] = @ + 1]
           \/ UNCHANGED sent
        /\ ppc' = [ppc EXCEPT ![p] = OnPublishError]
        /\ Spend("broker")
  /\ UNCHANGED <<box, batch>>

MarkFailed(p) ==
  /\ ppc[p] = "fail"
  /\ box' = [box EXCEPT ![Current(p)].attempts = @ + 1]
  /\ Continue(p)
  /\ UNCHANGED <<sent, used>>

\* Mutant: the row is counted instead of marked.
MarkPublished_Counts(p) ==
  /\ ppc[p] \in {"mark", "dup"}
  /\ box' = [box EXCEPT ![Current(p)].attempts = @ + 1]
  /\ Continue(p)
  /\ UNCHANGED <<sent, used>>

\* After a publish, or for the duplicate row of a published delivery.
MarkPublished(p) ==
  /\ ppc[p] \in {"mark", "dup"}
  /\ box' = [box EXCEPT ![Current(p)].published = TRUE]
  /\ Continue(p)
  /\ UNCHANGED <<sent, used>>

\* The check or a Mark fails: logged, and on to the next row.
FlushError(p) ==
  /\ ppc[p] \in {"check", "dup", "fail", "mark"}
  /\ Continue(p)
  /\ Spend("store")
  /\ UNCHANGED <<box, sent>>

\* The API instance dies and is restarted.
PublisherCrash(p) ==
  /\ ppc[p] # "idle"
  /\ ppc' = [ppc EXCEPT ![p] = "idle"]
  /\ batch' = [batch EXCEPT ![p] = {}]
  /\ Spend("crash")
  /\ UNCHANGED <<box, sent>>

Flush(p) ==
  \/ FetchPending(p) \/ HasPublishedForDelivery(p) \/ Publish(p)
  \/ MarkFailed(p) \/ MarkPublished(p)

OutboxNext ==
  \/ \E d \in Deliveries : Enqueue(d)
  \/ \E p \in Publishers : Flush(p) \/ FlushError(p) \/ PublisherCrash(p)

OutboxSpec == OutboxInit /\ [][OutboxNext]_ovars

\* The ticker of Run calls flush again and again, and a step of it ends.
OutboxFairness == \A p \in Publishers : WF_ovars(Flush(p))

FairOutboxSpec == OutboxSpec /\ OutboxFairness

-----------------------------------------------------------------------------
(* Properties.                                                             *)

\* Nothing is dropped at the boundary: a row is marked published only when a
\* message of its delivery is on the stream, also when the row was skipped as
\* a duplicate, a publish failed or the publisher died in between.
PublishedIsSent ==
  \A i \in DOMAIN box : box[i].published => sent[box[i].delivery] > 0

\* Every message beyond the first has a cause: publishers that held the same
\* row at the same time (HasPublishedForDelivery does not keep them apart), or
\* a failed or interrupted flush.  One publisher without faults publishes a
\* delivery once, whatever the batch size and however many rows it has.
DuplicatesHaveACause ==
  \A d \in Deliveries :
    sent[d] <= Cardinality(Publishers) + used["broker"] + used["store"] + used["crash"]

\* At least once: every row that was committed is eventually published, and
\* retired, after the broker, the store and the API have recovered.
RowsAreRetired ==
  \A d \in Deliveries :
    RowsOf(d) # {} ~> sent[d] > 0 /\ \A i \in RowsOf(d) : box[i].published
=============================================================================
