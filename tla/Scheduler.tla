----------------------------- MODULE Scheduler ------------------------------
(***************************************************************************)
(* The scheduler binary (application/scheduler/service.go) beside the      *)
(* outbox publishers: it polls scheduled_notifications, moves a due        *)
(* delivery from `pending` to `queued` and inserts its outbox row.  These  *)
(* are separate statements, not one transaction.  Workers are abstract     *)
(* here: a published, queued delivery gets settled.                        *)
(***************************************************************************)
EXTENDS Outbox, Notification

CONSTANTS
  Scheduled,   \* the deliveries ingested for later, in scheduled_at order
  Schedulers,  \* scheduler processes
  DueBatch     \* rows per tick

ASSUME SchedulerAssumption ==
  /\ Scheduled \in Seq(Deliveries \ Immediate)
  /\ DueBatch \in Nat \ {0}

VARIABLES
  status,      \* status column of the deliveries
  now,         \* how many of the scheduled rows have come due
  processed,   \* scheduled_notifications.processed
  queuedEvents,\* deliveries with a NotificationQueued audit event
  spc,         \* where each scheduler is
  due          \* the scheduled rows it has left to handle

svars == <<status, now, processed, queuedEvents, spc, due>>
allVars == <<ovars, svars>>

ScheduledSet == {Scheduled[i] : i \in DOMAIN Scheduled}

SchedulerTypeOK ==
  /\ OutboxTypeOK
  /\ status \in [Deliveries -> Statuses]
  /\ now \in 0..Len(Scheduled)
  /\ processed \subseteq ScheduledSet
  /\ queuedEvents \subseteq Deliveries
  /\ spc \in [Schedulers -> {"idle", "find", "update", "enqueue", "mark", "audit"}]
  /\ due \in [Schedulers -> SUBSET (1..now)]
  /\ \A s \in Schedulers : spc[s] = "idle" <=> due[s] = {}

SchedulerInit ==
  /\ OutboxInit
  /\ status = [d \in Deliveries |-> IF d \in ScheduledSet THEN "pending" ELSE "queued"]
  /\ now = 0
  /\ processed = {}
  /\ queuedEvents = {}
  /\ spc = [s \in Schedulers |-> "idle"]
  /\ due = [s \in Schedulers |-> {}]

ComesDue ==
  /\ now < Len(Scheduled)
  /\ now' = now + 1
  /\ UNCHANGED <<ovars, status, processed, queuedEvents, spc, due>>

\* Mutant: scheduled_at < $1.
DueIds_Strict == {i \in 1..(now - 1) : Scheduled[i] \notin processed}

\* processed = FALSE AND scheduled_at <= $1
DueIds == {i \in 1..now : Scheduled[i] \notin processed}

FetchDue(s) ==
  /\ spc[s] = "idle"
  /\ DueIds # {}
  /\ due' = [due EXCEPT ![s] = FirstOf(DueIds, DueBatch)]
  /\ spc' = [spc EXCEPT ![s] = "find"]
  /\ UNCHANGED <<ovars, status, now, processed, queuedEvents>>

\* The row a scheduler is at, in the order of scheduled_at, and its delivery.
AtRow(s) == Min(due[s])
Id(s) == Scheduled[AtRow(s)]

NextDue(s) ==
  /\ due' = [due EXCEPT ![s] = @ \ {AtRow(s)}]
  /\ spc' = [spc EXCEPT ![s] = IF due[s] = {AtRow(s)} THEN "idle" ELSE "find"]

\* `return err`, or the process dies: the rest of the batch waits for a tick.
Abort(s) ==
  /\ due' = [due EXCEPT ![s] = {}]
  /\ spc' = [spc EXCEPT ![s] = "idle"]
  /\ Spend("scheduler")

\* The statement took effect; its reply arrives, or it is lost.
Done(s, l) ==
  \/ /\ spc' = [spc EXCEPT ![s] = l]
     /\ UNCHANGED <<due, used>>
  \/ Abort(s)

\* Mutant: a delivery that is already queued is queued again.
Queueable_Again(d) == status[d] \in {"pending", "queued"}

Queueable(d) == CanQueue([status |-> status[d], retry |-> 0])

\* FindByID and d.Queue(now); a delivery that is not pending is skipped.
FindAndQueue(s) ==
  /\ spc[s] = "find"
  /\ \/ /\ Queueable(Id(s))
        /\ spc' = [spc EXCEPT ![s] = "update"]
        /\ UNCHANGED due
     \/ ~Queueable(Id(s)) /\ NextDue(s)
  /\ UNCHANGED <<ovars, status, now, processed, queuedEvents>>

\* Mutant: the scheduled row is retired before the outbox row is inserted.
UpdateQueued_Retires(s) ==
  /\ spc[s] = "update"
  /\ status' = [status EXCEPT ![Id(s)] = "queued"]
  /\ processed' = processed \cup {Id(s)}
  /\ Done(s, "enqueue")
  /\ UNCHANGED <<box, sent, ppc, batch, now, queuedEvents>>

\* deliveries.Update, without a condition on the status.
UpdateQueued(s) ==
  /\ spc[s] = "update"
  /\ status' = [status EXCEPT ![Id(s)] = "queued"]
  /\ Done(s, "enqueue")
  /\ UNCHANGED <<box, sent, ppc, batch, now, processed, queuedEvents>>

EnqueueDue(s) ==
  /\ spc[s] = "enqueue"
  /\ box' = Append(box, NewBoxRow(Id(s)))
  /\ Done(s, "mark")
  /\ UNCHANGED <<sent, ppc, batch, status, now, processed, queuedEvents>>

MarkProcessed(s) ==
  /\ spc[s] = "mark"
  /\ processed' = processed \cup {Id(s)}
  /\ Done(s, "audit")
  /\ UNCHANGED <<box, sent, ppc, batch, status, now, queuedEvents>>

\* The audit error is ignored.
AuditQueued(s) ==
  /\ spc[s] = "audit"
  /\ \/ queuedEvents' = queuedEvents \cup {Id(s)} /\ UNCHANGED used
     \/ Spend("scheduler") /\ UNCHANGED queuedEvents
  /\ NextDue(s)
  /\ UNCHANGED <<box, sent, ppc, batch, status, now, processed>>

\* A failed FindByID skips the row; any other failed call ends the tick, and so
\* does the death of the process at any point.
FindError(s) ==
  /\ spc[s] = "find"
  /\ NextDue(s)
  /\ Spend("scheduler")
  /\ UNCHANGED <<box, sent, ppc, batch, status, now, processed, queuedEvents>>

TickError(s) ==
  /\ spc[s] # "idle"
  /\ Abort(s)
  /\ UNCHANGED <<box, sent, ppc, batch, status, now, processed, queuedEvents>>

\* A worker settles a delivery that has been published.
WorkerSettles(d) ==
  /\ sent[d] > 0 /\ status[d] = "queued"
  /\ status' = [status EXCEPT ![d] = "succeeded"]
  /\ UNCHANGED <<ovars, now, processed, queuedEvents, spc, due>>

ProcessDue(s) ==
  \/ FetchDue(s) \/ FindAndQueue(s) \/ UpdateQueued(s) \/ EnqueueDue(s)
  \/ MarkProcessed(s) \/ AuditQueued(s)

SchedulerNext ==
  \/ OutboxNext /\ UNCHANGED svars
  \/ ComesDue
  \/ \E s \in Schedulers : ProcessDue(s) \/ FindError(s) \/ TickError(s)
  \/ \E d \in Deliveries : WorkerSettles(d)

SchedulerSpec == SchedulerInit /\ [][SchedulerNext]_allVars

\* Time passes, both tickers keep calling their loop, a step of it ends.
SchedulerFairness ==
  /\ WF_allVars(ComesDue)
  /\ \A s \in Schedulers : WF_allVars(ProcessDue(s))
  /\ \A p \in Publishers : WF_allVars(Flush(p) /\ UNCHANGED svars)

FairSchedulerSpec == SchedulerSpec /\ SchedulerFairness

-----------------------------------------------------------------------------
(* Properties.                                                             *)

IsDue(d) == \E i \in 1..now : Scheduled[i] = d

\* The scheduler retires a scheduled row only after its outbox row exists, so
\* an interrupted tick never loses a delivery by forgetting it.
RetiredHasRow == \A d \in processed : RowsOf(d) # {}

\* One scheduler inserts one outbox row per delivery, however often a tick is
\* interrupted before MarkProcessed and the row is fetched again.
OneRowPerDelivery == \A d \in Deliveries : Cardinality(RowsOf(d)) <= 1

\* Without a fault of the scheduler itself every due delivery reaches the
\* stream, through whatever the publisher and the broker go through.
DueIsPublished == \A d \in ScheduledSet : IsDue(d) ~> sent[d] > 0
=============================================================================
