----------------------------- MODULE DetailPane -----------------------------
(***************************************************************************)
(* The delivery pane of the console and what feeds it: selection and       *)
(* lookup (DeliveryDetail.tsx, appStore.ts), the query per delivery        *)
(* (useDeliveryDetail), the replay mutation (useReplay), the pipeline      *)
(* strip (PipelineFlow.tsx), and behind the API the reader that assembles  *)
(* a detail from separate SELECTs while a worker writes.                   *)
(*                                                                         *)
(* A row carries its round, the number of replays so far.  Transient       *)
(* failures are left out: `retrying` looks like `processing` to the pane   *)
(* and the strip.  Of a replay's inside see module Replay.                 *)
(***************************************************************************)
EXTENDS QueryCache, Sequences

CONSTANTS
  Deliveries,   \* the ids of deliveries
  Unknown,      \* UUIDs no delivery has
  MaxReplays,   \* rounds of a delivery
  MaxOutages,   \* how often the API goes down
  MaxSwitches,  \* how often the operator changes selection or settings
  None

Ids == Deliveries \cup Unknown

ASSUME DetailPaneAssumption ==
  /\ MaxReplays \in Nat /\ MaxOutages \in Nat /\ MaxSwitches \in Nat
  /\ None \notin Ids

VARIABLES
  selected,     \* selectedDeliveryId
  lookup,       \* the text in the lookup box
  autoRefresh, apiKey,
  q,            \* the cache entry of ["delivery", id]
  replay,       \* the mutation of useReplay
  row,          \* deliveries and delivery_attempts, and what a worker is at
  up, outages, switches,
  floor         \* history: the round a confirmed replay of the displayed
                \* delivery began

store == <<selected, lookup, autoRefresh, apiKey, switches>>
server == <<row, up, outages>>
vars == <<store, q, replay, server, floor>>

-----------------------------------------------------------------------------
(* PipelineFlow.tsx and StatusBadge.tsx.                                   *)

Steps == <<"ingest", "pg", "outbox", "nats", "worker", "provider">>

\* Mutant: the worker's statuses light the API's steps only.
ActiveSteps_Short(status) ==
  CASE status = "queued" -> 3
    [] status \in {"processing", "dlq"} -> 2
    [] status = "succeeded" -> 6

\* activeStepsFor: each set is a prefix of STEPS, given by its length.
ActiveSteps(status) ==
  CASE status = "pending" -> 1
    [] status = "queued" -> 3
    [] status \in {"processing", "retrying", "dlq", "failed", "rejected"} -> 5
    [] status = "succeeded" -> 6
    [] status = "cancelled" -> 2

\* tone, and the TONE of StatusBadge.
Tone(status) ==
  CASE status = "succeeded" -> "success"
    [] status \in {"dlq", "failed", "rejected"} -> "danger"
    [] status = "cancelled" -> "neutral"
    [] OTHER -> "warning"

\* The step with the ring, where the delivery is or where it stopped; 0 when
\* there is none.
RingAt(status) ==
  CASE Tone(status) = "success" -> Len(Steps)
    [] Tone(status) \in {"danger", "warning"} -> ActiveSteps(status)
    [] OTHER -> 0

-----------------------------------------------------------------------------

Statuses == {"queued", "processing", "dlq", "succeeded"}
Snapshots ==
  [status : Statuses, round : 0..MaxReplays, lastError : BOOLEAN, attempts : Nat]
ServerRows ==
  [status : Statuses \cup {"absent"}, round : 0..MaxReplays,
   lastError : BOOLEAN, attempts : Nat, work : {"none", "failed", "sent"}]
Texts == Ids \cup {"", "junk"}

\* undefined is not an answer.
ASSUME NoDataAssumption == NoData \notin Snapshots

TypeOK ==
  /\ selected \in Ids \cup {None} /\ lookup \in Texts
  /\ autoRefresh \in BOOLEAN /\ apiKey \in {"valid", "wrong", ""}
  /\ q \in [Ids -> Entries(Snapshots, {"row"})]
  /\ replay \in [id : Ids \cup {None}, phase : {"idle", "sent", "done", "refused"},
                 key : {"valid", "wrong", ""}]
  /\ row \in [Ids -> ServerRows]
  /\ up \in BOOLEAN /\ outages \in 0..MaxOutages /\ switches \in 0..MaxSwitches
  /\ floor \in [Ids -> 0..MaxReplays]

NoReplay == [id |-> None, phase |-> "idle", key |-> ""]

Init ==
  /\ selected = None /\ lookup = ""
  /\ autoRefresh = TRUE /\ apiKey = "valid"
  /\ q = [id \in Ids |-> Blank]
  /\ replay = NoReplay
  /\ row = [id \in Ids |->
              [status |-> IF id \in Deliveries THEN "queued" ELSE "absent",
               round |-> 0, lastError |-> FALSE, attempts |-> 0, work |-> "none"]]
  /\ up = TRUE /\ outages = 0 /\ switches = 0
  /\ floor = [id \in Ids |-> 0]

-----------------------------------------------------------------------------
(* What the pane shows.                                                    *)

Entry == q[selected]

\* The early returns of DeliveryDetail, in their order.
Pane ==
  CASE selected = None -> "none selected"
    [] selected # None /\ IsLoading(Entry) -> "loading"
    [] selected # None /\ ~IsLoading(Entry) /\ (Entry.error \/ Entry.data = NoData) -> "not found"
    [] OTHER -> "delivery"

\* The sections made of the row: the badge, the replay button and the error box;
\* the notification and the metadata are columns that never change.
RowSections(d) ==
  [badge |-> Tone(d.status), errorBox |-> d.lastError, replayButton |-> d.status = "dlq"]

\* The sections made of the later reads: timeline, attempts and outbox rows are
\* lists shown as they were read, of which the attempts are kept here, by number.
HistorySections(d) == [attempts |-> d.attempts]

\* The pipeline strip does not look at isError.
StripStatus == IF selected = None \/ Entry.data = NoData THEN None ELSE Entry.data.status

-----------------------------------------------------------------------------
(* The operator.                                                           *)

Switch == switches < MaxSwitches /\ switches' = switches + 1

\* useQuery starts to observe id: it fetches when there is no data or it is
\* marked, and otherwise when the data is older than staleTime.
Observe(id) ==
  \/ q' = [q EXCEPT ![id] = StartFetch(@)]
  \/ q[id].data # NoData /\ ~q[id].invalid /\ UNCHANGED q

\* setSelectedDeliveryId and the effect that copies the id into the box.
SetSelected(id) ==
  /\ Switch
  /\ selected' = id /\ lookup' = id
  /\ Observe(id)
  /\ UNCHANGED <<autoRefresh, apiKey, replay, server, floor>>

\* A row of the table, or a send's onSuccess (Overview).
Select(id) == id \in Deliveries \ {selected} /\ SetSelected(id)

\* An event of the activity feed; a delivery has one from its creation on.
SelectEvent(id) == id \in Deliveries \ {selected} /\ SetSelected(id)

\* Another valid UUID submitted; an empty or malformed one is refused.
SubmitLookup ==
  /\ ~(selected # None /\ IsLoading(Entry))
  /\ lookup \in Ids \ {selected}
  /\ SetSelected(lookup)

Type(t) ==
  /\ Switch
  /\ t # lookup /\ lookup' = t
  /\ UNCHANGED <<selected, autoRefresh, apiKey, q, replay, server, floor>>

Close ==
  /\ selected # None
  /\ selected' = None /\ lookup' = ""
  /\ UNCHANGED <<autoRefresh, apiKey, switches, q, replay, server, floor>>

\* The header's switch and key box.
ChangeSetting ==
  /\ Switch
  /\ \/ autoRefresh' = ~autoRefresh /\ UNCHANGED apiKey
     \/ apiKey' \in {"valid", "wrong", ""} \ {apiKey} /\ UNCHANGED autoRefresh
  /\ UNCHANGED <<selected, lookup, q, replay, server, floor>>

-----------------------------------------------------------------------------
(* The query of the selected delivery.                                     *)

\* Mutant: polling stops at an error.
Polls_UntilError == autoRefresh /\ selected # None /\ ~Entry.error

\* refetchInterval: autoRefresh && id ? 2000 : false
Polls == autoRefresh /\ selected # None

StartsFetch(id) ==
  /\ q[id].fetch = "idle"
  /\ q' = [q EXCEPT ![id] = StartFetch(@)]
  /\ UNCHANGED <<store, replay, server, floor>>

Poll(id) == Polls /\ id = selected /\ StartsFetch(id)

\* The window gets the focus or the browser is online again.
Refocus(id) == id = selected /\ StartsFetch(id)

\* Mutant: the attempts are read before the row.
Assembled_RowLast(first, last) ==
  [status |-> last.status, round |-> last.round, lastError |-> last.lastError,
   attempts |-> first.attempts]

\* What Detail returns: the row as its first SELECT found it, the attempts
\* (and audit events and outbox rows) as later ones did.
Assembled(first, last) ==
  [status |-> first.status, round |-> first.round, lastError |-> first.lastError,
   attempts |-> last.attempts]

ReadRow(id) ==
  /\ q[id].fetch = "asked" /\ up /\ row[id].status # "absent"
  /\ q' = [q EXCEPT ![id].fetch = "row", ![id].got = Assembled(row[id], row[id])]
  /\ UNCHANGED <<store, replay, server, floor>>

ReadRest(id) ==
  /\ q[id].fetch = "row" /\ up
  /\ q' = [q EXCEPT ![id].fetch = "answered", ![id].got = Assembled(@, row[id])]
  /\ UNCHANGED <<store, replay, server, floor>>

Arrives(id) ==
  /\ q[id].fetch = "answered"
  /\ q' = [q EXCEPT ![id] = Settle(@)]
  /\ UNCHANGED <<store, replay, server, floor>>

\* request throws: 404, or no usable answer.  retry is 1, and only entries on
\* display are retried.
FetchFails(id) ==
  /\ q[id].fetch # "idle"
  /\ ~up \/ (q[id].fetch = "asked" /\ row[id].status = "absent")
  /\ q' = [q EXCEPT ![id] = Fail(@, IF id = selected THEN 1 ELSE 0)]
  /\ UNCHANGED <<store, replay, server, floor>>

\* gcTime: an entry nobody displays is dropped after five minutes, longer than
\* a replay stays unanswered.
Collect(id) ==
  /\ replay.phase = "idle"
  /\ id # selected /\ q[id].fetch = "idle" /\ q[id] # Blank
  /\ q' = [q EXCEPT ![id] = Blank]
  /\ UNCHANGED <<store, replay, server, floor>>

-----------------------------------------------------------------------------
(* Replay.                                                                 *)

\* The button: shown for a dlq row, disabled while isPending.
ClickReplay ==
  /\ Pane = "delivery" /\ RowSections(Entry.data).replayButton
  /\ replay.phase = "idle"
  /\ replay' = [id |-> selected, phase |-> "sent", key |-> apiKey]
  /\ UNCHANGED <<store, q, server, floor>>

\* handleReplay: only a dlq delivery is replayed.
ServeReplay ==
  /\ replay.phase = "sent" /\ replay.key = "valid" /\ up
  /\ \/ /\ row[replay.id].status = "dlq" /\ row[replay.id].round < MaxReplays
        /\ row' = [row EXCEPT ![replay.id].status = "queued", ![replay.id].round = @ + 1]
        /\ replay' = [replay EXCEPT !.phase = "done"]
     \/ /\ row[replay.id].status # "dlq"
        /\ replay' = [replay EXCEPT !.phase = "refused"]
        /\ UNCHANGED row
  /\ UNCHANGED <<store, q, up, outages, floor>>

\* Mutant: onSuccess invalidates the summary only.
ReplayQueued_SummaryOnly ==
  /\ replay.phase = "done"
  /\ replay' = NoReplay
  /\ floor' = [floor EXCEPT ![replay.id] =
                 IF selected = replay.id THEN row[replay.id].round ELSE @]
  /\ UNCHANGED <<store, q, server>>

\* onSuccess: the delivery's entry is invalidated.
ReplayQueued ==
  /\ replay.phase = "done"
  /\ replay' = NoReplay
  /\ q' = [q EXCEPT ![replay.id] = Invalidate(@, replay.id = selected)]
  /\ floor' = [floor EXCEPT ![replay.id] =
                 IF selected = replay.id THEN row[replay.id].round ELSE @]
  /\ UNCHANGED <<store, server>>

\* onError: no key, 401, the server's refusal, or no answer.
ReplayFailed ==
  /\ replay.phase # "idle"
  /\ replay.key # "valid" \/ replay.phase = "refused" \/ ~up
  /\ replay' = NoReplay
  /\ UNCHANGED <<store, q, server, floor>>

-----------------------------------------------------------------------------
(* The worker (module Dispatch) and the API process.                       *)

Write(id, r) == row' = [row EXCEPT ![id] = r] /\ UNCHANGED <<store, q, replay, up, outages, floor>>

Claim(id) ==
  /\ row[id].status = "queued"
  /\ Write(id, [row[id] EXCEPT !.status = "processing"])

\* A permanent failure: the attempt, then the row.
RecordFailure(id) ==
  /\ row[id].status = "processing" /\ row[id].work = "none"
  /\ Write(id, [row[id] EXCEPT !.attempts = @ + 1, !.work = "failed"])

MoveToDLQ(id) ==
  /\ row[id].work = "failed"
  /\ Write(id, [row[id] EXCEPT !.status = "dlq", !.lastError = TRUE, !.work = "none"])

\* A success: the row, then the attempt.
Succeed(id) ==
  /\ row[id].status = "processing" /\ row[id].work = "none"
  /\ Write(id, [row[id] EXCEPT !.status = "succeeded", !.lastError = FALSE, !.work = "sent"])

RecordSuccess(id) ==
  /\ row[id].work = "sent"
  /\ Write(id, [row[id] EXCEPT !.attempts = @ + 1, !.work = "none"])

GoDown ==
  /\ up /\ outages < MaxOutages
  /\ up' = FALSE /\ outages' = outages + 1
  /\ UNCHANGED <<store, q, replay, row, floor>>

ComeUp ==
  /\ ~up /\ up' = TRUE
  /\ UNCHANGED <<store, q, replay, row, outages, floor>>

Worker(id) ==
  Claim(id) \/ RecordFailure(id) \/ MoveToDLQ(id) \/ Succeed(id) \/ RecordSuccess(id)

Settles(id) == ReadRow(id) \/ ReadRest(id) \/ Arrives(id) \/ FetchFails(id)

Next ==
  \/ \E id \in Ids :
       \/ Select(id) \/ SelectEvent(id) \/ Poll(id) \/ Refocus(id) \/ Settles(id) \/ Collect(id) \/ Worker(id)
  \/ \E t \in Texts : Type(t)
  \/ SubmitLookup \/ Close \/ ChangeSetting
  \/ ClickReplay \/ ServeReplay \/ ReplayQueued \/ ReplayFailed
  \/ GoDown \/ ComeUp

Spec == Init /\ [][Next]_vars

\* Requests settle, the interval of a displayed query keeps firing, the worker
\* goes on, an outage ends.  The operator need not do anything.
FairSpec ==
  /\ Spec
  /\ \A id \in Ids : WF_vars(Settles(id)) /\ WF_vars(Poll(id)) /\ WF_vars(Worker(id))
  /\ WF_vars(ComeUp)

-----------------------------------------------------------------------------
(* Properties.                                                             *)

\* A failure is shown with what led to it, although the detail is read by
\* separate SELECTs while the worker writes: next to a replay button stand the
\* failed attempts of every round, next to an error box at least one attempt, and
\* a success shows no error.  (The worker writes the attempt first, the reader
\* reads the row first; the error of an earlier round outlives the replay.  It is
\* for channels that have a provider: without one there is no attempt.)
FailureIsExplained ==
  Pane = "delivery" =>
    LET d == Entry.data  r == RowSections(d)  h == HistorySections(d) IN
    /\ r.replayButton => r.errorBox /\ h.attempts > d.round
    /\ r.errorBox => h.attempts > 0 /\ r.badge # "success"

\* Once the operator has been told that a replay is queued, with the delivery
\* still displayed, no answer read before the replay is shown as current: the
\* data is from the new round, or marked and, if displayed, being replaced.
ReplayShown ==
  \A id \in Ids :
    q[id].data # NoData /\ q[id].data.round < floor[id] =>
      q[id].invalid /\ (id = selected => q[id].fetch # "idle" \/ q[id].error)

\* The strip follows a delivery forwards: while the same delivery stays
\* selected its lit steps and its ring move back only with a new round, although
\* fetches fail, are cancelled and answer late.
StripAdvances ==
  [][selected' = selected /\ StripStatus # None /\ StripStatus' # None =>
       \/ q'[selected].data.round > q[selected].data.round
       \/ /\ ActiveSteps(StripStatus') >= ActiveSteps(StripStatus)
          /\ RingAt(StripStatus') >= RingAt(StripStatus)]_vars

\* With auto refresh on, a delivery that stays selected is in the end shown as
\* it is, also after an outage that made the pane say "not found".
PaneConverges ==
  \A id \in Ids :
    <>[](autoRefresh /\ selected = id /\ row[id].status # "absent") =>
    <>[](/\ Pane = "delivery"
         /\ Entry.data.status = row[id].status
         /\ Entry.data.attempts = row[id].attempts)
=============================================================================
