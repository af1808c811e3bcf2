------------------------------ MODULE Overview ------------------------------
(***************************************************************************)
(* The console's summary query (useSummary), the form that sends a test    *)
(* notification (SendTestForm.tsx), requests of the load panel, which go   *)
(* through the same hook useSendNotification, and the table of deliveries  *)
(* (DeliveriesTable.tsx).  Behind the API are the ingest handler, one step *)
(* per request (module Ingest), and the reader of the summary, which       *)
(* counts and lists in separate SELECTs.                                   *)
(*                                                                         *)
(* `deliveries` is in the order of creation; the id of a delivery is its   *)
(* position, 0 stands for null.                                            *)
(***************************************************************************)
EXTENDS QueryCache, Sequences, FiniteSets

CONSTANTS
  Window,         \* the limit of getSummary, 30 in the code
  MaxDeliveries,  \* how many deliveries a behaviour may create
  MaxOutages,     \* how often the API goes down
  MaxEdits        \* how often the operator changes the form or a setting

ASSUME OverviewAssumption ==
  /\ Window \in Nat \ {0} /\ MaxDeliveries \in Nat
  /\ MaxOutages \in Nat /\ MaxEdits \in Nat

VARIABLES
  autoRefresh, apiKey,  \* appStore; the selection is in DetailPane
  form,         \* SendTestForm: idempotency key and channel
  keys,         \* how many keys were generated
  send,         \* the mutation of the form and one of the panel
  sq,           \* the cache entry ["summary"]
  deliveries,   \* the table of that name
  up, outages, edits,
  made,         \* history: deliveries made from the form as it is now
  floor         \* history: deliveries a confirmed send must make visible

store == <<autoRefresh, apiKey>>
vars == <<store, form, keys, send, sq, deliveries, up, outages, edits, made, floor>>

-----------------------------------------------------------------------------

Senders == {"form", "panel"}
Channels == {"email", "sms"}
Statuses == {"queued", "succeeded"}
Keys == Nat
ListedRows == [id : 1..MaxDeliveries, channel : Channels, status : Statuses]
Pages == UNION {[1..n -> ListedRows] : n \in 0..Window}
Summaries == [total : 0..MaxDeliveries, rows : Pages]

ASSUME NoDataAssumption == NoData \notin Summaries

Phases == {"idle", "sent", "done"}
NoSend == [phase |-> "idle", key |-> 1, channel |-> "email", auth |-> "", id |-> 0]

TypeOK ==
  /\ autoRefresh \in BOOLEAN /\ apiKey \in {"valid", "wrong", ""}
  /\ form \in [key : Keys, channel : Channels] /\ keys \in Keys
  /\ send \in [Senders -> [phase : Phases, key : Keys, channel : Channels,
                           auth : {"valid", "wrong", ""}, id : 0..MaxDeliveries]]
  /\ deliveries \in Seq([key : Keys, channel : Channels, status : Statuses])
  /\ Len(deliveries) <= MaxDeliveries
  /\ sq \in Entries(Summaries, {"counted"})
  /\ made \in Nat /\ floor \in 0..MaxDeliveries
  /\ up \in BOOLEAN /\ outages \in 0..MaxOutages /\ edits \in 0..MaxEdits

\* Mount: the query fetches at once.
Init ==
  /\ autoRefresh = TRUE /\ apiKey = "valid"
  /\ form = [key |-> 1, channel |-> "email"] /\ keys = 1
  /\ send = [s \in Senders |-> NoSend]
  /\ sq = StartFetch(Blank)
  /\ deliveries = <<>>
  /\ up = TRUE /\ outages = 0 /\ edits = 0
  /\ made = 0 /\ floor = 0

-----------------------------------------------------------------------------
(* The table.                                                              *)

\* ORDER BY created_at DESC LIMIT
Listed(ds) ==
  LET n == Len(ds)
      m == IF n < Window THEN n ELSE Window
  IN  [i \in 1..m |-> [id |-> n + 1 - i, channel |-> ds[n + 1 - i].channel,
                       status |-> ds[n + 1 - i].status]]

\* DeliveriesTable's useMemo, as the positions of the rows it keeps; the order in
\* which it shows them, newest first or last, leaves none out.
Filtered(rows, status, channel) ==
  {i \in DOMAIN rows : /\ status = "all" \/ rows[i].status = status
                       /\ channel = "all" \/ rows[i].channel = channel}

\* summaryQ.data?.deliveries ?? []
Rows == IF sq.data = NoData THEN <<>> ELSE sq.data.rows

\* The tiles of StatsBar: the deliveries "in current window", and the sum of the
\* counts by status.
StatsTiles ==
  [total |-> Len(Rows), byStatus |-> IF sq.data = NoData THEN 0 ELSE sq.data.total]

-----------------------------------------------------------------------------
(* Sending.                                                                *)

GenKey == keys + 1

\* A preset sets the recipient, which no property looks at, and the channel.
Preset == [form EXCEPT !.channel = "email"]

\* A field of the form, the dice or a preset; a used key typed again.
EditForm ==
  /\ edits < MaxEdits /\ edits' = edits + 1
  /\ \/ form' = [form EXCEPT !.key = GenKey] /\ keys' = GenKey
     \/ \E k \in 1..keys : form' = [form EXCEPT !.key = k] /\ UNCHANGED keys
     \/ \E c \in Channels : form' = [form EXCEPT !.channel = c] /\ UNCHANGED keys
     \/ form' = Preset /\ UNCHANGED keys
  /\ form' # form
  /\ made' = 0
  /\ UNCHANGED <<store, send, sq, deliveries, up, outages, floor>>

ChangeSetting ==
  /\ edits < MaxEdits /\ edits' = edits + 1
  /\ \/ autoRefresh' = ~autoRefresh /\ UNCHANGED apiKey
     \/ apiKey' \in {"valid", "wrong", ""} \ {apiKey} /\ UNCHANGED autoRefresh
  /\ UNCHANGED <<form, keys, send, sq, deliveries, up, outages, made, floor>>

\* submit, disabled while isPending.
Submit ==
  /\ send["form"].phase = "idle"
  /\ Len(deliveries) < MaxDeliveries
  /\ send' = [send EXCEPT !["form"] = [phase |-> "sent", auth |-> apiKey, id |-> 0,
                                       key |-> form.key, channel |-> form.channel]]
  /\ UNCHANGED <<store, form, keys, sq, deliveries, up, outages, edits, made, floor>>

\* The delivery a request finds or makes: one per key and channel.
Registered(key, channel) ==
  {n \in DOMAIN deliveries : deliveries[n].key = key /\ deliveries[n].channel = channel}

Created(key, channel) ==
  deliveries' = Append(deliveries, [key |-> key, channel |-> channel, status |-> "queued"])

\* POST /v1/notifications for the form.
ServeSend ==
  /\ send["form"].phase = "sent" /\ send["form"].auth = "valid" /\ up
  /\ Len(deliveries) < MaxDeliveries
  /\ LET m == send["form"]  same == Registered(m.key, m.channel)
     IN  \/ /\ same = {}
            /\ Created(m.key, m.channel)
            /\ send' = [send EXCEPT !["form"].phase = "done", !["form"].id = Len(deliveries) + 1]
            /\ made' = IF form = [key |-> m.key, channel |-> m.channel] THEN made + 1 ELSE made
         \/ \E n \in same :
              /\ send' = [send EXCEPT !["form"].phase = "done", !["form"].id = n]
              /\ UNCHANGED <<deliveries, made>>
  /\ UNCHANGED <<store, form, keys, sq, up, outages, edits, floor>>

\* A request of the panel has been sent and served.  Each has a key of its own,
\* written 0.
ServePanel ==
  /\ send["panel"].phase = "idle" /\ apiKey = "valid" /\ up
  /\ Len(deliveries) < MaxDeliveries
  /\ Created(0, "email")
  /\ send' = [send EXCEPT !["panel"].phase = "done", !["panel"].auth = "valid",
                           !["panel"].id = Len(deliveries) + 1]
  /\ UNCHANGED <<store, form, keys, sq, up, outages, edits, made, floor>>

\* Mutant: onSuccess selects the delivery and invalidates nothing.
SendDone_SelectOnly(s) ==
  /\ send[s].phase = "done"
  /\ send' = [send EXCEPT ![s] = NoSend]
  /\ \/ /\ s = "form" /\ keys' = GenKey
        /\ form' = [form EXCEPT !.key = GenKey] /\ made' = 0
     \/ s = "panel" /\ UNCHANGED <<form, keys, made>>
  /\ floor' = IF sq.data # NoData /\ send[s].id > floor THEN send[s].id ELSE floor
  /\ UNCHANGED <<store, sq, deliveries, up, outages, edits>>

\* onSuccess of the hook: invalidate the summary, select the delivery (Select
\* of DetailPane); and of the form: select it again, generate the next key.
SendDone(s) ==
  /\ send[s].phase = "done"
  /\ send' = [send EXCEPT ![s] = NoSend]
  /\ sq' = Invalidate(sq, TRUE)
  /\ \/ /\ s = "form" /\ keys' = GenKey
        /\ form' = [form EXCEPT !.key = GenKey] /\ made' = 0
     \/ s = "panel" /\ UNCHANGED <<form, keys, made>>
  /\ floor' = IF sq.data # NoData /\ send[s].id > floor THEN send[s].id ELSE floor
  /\ UNCHANGED <<autoRefresh, apiKey, deliveries, up, outages, edits>>

\* Mutant: the key is regenerated whatever the outcome.
SendFailed_NewKey(s) ==
  /\ send[s].phase # "idle"
  /\ send[s].auth # "valid" \/ ~up
  /\ send' = [send EXCEPT ![s] = NoSend]
  /\ keys' = GenKey /\ form' = [form EXCEPT !.key = GenKey]
  /\ UNCHANGED <<store, sq, deliveries, up, outages, edits, made, floor>>

\* onError: no key, 401, or no answer, the request having been served or not.
\* The form keeps its key.
SendFailed(s) ==
  /\ send[s].phase # "idle"
  /\ send[s].auth # "valid" \/ ~up
  /\ send' = [send EXCEPT ![s] = NoSend]
  /\ UNCHANGED <<store, form, keys, sq, deliveries, up, outages, edits, made, floor>>

-----------------------------------------------------------------------------
(* The query.                                                              *)

rest == <<store, form, keys, send, deliveries, up, outages, edits, made, floor>>

\* Mutant: polling stops at an error.
PollSummary_UntilError ==
  autoRefresh /\ ~sq.error /\ sq.fetch = "idle" /\ sq' = StartFetch(sq) /\ UNCHANGED rest

\* refetchInterval: autoRefresh ? 2000 : false
PollSummary == autoRefresh /\ sq.fetch = "idle" /\ sq' = StartFetch(sq) /\ UNCHANGED rest

\* The window gets the focus.
Refocus == sq.fetch = "idle" /\ sq' = StartFetch(sq) /\ UNCHANGED rest

Reads(ds) == [total |-> Len(ds), rows |-> Listed(ds)]

\* Mutant: the deliveries are listed before they are counted.
Summary_CountsLast(first, last) == [total |-> last.total, rows |-> first.rows]

\* What DashboardRepo.Summary returns: the counts of its first SELECT, the rows
\* of a later one.
Summary(first, last) == [total |-> first.total, rows |-> last.rows]

ReadCounts ==
  /\ sq.fetch = "asked" /\ up
  /\ sq' = [sq EXCEPT !.fetch = "counted", !.got = Reads(deliveries)]
  /\ UNCHANGED rest

ReadRows ==
  /\ sq.fetch = "counted" /\ up
  /\ sq' = [sq EXCEPT !.fetch = "answered", !.got = Summary(@, Reads(deliveries))]
  /\ UNCHANGED rest

SummaryArrives == sq.fetch = "answered" /\ sq' = Settle(sq) /\ UNCHANGED rest

SummaryFails == sq.fetch # "idle" /\ ~up /\ sq' = Fail(sq, 1) /\ UNCHANGED rest

-----------------------------------------------------------------------------
(* The pipeline, as far as the table shows it, and the API process.        *)

Deliver(id) ==
  /\ deliveries[id].status = "queued"
  /\ deliveries' = [deliveries EXCEPT ![id].status = "succeeded"]
  /\ UNCHANGED <<store, form, keys, send, sq, up, outages, edits, made, floor>>

GoDown ==
  /\ up /\ outages < MaxOutages
  /\ up' = FALSE /\ outages' = outages + 1
  /\ UNCHANGED <<store, form, keys, send, sq, deliveries, edits, made, floor>>

ComeUp ==
  /\ ~up /\ up' = TRUE
  /\ UNCHANGED <<store, form, keys, send, sq, deliveries, outages, edits, made, floor>>

SummarySettles == ReadCounts \/ ReadRows \/ SummaryArrives \/ SummaryFails

Next ==
  \/ EditForm \/ ChangeSetting
  \/ Submit \/ ServeSend \/ ServePanel
  \/ \E s \in Senders : SendDone(s) \/ SendFailed(s)
  \/ PollSummary \/ Refocus \/ SummarySettles
  \/ \E id \in DOMAIN deliveries : Deliver(id)
  \/ GoDown \/ ComeUp

Spec == Init /\ [][Next]_vars

\* Requests settle, the intervals keep firing, an outage ends; nobody has to
\* send, click or edit.
FairSpec ==
  /\ Spec
  /\ WF_vars(PollSummary)
  /\ WF_vars(SummarySettles) /\ WF_vars(ComeUp)

-----------------------------------------------------------------------------
(* Properties.                                                             *)

\* The form is safe to resubmit: after a lost answer, also one lost after the
\* server had acted, the same form makes no second delivery, because its key is
\* regenerated after a success only.
NoDoubleSend == made <= 1

\* Once a send is confirmed, an older summary is not left on display as
\* current: the new delivery is counted in what is shown, or what is shown is
\* marked and being replaced.  (A summary that is still loading for the first
\* time is not restarted; it is caught up by the next poll.)
SentIsShown ==
  sq.data # NoData /\ (IF Rows = <<>> THEN 0 ELSE Rows[1].id) < floor
    => sq.invalid /\ (sq.fetch # "idle" \/ sq.error)

\* The counts by status and the table are read at different times, yet while
\* the table is not cut off every delivery that was counted is found under one of
\* its status filters, each of them under one only, so that the tiles never show
\* more deliveries by status than in all.
CountedIsListed ==
  Len(Rows) < Window =>
    LET Under(status) == Cardinality(Filtered(Rows, status, "all")) IN
    /\ StatsTiles.byStatus <= Under("queued") + Under("succeeded")
    /\ Under("queued") + Under("succeeded") = StatsTiles.total

\* With auto refresh on, the table is in the end true: the query survives every
\* outage, and sends that cancel its fetches do not keep it from settling.
OverviewConverges ==
  <>[]autoRefresh =>
    <>[](~sq.error /\ Rows = Listed(deliveries))
=============================================================================
