--------------------------- MODULE OverviewProofs ---------------------------
(***************************************************************************)
(* For any window, any number of deliveries, outages and edits: the form   *)
(* makes no second delivery, an old summary is not left on display as      *)
(* current after a confirmed send, and what the tiles count is listed.     *)
(***************************************************************************)
EXTENDS Overview, FiniteSetTheorems, TLAPS

Delivered == [key : Keys, channel : Channels, status : Statuses]
Entry == Entries(Summaries, {"counted"})

\* The id of the first row, 0 for an empty table.
Newest(rows) == IF rows = <<>> THEN 0 ELSE rows[1].id

\* Every counted delivery is listed, unless the table is cut off.
Complete(d) == Len(d.rows) < Window => d.total <= Len(d.rows)

\* What was made from the form as it is now is registered under its key.
MadeInv == made <= 1 /\ (made = 1 => Registered(form.key, form.channel) # {})

\* A confirmed send is in the table; an answer on its way knows of it, because
\* the fetches that do not were cancelled.
FloorInv ==
  /\ floor <= Len(deliveries)
  /\ \A s \in Senders : send[s].id <= Len(deliveries)
  /\ sq.data = NoData => floor = 0
  /\ sq.fetch = "answered" => sq.got # NoData /\ floor <= Newest(sq.got.rows)
  /\ SentIsShown

\* Deliveries are never removed, so what was counted can be listed later.
CountInv ==
  /\ sq.data # NoData => Complete(sq.data)
  /\ sq.fetch = "counted" => sq.got # NoData /\ sq.got.total <= Len(deliveries)
  /\ sq.fetch = "answered" => sq.got # NoData /\ Complete(sq.got)

\* The inductive invariant.
IInv == TypeOK /\ MadeInv /\ FloorInv /\ CountInv

-----------------------------------------------------------------------------
(* The summary and the cache entry.                                        *)

\* The fields of an entry.
LEMMA EntryFields ==
  ASSUME NEW q \in Entry
  PROVE  /\ q.data \in Summaries \cup {NoData} /\ q.got \in Summaries \cup {NoData}
         /\ q.error \in BOOLEAN /\ q.invalid \in BOOLEAN /\ q.tries \in 0..1
         /\ q.fetch \in {"counted", "idle", "asked", "answered"}
  BY DEF Entry, Entries

\* What a summary holds.
LEMMA SummaryFields ==
  ASSUME NEW d \in Summaries
  PROVE  /\ d # NoData
         /\ d.total \in 0..MaxDeliveries /\ d.total \in Nat
         /\ d.rows \in Seq(ListedRows) /\ Len(d.rows) \in 0..Window
         /\ DOMAIN d.rows = 1..Len(d.rows)
<1>1. d # NoData
  BY NoDataAssumption
<1>2. d.total \in 0..MaxDeliveries /\ d.rows \in Pages
  BY DEF Summaries
<1>3. PICK n \in 0..Window : d.rows \in [1..n -> ListedRows]
  BY <1>2 DEF Pages
<1>4. n \in Nat
  BY <1>3, OverviewAssumption
<1> QED
  BY <1>1, <1>2, <1>3, <1>4, OverviewAssumption

\* The SELECT returns a page whose first row is the newest delivery.
LEMMA ListedIsAPage ==
  ASSUME NEW ds \in Seq(Delivered), Len(ds) <= MaxDeliveries
  PROVE  /\ Listed(ds) \in Pages
         /\ Newest(Listed(ds)) = Len(ds)
         /\ Len(Listed(ds)) = IF Len(ds) < Window THEN Len(ds) ELSE Window
<1> DEFINE n == Len(ds)
           m == IF n < Window THEN n ELSE Window
           row(i) == [id |-> n + 1 - i, channel |-> ds[n + 1 - i].channel,
                      status |-> ds[n + 1 - i].status]
<1>1. n \in Nat /\ m \in Nat /\ m <= n /\ m <= Window /\ (m = 0 <=> n = 0)
      /\ Window \in Nat \ {0} /\ MaxDeliveries \in Nat
  BY OverviewAssumption
<1>2. Listed(ds) = [i \in 1..m |-> row(i)]
  BY DEF Listed
<1>3. \A i \in 1..m : row(i) \in ListedRows
  <2> SUFFICES ASSUME NEW i \in 1..m PROVE row(i) \in ListedRows
    OBVIOUS
  <2>1. n + 1 - i \in 1..n /\ n + 1 - i \in 1..MaxDeliveries
    BY <1>1
  <2>2. ds[n + 1 - i] \in Delivered
    BY <2>1
  <2> QED
    BY <2>1, <2>2 DEF Delivered, ListedRows
<1> HIDE DEF m
<1>4. Listed(ds) \in [1..m -> ListedRows]
  BY <1>2, <1>3
<1>5. m \in 0..Window
  BY <1>1
<1>6. Listed(ds) \in Pages
  BY <1>4, <1>5 DEF Pages
<1>7. Len(Listed(ds)) = m
  BY <1>1, <1>4
<1>8. Newest(Listed(ds)) = n
  <2>1. CASE m = 0
    <3>1. Listed(ds) = <<>>
      BY <2>1, <1>4
    <3> QED
      BY <2>1, <3>1, <1>1 DEF Newest
  <2>2. CASE m # 0
    <3>1. 1 \in 1..m /\ Listed(ds) # <<>>
      BY <2>2, <1>1, <1>7
    <3>2. Listed(ds)[1] = row(1)
      BY <3>1, <1>2
    <3>3. row(1).id = n
      BY <1>1
    <3> QED
      BY <3>1, <3>2, <3>3 DEF Newest
  <2> QED
    BY <2>1, <2>2
<1> QED
  BY <1>6, <1>7, <1>8 DEF m

\* A read of the table is a summary.
LEMMA ReadsType ==
  ASSUME NEW ds \in Seq(Delivered), Len(ds) <= MaxDeliveries
  PROVE  /\ Reads(ds) \in Summaries
         /\ Reads(ds).total = Len(ds) /\ Reads(ds).rows = Listed(ds)
<1>1. Len(ds) \in 0..MaxDeliveries
  BY OverviewAssumption
<1> QED
  BY <1>1, ListedIsAPage DEF Reads, Summaries

\* What StartFetch makes of a fetch it does not join.
LEMMA FreshFetch ==
  ASSUME NEW e \in Entry, NEW b \in BOOLEAN, NEW f,
         f = [e EXCEPT !.fetch = "asked", !.tries = 0, !.got = NoData, !.error = b]
  PROVE  /\ f \in Entry /\ f.data = e.data /\ f.invalid = e.invalid
         /\ f.fetch = "asked" /\ f.got = NoData
<1>1. f \in [data : Summaries \cup {NoData}, error : BOOLEAN, invalid : BOOLEAN,
             fetch : {"asked"}, tries : {0}, got : {NoData}]
  BY Zenon DEF Entry, Entries
<1>2. {"asked"} \subseteq {"counted"} \cup {"idle", "asked", "answered"} /\ {0} \subseteq 0..1
  OBVIOUS
<1>3. f \in Entry
  BY <1>1, <1>2 DEF Entry, Entries
<1>4. f.data = e.data /\ f.invalid = e.invalid /\ f.fetch = "asked" /\ f.got = NoData
  BY Zenon DEF Entry, Entries
<1> QED
  BY <1>3, <1>4

\* StartFetch keeps the data and leaves a fetch in flight.
LEMMA StartFetchFields ==
  ASSUME NEW e \in Entry
  PROVE  LET f == StartFetch(e)
         IN  /\ f \in Entry /\ f.data = e.data /\ f.invalid = e.invalid
             /\ f.fetch # "idle" /\ f.got \in {e.got, NoData}
             /\ e.fetch = "idle" => f.got = NoData
             /\ f.fetch \in {"counted", "answered"} => f.fetch = e.fetch /\ f.got = e.got
<1>1. CASE e.fetch # "idle"
  BY <1>1 DEF StartFetch
<1>2. CASE e.fetch = "idle"
  <2> DEFINE asked(b) == [e EXCEPT !.fetch = "asked", !.tries = 0, !.got = NoData, !.error = b]
  <2>1. \A b \in BOOLEAN :
          /\ asked(b) \in Entry /\ asked(b).data = e.data /\ asked(b).invalid = e.invalid
          /\ asked(b).fetch = "asked" /\ asked(b).got = NoData
    BY FreshFetch
  <2>2. StartFetch(e) = asked(e.error /\ e.data # NoData)
    BY <1>2 DEF StartFetch
  <2> HIDE DEF asked
  <2>3. \E b \in BOOLEAN : StartFetch(e) = asked(b)
    BY <2>2, Zenon
  <2> QED
    BY <2>1, <2>3
<1> QED
  BY <1>1, <1>2

\* Two single updates.
LEMMA MarkedFields ==
  ASSUME NEW e \in Entry
  PROVE  LET f == [e EXCEPT !.invalid = TRUE]
         IN  /\ f \in Entry /\ f.data = e.data /\ f.invalid = TRUE
             /\ f.fetch = e.fetch /\ f.got = e.got /\ f.error = e.error
<1>1. [e EXCEPT !.invalid = TRUE] \in Entry
  BY DEF Entry, Entries
<1> QED
  BY <1>1, Zenon DEF Entry, Entries

\* A fetch that is cancelled.
LEMMA CancelledFields ==
  ASSUME NEW e \in Entry
  PROVE  LET f == [e EXCEPT !.fetch = "idle"]
         IN  /\ f \in Entry /\ f.data = e.data /\ f.invalid = e.invalid
             /\ f.fetch = "idle"
<1>1. [e EXCEPT !.fetch = "idle"] \in Entry
  BY DEF Entry, Entries
<1> QED
  BY <1>1, Zenon DEF Entry, Entries

\* An invalidation marks the data; a displayed entry with data is asked anew.
LEMMA InvalidateFields ==
  ASSUME NEW e \in Entry, NEW shows \in BOOLEAN
  PROVE  LET f == Invalidate(e, shows)
         IN  /\ f \in Entry /\ f.data = e.data /\ f.invalid = TRUE
             /\ f.got \in {e.got, NoData}
             /\ shows => f.fetch # "idle"
             /\ ~shows => f.fetch = e.fetch /\ f.error = e.error
             /\ shows /\ e.data # NoData => f.got = NoData
             /\ f.fetch \in {"counted", "answered"} => f.fetch = e.fetch /\ f.got = e.got
<1> DEFINE marked == [e EXCEPT !.invalid = TRUE]
           idle == [marked EXCEPT !.fetch = "idle"]
<1>1. /\ marked \in Entry /\ marked.data = e.data /\ marked.invalid = TRUE
      /\ marked.fetch = e.fetch /\ marked.got = e.got /\ marked.error = e.error
  BY MarkedFields
<1>2. /\ Invalidate(e, FALSE) = marked
      /\ e.data = NoData => Invalidate(e, TRUE) = StartFetch(marked)
      /\ e.data # NoData => Invalidate(e, TRUE) = StartFetch(idle)
  BY DEF Invalidate
<1> HIDE DEF marked
<1>3. idle \in Entry /\ idle.data = e.data /\ idle.invalid = TRUE /\ idle.fetch = "idle"
  BY <1>1, CancelledFields
<1> HIDE DEF idle
<1>4. CASE ~shows
  BY <1>1, <1>2, <1>4
<1>5. CASE shows /\ e.data = NoData
  <2> DEFINE g == StartFetch(marked)
  <2>1. /\ g \in Entry /\ g.data = e.data /\ g.invalid = TRUE
        /\ g.fetch # "idle" /\ g.got \in {e.got, NoData}
        /\ g.fetch \in {"counted", "answered"} => g.fetch = e.fetch /\ g.got = e.got
    BY <1>1, StartFetchFields
  <2>2. Invalidate(e, shows) = g
    BY <1>2, <1>5
  <2> HIDE DEF g
  <2> QED
    BY <1>5, <2>1, <2>2
<1>6. CASE shows /\ e.data # NoData
  <2>1. /\ StartFetch(idle) \in Entry /\ StartFetch(idle).data = e.data
        /\ StartFetch(idle).invalid = TRUE /\ StartFetch(idle).fetch # "idle"
        /\ StartFetch(idle).got = NoData
        /\ StartFetch(idle).fetch \notin {"counted", "answered"}
    BY <1>3, StartFetchFields
  <2> QED
    BY <1>2, <1>6, <2>1
<1> QED
  BY <1>4, <1>5, <1>6

\* An entry that was dropped.
LEMMA BlankFields ==
  /\ Blank \in Entry /\ Blank.data = NoData /\ Blank.got = NoData
  /\ Blank.fetch = "idle"
<1>1. Blank \in Entry
  BY DEF Blank, Entry, Entries
<1> QED
  BY <1>1 DEF Blank

\* The answer becomes the data.
LEMMA SettleFields ==
  ASSUME NEW e \in Entry
  PROVE  /\ Settle(e) \in Entry /\ Settle(e).data = e.got /\ Settle(e).got = NoData
         /\ Settle(e).fetch = "idle"
<1>1. e.got \in Summaries \cup {NoData}
  BY EntryFields
<1>2. ASSUME NEW d \in Summaries \cup {NoData}
      PROVE  /\ [Blank EXCEPT !.data = d] \in Entry
             /\ [Blank EXCEPT !.data = d].data = d
             /\ [Blank EXCEPT !.data = d].got = Blank.got
             /\ [Blank EXCEPT !.data = d].fetch = Blank.fetch
  BY BlankFields, Zenon DEF Entry, Entries
<1> QED
  BY <1>1, <1>2, BlankFields DEF Settle

\* A failure keeps the data; without another try it is an error.
LEMMA FailFields ==
  ASSUME NEW e \in Entry, NEW retry \in 0..1
  PROVE  LET f == Fail(e, retry)
         IN  /\ f \in Entry /\ f.data = e.data /\ f.invalid = e.invalid
             /\ f.got = NoData /\ (f.fetch # "idle" \/ f.error)
             /\ f.fetch \in {"asked", "idle"}
<1>1. CASE e.tries < retry
  <2> DEFINE f == [e EXCEPT !.fetch = "asked", !.tries = @ + 1, !.got = NoData]
  <2>1. Fail(e, retry) = f
    BY <1>1 DEF Fail
  <2>2. e.tries + 1 \in 0..1
    BY <1>1 DEF Entry, Entries
  <2>3. ASSUME NEW n \in 0..1
        PROVE  LET g == [e EXCEPT !.fetch = "asked", !.tries = n, !.got = NoData]
               IN  /\ g \in [data : Summaries \cup {NoData}, error : BOOLEAN,
                             invalid : BOOLEAN, fetch : {"asked"}, tries : 0..1,
                             got : {NoData}]
                   /\ g.data = e.data /\ g.invalid = e.invalid /\ g.got = NoData
                   /\ g.fetch = "asked"
    BY Zenon DEF Entry, Entries
  <2>4. {"asked"} \subseteq {"counted"} \cup {"idle", "asked", "answered"}
    OBVIOUS
  <2>5. f = [e EXCEPT !.fetch = "asked", !.tries = e.tries + 1, !.got = NoData]
    OBVIOUS
  <2>6. /\ f \in [data : Summaries \cup {NoData}, error : BOOLEAN,
                  invalid : BOOLEAN, fetch : {"asked"}, tries : 0..1, got : {NoData}]
        /\ f.data = e.data /\ f.invalid = e.invalid /\ f.got = NoData /\ f.fetch = "asked"
    BY <2>2, <2>3, <2>5
  <2> HIDE DEF f
  <2>7. f \in Entry
    BY <2>4, <2>6 DEF Entry, Entries
  <2> QED
    BY <2>1, <2>6, <2>7
<1>2. CASE ~(e.tries < retry)
  <2> DEFINE f == [e EXCEPT !.fetch = "idle", !.tries = 0, !.got = NoData, !.error = TRUE]
  <2>1. Fail(e, retry) = f
    BY <1>2 DEF Fail
  <2>2. f \in [data : Summaries \cup {NoData}, error : BOOLEAN, invalid : BOOLEAN,
               fetch : {"idle"}, tries : {0}, got : {NoData}]
    BY Zenon DEF Entry, Entries
  <2>3. f.data = e.data /\ f.invalid = e.invalid /\ f.got = NoData /\ f.error = TRUE
        /\ f.fetch = "idle"
    BY Zenon DEF Entry, Entries
  <2>4. {"idle"} \subseteq {"counted"} \cup {"idle", "asked", "answered"} /\ {0} \subseteq 0..1
    OBVIOUS
  <2> HIDE DEF f
  <2>5. f \in Entry
    BY <2>2, <2>4 DEF Entry, Entries
  <2> QED
    BY <2>1, <2>3, <2>5
<1> QED
  BY <1>1, <1>2

-----------------------------------------------------------------------------
(* The variables.                                                          *)

Sends == [phase : Phases, key : Keys, channel : Channels,
          auth : {"valid", "wrong", ""}, id : 0..MaxDeliveries]

\* What TypeOK says of the variables the steps below change.
LEMMA Typed ==
  ASSUME TypeOK
  PROVE  /\ sq \in Entry /\ deliveries \in Seq(Delivered) /\ Len(deliveries) \in Nat
         /\ Len(deliveries) <= MaxDeliveries /\ MaxDeliveries \in Nat
         /\ send \in [Senders -> Sends] /\ \A s \in Senders : send[s] \in Sends
         /\ \A s \in Senders : send[s].id \in Nat
         /\ form.key \in Keys /\ form.channel \in Channels
         /\ floor \in Nat /\ made \in Nat /\ keys \in Nat
<1>1. /\ sq \in Entry /\ deliveries \in Seq(Delivered) /\ Len(deliveries) <= MaxDeliveries
      /\ send \in [Senders -> Sends] /\ form \in [key : Keys, channel : Channels]
      /\ floor \in 0..MaxDeliveries /\ made \in Nat /\ keys \in Keys
  BY Zenon DEF TypeOK, Entry, Delivered, Sends
<1>2. /\ form.key \in Keys /\ form.channel \in Channels
      /\ Len(deliveries) \in Nat /\ MaxDeliveries \in Nat /\ floor \in Nat /\ keys \in Nat
  BY <1>1, OverviewAssumption DEF Keys
<1>3. ASSUME NEW s \in Senders PROVE send[s] \in Sends /\ send[s].id \in Nat
  <2>1. send[s] \in Sends
    BY <1>1
  <2>2. \A m \in Sends : m.id \in 0..MaxDeliveries
    BY DEF Sends
  <2> QED
    BY <2>1, <2>2, <1>2
<1> QED
  BY <1>1, <1>2, <1>3

\* A sender that waits for nothing.
LEMMA NoSendType == NoSend \in Sends /\ NoSend.id = 0
<1>1. 1 \in Keys /\ 0 \in 0..MaxDeliveries
  BY OverviewAssumption DEF Keys
<1> QED
  BY <1>1 DEF NoSend, Sends, Phases, Channels

\* What a new delivery does to the table.
LEMMA Growing ==
  ASSUME TypeOK, NEW k \in Keys, NEW c \in Channels,
         Len(deliveries) < MaxDeliveries, Created(k, c)
  PROVE  /\ deliveries' \in Seq(Delivered) /\ Len(deliveries') = Len(deliveries) + 1
         /\ Len(deliveries') <= MaxDeliveries
         /\ DOMAIN deliveries \subseteq DOMAIN deliveries'
         /\ Len(deliveries) + 1 \in DOMAIN deliveries'
         /\ \A n \in DOMAIN deliveries : deliveries'[n] = deliveries[n]
         /\ deliveries'[Len(deliveries) + 1].key = k
         /\ deliveries'[Len(deliveries) + 1].channel = c
<1> DEFINE d == [key |-> k, channel |-> c, status |-> "queued"]
<1>1. d \in Delivered /\ d.key = k /\ d.channel = c
  BY DEF Delivered, Statuses
<1>2. deliveries' = Append(deliveries, d)
  BY DEF Created
<1> HIDE DEF d
<1>3. deliveries \in Seq(Delivered) /\ Len(deliveries) \in Nat /\ MaxDeliveries \in Nat
  BY Typed
<1> QED
  BY <1>1, <1>2, <1>3

\* A request that is answered.
LEMMA Answered ==
  ASSUME NEW m \in Sends, NEW n \in 0..MaxDeliveries, NEW a \in {"valid", "wrong", ""}
  PROVE  LET r == [m EXCEPT !.phase = "done", !.auth = a, !.id = n]
             t == [m EXCEPT !.phase = "done", !.id = n]
         IN  /\ r \in Sends /\ r.id = n
             /\ t \in Sends /\ t.id = n
<1> DEFINE r == [m EXCEPT !.phase = "done", !.auth = a, !.id = n]
           t == [m EXCEPT !.phase = "done", !.id = n]
<1>1. /\ r \in [phase : {"done"}, key : Keys, channel : Channels, auth : {"valid", "wrong", ""},
                id : 0..MaxDeliveries]
      /\ t \in [phase : {"done"}, key : Keys, channel : Channels, auth : {"valid", "wrong", ""},
                id : 0..MaxDeliveries]
      /\ r.id = n /\ t.id = n
  BY Zenon DEF Sends
<1>2. {"done"} \subseteq Phases
  BY DEF Phases
<1> HIDE DEF r, t
<1>3. r \in Sends /\ t \in Sends
  BY <1>1, <1>2 DEF Sends
<1> QED
  BY <1>1, <1>3 DEF r, t

\* One sender changes, to a request that knows no more than the table.
LEMMA SendChange ==
  ASSUME TypeOK, FloorInv, NEW s0 \in Senders, NEW r \in Sends, NEW l \in Nat,
         Len(deliveries) <= l, r.id <= l, send' = [send EXCEPT ![s0] = r]
  PROVE  /\ send' \in [Senders -> Sends] /\ \A s \in Senders : send'[s].id <= l
<1>1. send \in [Senders -> Sends] /\ Len(deliveries) \in Nat
      /\ \A s \in Senders : send[s].id \in Nat
  BY Typed
<1>2. \A s \in Senders : send[s].id <= Len(deliveries)
  BY Zenon DEF FloorInv
<1>3. send' \in [Senders -> Sends]
  BY <1>1
<1>4. ASSUME NEW s \in Senders PROVE send'[s].id <= l
  <2>1. CASE s = s0
    BY <1>1, <2>1
  <2>2. CASE s # s0
    BY <1>1, <1>2, <2>2
  <2> QED
    BY <2>1, <2>2
<1> QED
  BY <1>3, <1>4

-----------------------------------------------------------------------------
(* What keeps the parts of the invariant.                                  *)

\* A step that leaves the entry and the floor alone and removes no delivery.
LEMMA ShownKept ==
  ASSUME TypeOK, FloorInv, CountInv, sq' = sq, floor' = floor,
         Len(deliveries') \in Nat, Len(deliveries) <= Len(deliveries'),
         \A s \in Senders : send'[s].id <= Len(deliveries')
  PROVE  FloorInv' /\ CountInv'
<1>1. SentIsShown'
  BY DEF FloorInv, SentIsShown, Rows
<1>2. floor' <= Len(deliveries')
  BY Typed DEF FloorInv
<1>3. FloorInv'
  BY <1>1, <1>2 DEF FloorInv
<1>4. sq.got # NoData => sq.got.total \in Nat
  BY Typed, EntryFields, SummaryFields
<1>5. CountInv'
  BY <1>4, Typed DEF CountInv
<1> QED
  BY <1>3, <1>5

\* A step that leaves the form alone and keeps what is registered.
LEMMA MadeKept ==
  ASSUME MadeInv, form' = form, made' = made, DOMAIN deliveries \subseteq DOMAIN deliveries',
         \A n \in DOMAIN deliveries : /\ deliveries'[n].key = deliveries[n].key
                                      /\ deliveries'[n].channel = deliveries[n].channel
  PROVE  MadeInv'
<1>1. ASSUME made = 1 PROVE Registered(form.key, form.channel)' # {}
  <2>1. PICK n \in DOMAIN deliveries :
          deliveries[n].key = form.key /\ deliveries[n].channel = form.channel
    BY <1>1 DEF MadeInv, Registered
  <2>2. n \in Registered(form.key, form.channel)'
    BY <2>1 DEF Registered
  <2> QED
    BY <2>2
<1> QED
  BY <1>1 DEF MadeInv

\* A step that changes the entry only.
LEMMA EntryStep ==
  ASSUME IInv, UNCHANGED rest, sq' \in Entry, NEW q, sq' = q,
         q.data = NoData => sq.data = NoData,
         q.fetch = "answered" => q.got # NoData /\ floor <= Newest(q.got.rows) /\ Complete(q.got),
         q.fetch = "counted" => q.got # NoData /\ q.got.total <= Len(deliveries),
         q.data # NoData => Complete(q.data),
         q.data # NoData /\ Newest(q.data.rows) < floor =>
           q.invalid /\ (q.fetch # "idle" \/ q.error)
  PROVE  IInv'
<1>1. /\ TypeOK'
  BY Zenon DEF IInv, TypeOK, rest, store, Entry
<1>2. MadeInv'
  BY MadeKept DEF IInv, rest
<1>3. SentIsShown'
  <2>1. q.data # NoData => Rows' = q.data.rows
    BY DEF Rows
  <2> QED
    BY <2>1 DEF SentIsShown, Newest, rest
<1>4. FloorInv'
  BY <1>3 DEF IInv, FloorInv, rest
<1>5. CountInv'
  BY DEF IInv, CountInv, rest
<1> QED
  BY <1>1, <1>2, <1>4, <1>5 DEF IInv

-----------------------------------------------------------------------------
(* One lemma per action.                                                   *)

\* A changed form has made nothing yet.
LEMMA EditStep == ASSUME IInv, EditForm PROVE IInv'
<1>1. TypeOK /\ MadeInv /\ FloorInv /\ CountInv
  BY DEF IInv
<1>2. form' \in [key : Keys, channel : Channels] /\ keys' \in Keys
  <2>1. form \in [key : Keys, channel : Channels] /\ keys \in Keys
    BY <1>1 DEF TypeOK
  <2> QED
    BY <2>1 DEF EditForm, GenKey, Preset, Keys, Channels
<1>3. edits' \in 0..MaxEdits
  <2>1. edits \in 0..MaxEdits /\ edits < MaxEdits /\ edits' = edits + 1
    BY <1>1, Zenon DEF EditForm, TypeOK
  <2> QED
    BY <2>1, OverviewAssumption
<1>4. TypeOK'
  BY <1>1, <1>2, <1>3, Zenon DEF EditForm, TypeOK, store
<1>5. MadeInv'
  BY DEF EditForm, MadeInv
<1>6. FloorInv' /\ CountInv'
  BY <1>1, Typed, ShownKept DEF EditForm, FloorInv
<1> QED
  BY <1>4, <1>5, <1>6 DEF IInv

\* A setting is no part of what is shown.
LEMMA SettingStep == ASSUME IInv, ChangeSetting PROVE IInv'
<1>1. TypeOK /\ MadeInv /\ FloorInv /\ CountInv
  BY DEF IInv
<1>2. edits' \in 0..MaxEdits
  <2>1. edits \in 0..MaxEdits /\ edits < MaxEdits /\ edits' = edits + 1
    BY <1>1, Zenon DEF ChangeSetting, TypeOK
  <2> QED
    BY <2>1, OverviewAssumption
<1>3. autoRefresh' \in BOOLEAN /\ apiKey' \in {"valid", "wrong", ""}
  BY <1>1, Zenon DEF ChangeSetting, TypeOK
<1>4. TypeOK'
  BY <1>1, <1>2, <1>3, Zenon DEF ChangeSetting, TypeOK
<1>5. MadeInv'
  BY <1>1, MadeKept DEF ChangeSetting
<1>6. FloorInv' /\ CountInv'
  <2>1. UNCHANGED <<sq, floor, deliveries, send>>
    BY Zenon DEF ChangeSetting
  <2> QED
    BY <1>1, <2>1, Typed, ShownKept DEF FloorInv
<1> QED
  BY <1>4, <1>5, <1>6 DEF IInv

\* A request leaves with the form as it is.
LEMMA SubmitStep == ASSUME IInv, Submit PROVE IInv'
<1>1. TypeOK /\ MadeInv /\ FloorInv /\ CountInv
  BY DEF IInv
<1> DEFINE m == [phase |-> "sent", auth |-> apiKey, id |-> 0,
                 key |-> form.key, channel |-> form.channel]
<1>2. m \in Sends /\ m.id = 0
  <2>1. apiKey \in {"valid", "wrong", ""}
    BY <1>1, Zenon DEF TypeOK
  <2>2. 0 \in 0..MaxDeliveries /\ "sent" \in Phases
    BY OverviewAssumption DEF Phases
  <2> QED
    BY <1>1, <2>1, <2>2, Typed DEF Sends
<1>3. send' = [send EXCEPT !["form"] = m]
  BY DEF Submit
<1> HIDE DEF m
<1>4. send' \in [Senders -> Sends] /\ \A s \in Senders : send'[s].id <= Len(deliveries)
  <2>1. "form" \in Senders /\ Len(deliveries) \in Nat
        /\ m.id <= Len(deliveries) /\ Len(deliveries) <= Len(deliveries)
    BY <1>1, <1>2, Typed DEF Senders
  <2> QED
    BY <1>1, <1>2, <1>3, <2>1, SendChange
<1>5. TypeOK'
  BY <1>1, <1>4, Zenon DEF Submit, TypeOK, store, Sends
<1>6. MadeInv'
  BY <1>1, MadeKept DEF Submit
<1>7. FloorInv' /\ CountInv'
  BY <1>1, <1>4, Typed, ShownKept DEF Submit
<1> QED
  BY <1>5, <1>6, <1>7 DEF IInv

\* The request of the form makes a delivery, or finds the one its key has made:
\* then nothing was made from this form before.
LEMMA ServeSendStep == ASSUME IInv, ServeSend PROVE IInv'
<1>1. TypeOK /\ MadeInv /\ FloorInv /\ CountInv
  BY DEF IInv
<1> DEFINE m == send["form"]
<1>2. m \in Sends /\ m.key \in Keys /\ m.channel \in Channels
  BY <1>1, Typed DEF Senders, Sends
<1>3. ASSUME NEW n \in 1..MaxDeliveries, NEW l \in Nat, Len(deliveries) <= l, n <= l,
             send' = [send EXCEPT !["form"].phase = "done", !["form"].id = n]
      PROVE  send' \in [Senders -> Sends] /\ \A s \in Senders : send'[s].id <= l
  <2> DEFINE r == [m EXCEPT !.phase = "done", !.id = n]
  <2>1. n \in 0..MaxDeliveries /\ "form" \in Senders
    BY OverviewAssumption DEF Senders
  <2>2. r \in Sends /\ r.id = n
    BY <1>2, <2>1, Answered
  <2>3. send' = [send EXCEPT !["form"] = r]
    BY <1>1, <1>3, <2>1, Typed
  <2> HIDE DEF r, m
  <2> QED
    BY <1>1, <1>3, <2>1, <2>2, <2>3, SendChange
<1>4. ASSUME Registered(m.key, m.channel) = {}, Created(m.key, m.channel),
             send' = [send EXCEPT !["form"].phase = "done", !["form"].id = Len(deliveries) + 1],
             made' = IF form = [key |-> m.key, channel |-> m.channel] THEN made + 1 ELSE made
      PROVE  IInv'
  <2>0. Len(deliveries) < MaxDeliveries
    BY DEF ServeSend
  <2>1. /\ deliveries' \in Seq(Delivered) /\ Len(deliveries') = Len(deliveries) + 1
        /\ Len(deliveries') <= MaxDeliveries
        /\ DOMAIN deliveries \subseteq DOMAIN deliveries'
        /\ Len(deliveries) + 1 \in DOMAIN deliveries'
        /\ \A n \in DOMAIN deliveries : deliveries'[n] = deliveries[n]
        /\ deliveries'[Len(deliveries) + 1].key = m.key
        /\ deliveries'[Len(deliveries) + 1].channel = m.channel
    BY <1>1, <1>2, <1>4, <2>0, Growing
  <2>2. Len(deliveries) + 1 \in 1..MaxDeliveries
    BY <1>1, <2>0, Typed
  <2>3. send' \in [Senders -> Sends] /\ \A s \in Senders : send'[s].id <= Len(deliveries')
    <3>1. /\ Len(deliveries') \in Nat /\ Len(deliveries) <= Len(deliveries')
          /\ Len(deliveries) + 1 <= Len(deliveries')
      BY <1>1, <2>1, Typed
    <3> QED
      BY <1>3, <1>4, <2>2, <3>1
  <2> HIDE DEF m
  <2>5. made' \in Nat
    BY <1>1, <1>4, Typed
  <2>6. TypeOK'
    BY <1>1, <2>1, <2>3, <2>5, Zenon DEF ServeSend, TypeOK, store, Sends, Delivered
  <2>7. MadeInv'
    <3>1. CASE form = [key |-> m.key, channel |-> m.channel]
      <4>1. form.key = m.key /\ form.channel = m.channel
        BY <3>1
      <4>2. made = 0
        BY <1>1, <1>4, <4>1, Typed DEF MadeInv
      <4>3. made' = 1
        BY <1>4, <3>1, <4>2
      <4>4. form' = form
        BY DEF ServeSend
      <4>5. Len(deliveries) + 1 \in Registered(form.key, form.channel)'
        BY <2>1, <4>1, <4>4 DEF Registered
      <4> QED
        BY <4>3, <4>4, <4>5 DEF MadeInv
    <3>2. CASE form # [key |-> m.key, channel |-> m.channel]
      <4>1. made' = made /\ form' = form
        BY <1>4, <3>2 DEF ServeSend
      <4> QED
        BY <1>1, <2>1, <4>1, MadeKept
    <3> QED
      BY <3>1, <3>2
  <2>8. FloorInv' /\ CountInv'
    BY <1>1, <2>1, <2>3, Typed, ShownKept DEF ServeSend
  <2> QED
    BY <2>6, <2>7, <2>8 DEF IInv
<1>5. ASSUME NEW n \in Registered(m.key, m.channel),
             send' = [send EXCEPT !["form"].phase = "done", !["form"].id = n],
             UNCHANGED <<deliveries, made>>
      PROVE  IInv'
  <2>1. n \in 1..Len(deliveries) /\ n \in 1..MaxDeliveries
    BY <1>1, <1>5, Typed DEF Registered
  <2>2. send' \in [Senders -> Sends] /\ \A s \in Senders : send'[s].id <= Len(deliveries)
    <3>1. Len(deliveries) \in Nat /\ Len(deliveries) <= Len(deliveries) /\ n <= Len(deliveries)
      BY <1>1, <2>1, Typed
    <3> QED
      BY <1>3, <1>5, <2>1, <3>1
  <2> HIDE DEF m
  <2>4. TypeOK'
    BY <1>1, <1>5, <2>2, Zenon DEF ServeSend, TypeOK, store, Sends
  <2>5. MadeInv'
    BY <1>1, <1>5, MadeKept DEF ServeSend
  <2>6. FloorInv' /\ CountInv'
    <3>1. Len(deliveries') \in Nat /\ Len(deliveries) <= Len(deliveries')
      BY <1>1, <1>5, Typed
    <3> QED
      BY <1>1, <1>5, <2>2, <3>1, ShownKept DEF ServeSend
  <2> QED
    BY <2>4, <2>5, <2>6 DEF IInv
<1> QED
  BY <1>4, <1>5 DEF ServeSend

\* A request of the panel makes a delivery, none of them from the form.
LEMMA ServePanelStep == ASSUME IInv, ServePanel PROVE IInv'
<1>1. TypeOK /\ MadeInv /\ FloorInv /\ CountInv
  BY DEF IInv
<1>2. Len(deliveries) < MaxDeliveries /\ Created(0, "email")
  BY DEF ServePanel
<1>3. 0 \in Keys /\ "email" \in Channels
  BY DEF Keys, Channels
<1>4. /\ deliveries' \in Seq(Delivered) /\ Len(deliveries') = Len(deliveries) + 1
      /\ Len(deliveries') <= MaxDeliveries
      /\ DOMAIN deliveries \subseteq DOMAIN deliveries'
      /\ \A n \in DOMAIN deliveries : deliveries'[n] = deliveries[n]
  BY <1>1, <1>2, <1>3, Growing
<1> DEFINE n == Len(deliveries) + 1
           r == [send["panel"] EXCEPT !.phase = "done", !.auth = "valid", !.id = n]
<1>5. r \in Sends /\ r.id = n
  <2>1. n \in 0..MaxDeliveries
    BY <1>1, <1>2, Typed
  <2>2. send["panel"] \in Sends
    BY <1>1, Typed DEF Senders
  <2> QED
    BY <2>1, <2>2, Answered
<1>6. send' = [send EXCEPT !["panel"] = r]
  BY <1>1, Typed DEF Senders, ServePanel
<1> HIDE DEF r
<1>7. send' \in [Senders -> Sends] /\ \A s \in Senders : send'[s].id <= Len(deliveries')
  <2>1. /\ "panel" \in Senders /\ Len(deliveries') \in Nat
        /\ Len(deliveries) <= Len(deliveries') /\ n <= Len(deliveries')
    BY <1>1, <1>4, Typed DEF Senders
  <2> QED
    BY <1>1, <1>5, <1>6, <2>1, SendChange
<1>8. TypeOK'
  BY <1>1, <1>4, <1>7, Zenon DEF ServePanel, TypeOK, store, Sends, Delivered
<1>9. MadeInv'
  BY <1>1, <1>4, MadeKept DEF ServePanel
<1>10. FloorInv' /\ CountInv'
  BY <1>1, <1>4, <1>7, Typed, ShownKept DEF ServePanel
<1> QED
  BY <1>8, <1>9, <1>10 DEF IInv

\* The confirmed send raises the floor and cancels the fetches that were under
\* way, so that none of them answers with less.
LEMMA SendDoneStep == ASSUME IInv, NEW s \in Senders, SendDone(s) PROVE IInv'
<1>1. TypeOK /\ MadeInv /\ FloorInv /\ CountInv
  BY DEF IInv
<1>2. /\ sq' = Invalidate(sq, TRUE) /\ send' = [send EXCEPT ![s] = NoSend]
      /\ UNCHANGED <<autoRefresh, apiKey, deliveries, up, outages, edits>>
      /\ floor' = IF sq.data # NoData /\ send[s].id > floor THEN send[s].id ELSE floor
  BY DEF SendDone
<1>3. /\ sq \in Entry /\ Len(deliveries) \in Nat /\ floor \in Nat
      /\ floor <= Len(deliveries) /\ send[s].id <= Len(deliveries) /\ send[s].id \in Nat
  BY <1>1, Typed DEF FloorInv
<1>4. /\ sq' \in Entry /\ sq'.data = sq.data /\ sq'.invalid = TRUE /\ sq'.fetch # "idle"
      /\ sq'.fetch \in {"counted", "answered"} => sq'.fetch = sq.fetch /\ sq'.got = sq.got
      /\ sq.data # NoData => sq'.got = NoData
  BY <1>2, <1>3, InvalidateFields
<1>5. send' \in [Senders -> Sends] /\ \A x \in Senders : send'[x].id <= Len(deliveries')
  <2>1. NoSend \in Sends /\ NoSend.id <= Len(deliveries) /\ Len(deliveries) <= Len(deliveries)
    BY <1>3, NoSendType
  <2> QED
    BY <1>1, <1>2, <1>3, <2>1, SendChange
<1>6. form' \in [key : Keys, channel : Channels] /\ keys' \in Keys /\ made' \in Nat
  <2>1. form \in [key : Keys, channel : Channels] /\ keys \in Keys /\ made \in Nat
    BY <1>1, Zenon DEF TypeOK
  <2> QED
    BY <2>1 DEF SendDone, GenKey, Keys
<1>7. floor' \in 0..MaxDeliveries /\ floor' <= Len(deliveries') /\ (sq.data = NoData => floor' = floor)
  BY <1>1, <1>2, <1>3, Typed
<1>8. TypeOK'
  BY <1>1, <1>2, <1>4, <1>5, <1>6, <1>7, Zenon DEF TypeOK, Entry, Sends
<1>9. MadeInv'
  <2>1. CASE made' = 0
    BY <2>1 DEF MadeInv
  <2>2. CASE UNCHANGED <<form, keys, made>>
    BY <1>1, <1>2, <2>2, MadeKept
  <2> QED
    BY <2>1, <2>2 DEF SendDone
<1>10. FloorInv'
  <2>1. SentIsShown'
    BY <1>4 DEF SentIsShown
  <2>2. sq'.data = NoData => floor' = 0
    BY <1>1, <1>4, <1>7 DEF FloorInv
  <2>3. ASSUME sq'.fetch = "answered"
        PROVE  sq'.got # NoData /\ floor' <= Newest(sq'.got.rows)
    <3>1. sq.fetch = "answered" /\ sq'.got = sq.got /\ sq.got # NoData
      BY <1>1, <1>4, <2>3 DEF FloorInv
    <3>2. sq.data = NoData
      BY <1>4, <3>1
    <3> QED
      BY <1>1, <1>7, <3>1, <3>2 DEF FloorInv
  <2> QED
    BY <1>5, <1>7, <2>1, <2>2, <2>3 DEF FloorInv
<1>11. CountInv'
  BY <1>1, <1>2, <1>4 DEF CountInv
<1> QED
  BY <1>8, <1>9, <1>10, <1>11 DEF IInv

\* A failed send keeps the form and what was made from it.
LEMMA SendFailedStep == ASSUME IInv, NEW s \in Senders, SendFailed(s) PROVE IInv'
<1>1. TypeOK /\ MadeInv /\ FloorInv /\ CountInv
  BY DEF IInv
<1>2. /\ send' = [send EXCEPT ![s] = NoSend]
      /\ UNCHANGED <<store, form, keys, sq, deliveries, up, outages, edits, made, floor>>
  BY DEF SendFailed
<1>3. Len(deliveries) \in Nat /\ NoSend \in Sends /\ NoSend.id <= Len(deliveries)
      /\ Len(deliveries) <= Len(deliveries)
  BY <1>1, Typed, NoSendType
<1>4. send' \in [Senders -> Sends] /\ \A x \in Senders : send'[x].id <= Len(deliveries)
  BY <1>1, <1>2, <1>3, SendChange
<1>5. TypeOK'
  BY <1>1, <1>2, <1>4, Zenon DEF TypeOK, store, Sends
<1>6. MadeInv'
  BY <1>1, <1>2, MadeKept
<1>7. FloorInv' /\ CountInv'
  BY <1>1, <1>2, <1>3, <1>4, ShownKept
<1> QED
  BY <1>5, <1>6, <1>7 DEF IInv

\* What the invariant says of the entry.
LEMMA EntryFacts ==
  ASSUME IInv
  PROVE  /\ sq \in Entry /\ deliveries \in Seq(Delivered) /\ Len(deliveries) \in Nat
         /\ Len(deliveries) <= MaxDeliveries /\ floor \in Nat /\ floor <= Len(deliveries)
         /\ sq.data = NoData => floor = 0
         /\ sq.data # NoData => Complete(sq.data)
         /\ sq.data # NoData /\ Newest(sq.data.rows) < floor =>
              sq.invalid /\ (sq.fetch # "idle" \/ sq.error)
         /\ sq.fetch = "answered" =>
              sq.got # NoData /\ floor <= Newest(sq.got.rows) /\ Complete(sq.got)
         /\ sq.fetch = "counted" => sq.got # NoData /\ sq.got.total <= Len(deliveries)
<1>1. TypeOK /\ FloorInv /\ CountInv
  BY DEF IInv
<1>2. SentIsShown
  BY <1>1 DEF FloorInv
<1>3. sq.data # NoData /\ Newest(sq.data.rows) < floor =>
        sq.invalid /\ (sq.fetch # "idle" \/ sq.error)
  BY <1>2 DEF SentIsShown, Rows, Newest
<1> QED
  BY <1>1, <1>3, Typed DEF FloorInv, CountInv

\* A fetch that starts changes nothing that is shown.
LEMMA FetchStep == ASSUME IInv, PollSummary \/ Refocus PROVE IInv'
<1> DEFINE f == StartFetch(sq)
<1>1. sq.fetch = "idle" /\ sq' = f /\ UNCHANGED rest
  BY DEF PollSummary, Refocus
<1>2. /\ f \in Entry /\ f.data = sq.data /\ f.invalid = sq.invalid /\ f.fetch # "idle"
      /\ f.fetch \in {"counted", "answered"} => f.fetch = sq.fetch /\ f.got = sq.got
  BY EntryFacts, StartFetchFields
<1> HIDE DEF f
<1> QED
  BY <1>1, <1>2, EntryFacts, EntryStep

\* The two reads, with what they set.
LEMMA ReadFields ==
  ASSUME NEW e \in Entry, NEW d \in Summaries, NEW p \in {"counted", "answered"}
  PROVE  LET f == [e EXCEPT !.fetch = p, !.got = d]
         IN  /\ f \in Entry /\ f.data = e.data /\ f.invalid = e.invalid
             /\ f.fetch = p /\ f.got = d /\ f.error = e.error
<1> DEFINE f == [e EXCEPT !.fetch = p, !.got = d]
<1>1. /\ f \in [data : Summaries \cup {NoData}, error : BOOLEAN, invalid : BOOLEAN,
                fetch : {"counted", "answered"}, tries : 0..1, got : Summaries]
      /\ f.data = e.data /\ f.invalid = e.invalid
      /\ f.fetch = p /\ f.got = d /\ f.error = e.error
  BY Zenon DEF Entry, Entries
<1>2. /\ {"counted", "answered"} \subseteq {"counted"} \cup {"idle", "asked", "answered"}
      /\ Summaries \subseteq Summaries \cup {NoData}
  OBVIOUS
<1> HIDE DEF f
<1>3. f \in Entry
  BY <1>1, <1>2 DEF Entry, Entries
<1> QED
  BY <1>1, <1>3 DEF f

\* The counts are of the deliveries there are.
LEMMA ReadCountsStep == ASSUME IInv, ReadCounts PROVE IInv'
<1> DEFINE d == Reads(deliveries)
           f == [sq EXCEPT !.fetch = "counted", !.got = d]
<1>1. sq' = f /\ UNCHANGED rest
  BY DEF ReadCounts
<1>2. d \in Summaries /\ d.total = Len(deliveries) /\ d # NoData
  BY EntryFacts, ReadsType, SummaryFields
<1> HIDE DEF d
<1>3. /\ f \in Entry /\ f.data = sq.data /\ f.invalid = sq.invalid /\ f.fetch = "counted"
      /\ f.got = d
  BY <1>2, EntryFacts, ReadFields
<1> HIDE DEF f
<1> QED
  BY <1>1, <1>2, <1>3, EntryFacts, EntryStep

\* The rows are read after the counts: no counted delivery has gone since.
LEMMA ReadRowsStep == ASSUME IInv, ReadRows PROVE IInv'
<1> DEFINE r == Reads(deliveries)
           d == Summary(sq.got, r)
           f == [sq EXCEPT !.fetch = "answered", !.got = d]
<1>1. sq.fetch = "counted" /\ sq' = f /\ UNCHANGED rest
  BY DEF ReadRows
<1>2. r \in Summaries /\ r.rows = Listed(deliveries)
  BY EntryFacts, ReadsType
<1>3. sq.got \in Summaries /\ sq.got.total <= Len(deliveries)
  BY <1>1, EntryFacts, EntryFields
<1>4. d \in Summaries /\ d.total = sq.got.total /\ d.rows = Listed(deliveries)
  <2>1. sq.got.total \in 0..MaxDeliveries /\ Listed(deliveries) \in Pages
    BY <1>3, EntryFacts, SummaryFields, ListedIsAPage
  <2> HIDE DEF r
  <2> QED
    BY <1>2, <2>1 DEF Summary, Summaries
<1> HIDE DEF d
<1>5. /\ f \in Entry /\ f.data = sq.data /\ f.invalid = sq.invalid /\ f.fetch = "answered"
      /\ f.got = d
  BY <1>4, EntryFacts, ReadFields
<1> HIDE DEF f
<1>6. d # NoData /\ floor <= Newest(d.rows)
  BY <1>4, EntryFacts, ListedIsAPage, SummaryFields
<1>7. Complete(d)
  BY <1>3, <1>4, EntryFacts, ListedIsAPage, OverviewAssumption DEF Complete
<1> QED
  BY <1>1, <1>5, <1>6, <1>7, EntryFacts, EntryStep

\* An answer that arrives knows of every confirmed send.
LEMMA ArrivesStep == ASSUME IInv, SummaryArrives PROVE IInv'
<1> DEFINE f == Settle(sq)
<1>1. sq.fetch = "answered" /\ sq' = f /\ UNCHANGED rest
  BY DEF SummaryArrives
<1>2. f \in Entry /\ f.data = sq.got /\ f.got = NoData /\ f.fetch = "idle"
  BY EntryFacts, SettleFields
<1> HIDE DEF f
<1>3. sq.got \in Summaries /\ floor <= Newest(sq.got.rows) /\ Complete(sq.got) /\ sq.got # NoData
  BY <1>1, EntryFacts, EntryFields
<1>4. Newest(sq.got.rows) \in Nat
  <2>1. sq.got.rows \in Seq(ListedRows)
    BY <1>3, SummaryFields
  <2>2. CASE sq.got.rows = <<>>
    BY <2>2 DEF Newest
  <2>3. CASE sq.got.rows # <<>>
    <3>1. sq.got.rows[1] \in ListedRows
      BY <2>1, <2>3
    <3> QED
      BY <2>3, <3>1, OverviewAssumption DEF Newest, ListedRows
  <2> QED
    BY <2>2, <2>3
<1>5. ~(Newest(f.data.rows) < floor)
  BY <1>2, <1>3, <1>4, EntryFacts
<1> QED
  BY <1>1, <1>2, <1>3, <1>5, EntryStep

\* A fetch that fails shows the same data, marked as before.
LEMMA FailsStep == ASSUME IInv, SummaryFails PROVE IInv'
<1> DEFINE f == Fail(sq, 1)
<1>1. sq.fetch # "idle" /\ sq' = f /\ UNCHANGED rest
  BY DEF SummaryFails
<1>2. /\ f \in Entry /\ f.data = sq.data /\ f.invalid = sq.invalid /\ f.got = NoData
      /\ (f.fetch # "idle" \/ f.error) /\ f.fetch \in {"asked", "idle"}
  BY EntryFacts, FailFields
<1> HIDE DEF f
<1> QED
  BY <1>1, <1>2, EntryFacts, EntryStep

\* A worker's success changes the status of a row and nothing else.
LEMMA DeliverStep == ASSUME IInv, NEW id \in DOMAIN deliveries, Deliver(id) PROVE IInv'
<1>1. TypeOK /\ MadeInv /\ FloorInv /\ CountInv
  BY DEF IInv
<1> DEFINE d == [deliveries[id] EXCEPT !.status = "succeeded"]
<1>2. /\ deliveries \in Seq(Delivered) /\ Len(deliveries) \in Nat
      /\ Len(deliveries) <= Len(deliveries) /\ deliveries[id] \in Delivered
  BY <1>1, Typed
<1>3. d \in Delivered /\ d.key = deliveries[id].key /\ d.channel = deliveries[id].channel
  BY <1>2 DEF Delivered, Statuses
<1>4. deliveries' = [deliveries EXCEPT ![id] = d]
  BY DEF Deliver
<1> HIDE DEF d
<1>5. /\ deliveries' \in Seq(Delivered) /\ Len(deliveries') = Len(deliveries)
      /\ DOMAIN deliveries' = DOMAIN deliveries
      /\ \A n \in DOMAIN deliveries : deliveries'[n] = IF n = id THEN d ELSE deliveries[n]
  BY <1>2, <1>3, <1>4
<1>6. TypeOK'
  BY <1>1, <1>5, Zenon DEF TypeOK, Deliver, store, Delivered
<1>7. MadeInv'
  BY <1>1, <1>3, <1>5, MadeKept DEF Deliver
<1>8. FloorInv' /\ CountInv'
  BY <1>1, <1>2, <1>5, ShownKept DEF Deliver, FloorInv
<1> QED
  BY <1>6, <1>7, <1>8 DEF IInv

\* An outage changes no data.
LEMMA ApiStep == ASSUME IInv, GoDown \/ ComeUp PROVE IInv'
<1>1. TypeOK /\ MadeInv /\ FloorInv /\ CountInv
  BY DEF IInv
<1>2. UNCHANGED <<store, form, keys, send, sq, deliveries, edits, made, floor>>
  BY Zenon DEF GoDown, ComeUp
<1>3. up' \in BOOLEAN
  BY Zenon DEF GoDown, ComeUp
<1>4. outages' \in 0..MaxOutages
  <2>1. outages \in 0..MaxOutages
    BY <1>1, Zenon DEF TypeOK
  <2>2. (outages < MaxOutages /\ outages' = outages + 1) \/ outages' = outages
    BY Zenon DEF GoDown, ComeUp
  <2> QED
    BY <2>1, <2>2, OverviewAssumption
<1>5. TypeOK'
  BY <1>1, <1>2, <1>3, <1>4, Zenon DEF TypeOK, store
<1>6. MadeInv'
  BY <1>1, <1>2, MadeKept
<1>7. FloorInv' /\ CountInv'
  BY <1>1, <1>2, Typed, ShownKept DEF FloorInv
<1> QED
  BY <1>5, <1>6, <1>7 DEF IInv

-----------------------------------------------------------------------------
(* The invariant.                                                          *)

\* Nothing is sent, fetched or made yet.
LEMMA InitInv == Init => IInv
<1> SUFFICES ASSUME Init PROVE IInv
  OBVIOUS
<1>1. Blank \in Entry /\ Blank.data = NoData /\ Blank.fetch = "idle"
  BY BlankFields
<1>2. /\ sq \in Entry /\ sq.data = NoData /\ sq.got = NoData
      /\ sq.fetch \notin {"counted", "answered"}
  <2>1. sq = StartFetch(Blank)
    BY Zenon DEF Init
  <2> QED
    BY <1>1, <2>1, StartFetchFields
<1>3. send \in [Senders -> Sends] /\ \A s \in Senders : send[s].id = 0
  <2>1. send = [s \in Senders |-> NoSend]
    BY Zenon DEF Init
  <2> QED
    BY <2>1, NoSendType
<1>4. /\ deliveries = <<>> /\ form = [key |-> 1, channel |-> "email"] /\ keys = 1
      /\ outages = 0 /\ edits = 0 /\ made = 0 /\ floor = 0
      /\ autoRefresh = TRUE /\ apiKey = "valid" /\ up = TRUE
  BY Zenon DEF Init
<1>5. /\ deliveries \in Seq(Delivered) /\ Len(deliveries) = 0 /\ Len(deliveries) <= MaxDeliveries
      /\ made \in Nat /\ floor \in 0..MaxDeliveries
      /\ outages \in 0..MaxOutages /\ edits \in 0..MaxEdits
  BY <1>4, OverviewAssumption
<1>6. form \in [key : Keys, channel : Channels] /\ keys \in Keys
  BY <1>4 DEF Keys, Channels
<1>7. autoRefresh \in BOOLEAN /\ apiKey \in {"valid", "wrong", ""} /\ up \in BOOLEAN
  BY <1>4, Zenon
<1>8. TypeOK
  BY <1>2, <1>3, <1>5, <1>6, <1>7, Zenon DEF TypeOK, Entry, Sends, Delivered
<1>9. MadeInv
  BY <1>4 DEF MadeInv
<1>10. FloorInv
  BY <1>2, <1>3, <1>4, <1>5 DEF FloorInv, SentIsShown
<1>11. CountInv
  BY <1>2 DEF CountInv
<1> QED
  BY <1>8, <1>9, <1>10, <1>11 DEF IInv

\* Every step keeps the invariant.
LEMMA NextStep == IInv /\ [Next]_vars => IInv'
<1> SUFFICES ASSUME IInv, [Next]_vars PROVE IInv'
  OBVIOUS
<1>1. CASE UNCHANGED vars
  <2>1. UNCHANGED rest /\ sq' = sq
    BY <1>1 DEF vars, rest
  <2> QED
    BY <2>1, EntryFacts, EntryStep
<1>2. CASE Next
  BY <1>2, EditStep, SettingStep, SubmitStep, ServeSendStep, ServePanelStep, SendDoneStep,
     SendFailedStep, FetchStep, ReadCountsStep, ReadRowsStep, ArrivesStep, FailsStep,
     DeliverStep, ApiStep
     DEF Next, SummarySettles
<1> QED
  BY <1>1, <1>2

\* The invariant holds in every state.
LEMMA Inductive == Spec => []IInv
  BY InitInv, NextStep, PTL DEF Spec

-----------------------------------------------------------------------------
(* The theorems.                                                           *)

\* The variables of the console's overview keep their types: a summary has at
\* most a window of rows.
THEOREM TypeCorrect == Spec => []TypeOK
<1>1. IInv => TypeOK
  BY DEF IInv
<1> QED
  BY <1>1, Inductive, PTL

\* SendTestForm regenerates its key after a success only, and the ingest handler
\* finds what a key has made: a form that is sent again after a lost answer makes
\* no second delivery.
THEOREM FormSendsOnce == Spec => []NoDoubleSend
<1>1. IInv => NoDoubleSend
  BY DEF IInv, MadeInv, NoDoubleSend
<1> QED
  BY <1>1, Inductive, PTL

\* onSuccess of useSendNotification invalidates the summary: an older one is not
\* left on display as current.
THEOREM SendsAreShown == Spec => []SentIsShown
<1>1. IInv => SentIsShown
  BY DEF IInv, FloorInv
<1> QED
  BY <1>1, Inductive, PTL

\* The status filters of DeliveriesTable split the rows.
LEMMA FiltersSplit ==
  ASSUME NEW rows \in Seq(ListedRows)
  PROVE  Cardinality(Filtered(rows, "queued", "all"))
           + Cardinality(Filtered(rows, "succeeded", "all")) = Len(rows)
<1> DEFINE Q == Filtered(rows, "queued", "all")
           S == Filtered(rows, "succeeded", "all")
<1>1. Q = {i \in 1..Len(rows) : rows[i].status = "queued"}
  BY DEF Filtered
<1>2. S = {i \in 1..Len(rows) : rows[i].status = "succeeded"}
  BY DEF Filtered
<1>3. \A i \in 1..Len(rows) : rows[i].status \in {"queued", "succeeded"}
  <2>1. \A i \in 1..Len(rows) : rows[i] \in ListedRows
    OBVIOUS
  <2>2. \A r \in ListedRows : r.status \in {"queued", "succeeded"}
    BY DEF ListedRows, Statuses
  <2> QED
    BY <2>1, <2>2
<1> HIDE DEF Q, S
<1>4. Q \cup S = 1..Len(rows) /\ Q \cap S = {}
  BY <1>1, <1>2, <1>3
<1>5. IsFiniteSet(1..Len(rows)) /\ Cardinality(1..Len(rows)) = Len(rows)
  <2>1. Len(rows) \in Nat /\ 1 \in Int /\ Len(rows) \in Int
    OBVIOUS
  <2>2. /\ IsFiniteSet(1..Len(rows))
        /\ Cardinality(1..Len(rows)) = IF 1 > Len(rows) THEN 0 ELSE Len(rows) - 1 + 1
    BY <2>1, FS_Interval
  <2> QED
    BY <2>1, <2>2
<1>6. IsFiniteSet(Q) /\ IsFiniteSet(S)
  BY <1>4, <1>5, FS_Subset
<1>7. Cardinality(Q \cup S) = Cardinality(Q) + Cardinality(S) - Cardinality(Q \cap S)
  BY <1>6, FS_Union
<1>8. Cardinality(Q \cap S) = 0
  BY <1>4, FS_EmptySet
<1>9. Cardinality(Q) \in Nat /\ Cardinality(S) \in Nat
  BY <1>6, FS_CardinalityType
<1>10. Cardinality(Q) + Cardinality(S) = Len(rows)
  <2>1. Cardinality(Q \cup S) = Len(rows)
    BY <1>4, <1>5
  <2> QED
    BY <2>1, <1>7, <1>8, <1>9
<1> QED
  BY <1>10 DEF Q, S

\* DashboardRepo.Summary counts before it lists and no delivery is ever removed:
\* while the table is not cut off, all that StatsBar counts is under one of the
\* filters of DeliveriesTable.
THEOREM CountsAreListed == Spec => []CountedIsListed
<1>1. ASSUME IInv PROVE CountedIsListed
  <2> DEFINE total == IF sq.data = NoData THEN 0 ELSE sq.data.total
  <2>1. Rows \in Seq(ListedRows) /\ (Len(Rows) < Window => total <= Len(Rows))
    <3>1. CASE sq.data = NoData
      BY <3>1 DEF Rows
    <3>2. CASE sq.data # NoData
      <4>1. sq.data \in Summaries /\ Complete(sq.data)
        BY <1>1, <3>2, EntryFacts, EntryFields
      <4> QED
        BY <3>2, <4>1, SummaryFields DEF Rows, Complete
    <3> QED
      BY <3>1, <3>2
  <2>2. Cardinality(Filtered(Rows, "queued", "all"))
           + Cardinality(Filtered(Rows, "succeeded", "all")) = Len(Rows)
    BY <2>1, FiltersSplit
  <2>3. StatsTiles.total = Len(Rows) /\ StatsTiles.byStatus = total
    BY DEF StatsTiles
  <2> HIDE DEF total
  <2> QED
    BY <2>1, <2>2, <2>3 DEF CountedIsListed
<1> QED
  BY <1>1, Inductive, PTL
=============================================================================
