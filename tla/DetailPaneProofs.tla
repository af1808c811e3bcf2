-------------------------- MODULE DetailPaneProofs --------------------------
(***************************************************************************)
(* For any number of deliveries, replays, outages and changes of the       *)
(* selection: the pane explains a failure, shows no answer from before a   *)
(* confirmed replay as current, and its strip moves back only with a round.*)
(***************************************************************************)
EXTENDS DetailPane, TLAPS

\* What the pane may rely on in a row or in a snapshot of one.
Explained(d) ==
  /\ d.status = "dlq" => d.lastError /\ d.attempts > d.round
  /\ d.lastError => d.attempts > 0 /\ d.status # "succeeded"

\* b is the same delivery as a, read no earlier.
Follows(a, b) ==
  \/ b.round > a.round
  \/ b.round = a.round /\ ActiveSteps(b.status) >= ActiveSteps(a.status)

\* The worker records the attempt before it moves the row to dlq.
Sound(r) ==
  /\ Explained(r) /\ r.attempts >= r.round
  /\ r.work = "failed" => r.status = "processing" /\ r.attempts > r.round
  /\ r.work = "sent" => r.status = "succeeded"
RowInv == \A id \in Ids : Sound(row[id])

\* An entry e of row r, with fl the round of its last confirmed replay: the
\* answer under way is newer than the data and older than the row, and from
\* before that replay there is no answer under way and only marked data.
Current(e, r, fl) ==
  /\ fl <= r.round
  /\ e.fetch \in {"row", "answered"} => e.got # NoData
  /\ e.data # NoData =>
       /\ r.status \in Statuses /\ Explained(e.data) /\ Follows(e.data, r)
       /\ e.data.round < fl => e.invalid
  /\ e.got # NoData =>
       /\ r.status \in Statuses /\ Explained(e.got) /\ Follows(e.got, r)
       /\ e.got.attempts <= r.attempts /\ e.got.round >= fl
       /\ e.data # NoData => Follows(e.data, e.got)

CacheInv == \A id \in Ids : Current(q[id], row[id], floor[id])

\* A replay is under way for a delivery whose entry has data.
ReplayInv == replay.phase # "idle" => replay.id \in Ids /\ q[replay.id].data # NoData

\* The inductive invariant.
PaneInv == TypeOK /\ RowInv /\ CacheInv /\ ReplayInv /\ ReplayShown

PaneEntries == Entries(Snapshots, {"row"})

\* The fields of an entry.
LEMMA EntryFields ==
  ASSUME NEW e \in PaneEntries
  PROVE  /\ e.data \in Snapshots \cup {NoData} /\ e.got \in Snapshots \cup {NoData}
         /\ e.error \in BOOLEAN /\ e.invalid \in BOOLEAN
  BY DEF PaneEntries, Entries

\* What StartFetch makes of a fetch it does not join.
LEMMA FreshFetch ==
  ASSUME NEW e \in PaneEntries, NEW b \in BOOLEAN, NEW f,
         f = [e EXCEPT !.fetch = "asked", !.tries = 0, !.got = NoData, !.error = b]
  PROVE  /\ f \in PaneEntries /\ f.data = e.data /\ f.invalid = e.invalid
         /\ f.fetch = "asked" /\ f.got = NoData
<1>1. f \in [data : Snapshots \cup {NoData}, error : BOOLEAN, invalid : BOOLEAN,
             fetch : {"asked"}, tries : {0}, got : {NoData}]
  BY Zenon DEF PaneEntries, Entries
<1>2. {"asked"} \subseteq {"row"} \cup {"idle", "asked", "answered"} /\ {0} \subseteq 0..1
  OBVIOUS
<1>3. f \in PaneEntries
  BY <1>1, <1>2 DEF PaneEntries, Entries
<1>4. f.data = e.data /\ f.invalid = e.invalid /\ f.fetch = "asked" /\ f.got = NoData
  BY Zenon DEF PaneEntries, Entries
<1> QED
  BY <1>3, <1>4

\* StartFetch keeps the data and leaves a fetch in flight.
LEMMA StartFetchFields ==
  ASSUME NEW e \in PaneEntries
  PROVE  LET f == StartFetch(e)
         IN  /\ f \in PaneEntries /\ f.data = e.data /\ f.invalid = e.invalid
             /\ f.fetch # "idle" /\ f.got \in {e.got, NoData}
             /\ e.fetch = "idle" => f.got = NoData
             /\ f.fetch \in {"row", "answered"} => f.fetch = e.fetch /\ f.got = e.got
<1>1. CASE e.fetch # "idle"
  BY <1>1 DEF StartFetch
<1>2. CASE e.fetch = "idle"
  <2> DEFINE asked(b) == [e EXCEPT !.fetch = "asked", !.tries = 0, !.got = NoData, !.error = b]
  <2>1. \A b \in BOOLEAN :
          /\ asked(b) \in PaneEntries /\ asked(b).data = e.data /\ asked(b).invalid = e.invalid
          /\ asked(b).fetch = "asked" /\ asked(b).got = NoData
    BY FreshFetch
  <2>2. StartFetch(e) = asked(e.error /\ e.data # NoData)
    BY <1>2 DEF StartFetch
  <2> HIDE DEF asked
  <2>3. \E b \in BOOLEAN : StartFetch(e) = asked(b)
    BY <2>2, Zenon
  <2> QED
    BY <2>1, <2>3
<1> QED
  BY <1>1, <1>2

\* Two single updates.
LEMMA MarkedFields ==
  ASSUME NEW e \in PaneEntries
  PROVE  LET f == [e EXCEPT !.invalid = TRUE]
         IN  /\ f \in PaneEntries /\ f.data = e.data /\ f.invalid = TRUE
             /\ f.fetch = e.fetch /\ f.got = e.got /\ f.error = e.error
<1>1. [e EXCEPT !.invalid = TRUE] \in PaneEntries
  BY DEF PaneEntries, Entries
<1> QED
  BY <1>1, Zenon DEF PaneEntries, Entries

\* A fetch that is cancelled.
LEMMA CancelledFields ==
  ASSUME NEW e \in PaneEntries
  PROVE  LET f == [e EXCEPT !.fetch = "idle"]
         IN  /\ f \in PaneEntries /\ f.data = e.data /\ f.invalid = e.invalid
             /\ f.fetch = "idle"
<1>1. [e EXCEPT !.fetch = "idle"] \in PaneEntries
  BY DEF PaneEntries, Entries
<1> QED
  BY <1>1, Zenon DEF PaneEntries, Entries

\* An invalidation marks the data; a displayed entry with data is asked anew.
LEMMA InvalidateFields ==
  ASSUME NEW e \in PaneEntries, NEW shows \in BOOLEAN
  PROVE  LET f == Invalidate(e, shows)
         IN  /\ f \in PaneEntries /\ f.data = e.data /\ f.invalid = TRUE
             /\ f.got \in {e.got, NoData}
             /\ shows => f.fetch # "idle"
             /\ ~shows => f.fetch = e.fetch /\ f.error = e.error
             /\ shows /\ e.data # NoData => f.got = NoData
             /\ f.fetch \in {"row", "answered"} => f.fetch = e.fetch /\ f.got = e.got
<1> DEFINE marked == [e EXCEPT !.invalid = TRUE]
           idle == [marked EXCEPT !.fetch = "idle"]
<1>1. /\ marked \in PaneEntries /\ marked.data = e.data /\ marked.invalid = TRUE
      /\ marked.fetch = e.fetch /\ marked.got = e.got /\ marked.error = e.error
  BY MarkedFields
<1>2. /\ Invalidate(e, FALSE) = marked
      /\ e.data = NoData => Invalidate(e, TRUE) = StartFetch(marked)
      /\ e.data # NoData => Invalidate(e, TRUE) = StartFetch(idle)
  BY DEF Invalidate
<1> HIDE DEF marked
<1>3. idle \in PaneEntries /\ idle.data = e.data /\ idle.invalid = TRUE /\ idle.fetch = "idle"
  BY <1>1, CancelledFields
<1> HIDE DEF idle
<1>4. CASE ~shows
  BY <1>1, <1>2, <1>4
<1>5. CASE shows /\ e.data = NoData
  <2> DEFINE g == StartFetch(marked)
  <2>1. /\ g \in PaneEntries /\ g.data = e.data /\ g.invalid = TRUE
        /\ g.fetch # "idle" /\ g.got \in {e.got, NoData}
        /\ g.fetch \in {"row", "answered"} => g.fetch = e.fetch /\ g.got = e.got
    BY <1>1, StartFetchFields
  <2>2. Invalidate(e, shows) = g
    BY <1>2, <1>5
  <2> HIDE DEF g
  <2> QED
    BY <1>5, <2>1, <2>2
<1>6. CASE shows /\ e.data # NoData
  <2>1. /\ StartFetch(idle) \in PaneEntries /\ StartFetch(idle).data = e.data
        /\ StartFetch(idle).invalid = TRUE /\ StartFetch(idle).fetch # "idle"
        /\ StartFetch(idle).got = NoData
        /\ StartFetch(idle).fetch \notin {"row", "answered"}
    BY <1>3, StartFetchFields
  <2> QED
    BY <1>2, <1>6, <2>1
<1> QED
  BY <1>4, <1>5, <1>6

\* An entry that was dropped.
LEMMA BlankFields ==
  /\ Blank \in PaneEntries /\ Blank.data = NoData /\ Blank.got = NoData
  /\ Blank.fetch = "idle"
<1>1. Blank \in PaneEntries
  BY DEF Blank, PaneEntries, Entries
<1> QED
  BY <1>1 DEF Blank

\* The answer becomes the data.
LEMMA SettleFields ==
  ASSUME NEW e \in PaneEntries
  PROVE  /\ Settle(e) \in PaneEntries /\ Settle(e).data = e.got /\ Settle(e).got = NoData
         /\ Settle(e).fetch = "idle"
<1>1. e.got \in Snapshots \cup {NoData}
  BY EntryFields
<1>2. ASSUME NEW d \in Snapshots \cup {NoData}
      PROVE  /\ [Blank EXCEPT !.data = d] \in PaneEntries
             /\ [Blank EXCEPT !.data = d].data = d
             /\ [Blank EXCEPT !.data = d].got = Blank.got
             /\ [Blank EXCEPT !.data = d].fetch = Blank.fetch
  BY BlankFields, Zenon DEF PaneEntries, Entries
<1> QED
  BY <1>1, <1>2, BlankFields DEF Settle

\* A failure keeps the data; without another try it is an error.
LEMMA FailFields ==
  ASSUME NEW e \in PaneEntries, NEW retry \in 0..1
  PROVE  LET f == Fail(e, retry)
         IN  /\ f \in PaneEntries /\ f.data = e.data /\ f.invalid = e.invalid
             /\ f.got = NoData /\ (f.fetch # "idle" \/ f.error)
             /\ f.fetch \in {"asked", "idle"}
<1>1. CASE e.tries < retry
  <2> DEFINE f == [e EXCEPT !.fetch = "asked", !.tries = @ + 1, !.got = NoData]
  <2>1. Fail(e, retry) = f
    BY <1>1 DEF Fail
  <2>2. e.tries + 1 \in 0..1
    BY <1>1 DEF PaneEntries, Entries
  <2>3. ASSUME NEW n \in 0..1
        PROVE  LET g == [e EXCEPT !.fetch = "asked", !.tries = n, !.got = NoData]
               IN  /\ g \in [data : Snapshots \cup {NoData}, error : BOOLEAN,
                             invalid : BOOLEAN, fetch : {"asked"}, tries : 0..1,
                             got : {NoData}]
                   /\ g.data = e.data /\ g.invalid = e.invalid /\ g.got = NoData
                   /\ g.fetch = "asked"
    BY Zenon DEF PaneEntries, Entries
  <2>4. {"asked"} \subseteq {"row"} \cup {"idle", "asked", "answered"}
    OBVIOUS
  <2>5. f = [e EXCEPT !.fetch = "asked", !.tries = e.tries + 1, !.got = NoData]
    OBVIOUS
  <2>6. /\ f \in [data : Snapshots \cup {NoData}, error : BOOLEAN,
                  invalid : BOOLEAN, fetch : {"asked"}, tries : 0..1, got : {NoData}]
        /\ f.data = e.data /\ f.invalid = e.invalid /\ f.got = NoData /\ f.fetch = "asked"
    BY <2>2, <2>3, <2>5
  <2> HIDE DEF f
  <2>7. f \in PaneEntries
    BY <2>4, <2>6 DEF PaneEntries, Entries
  <2> QED
    BY <2>1, <2>6, <2>7
<1>2. CASE ~(e.tries < retry)
  <2> DEFINE f == [e EXCEPT !.fetch = "idle", !.tries = 0, !.got = NoData, !.error = TRUE]
  <2>1. Fail(e, retry) = f
    BY <1>2 DEF Fail
  <2>2. f \in [data : Snapshots \cup {NoData}, error : BOOLEAN, invalid : BOOLEAN,
               fetch : {"idle"}, tries : {0}, got : {NoData}]
    BY Zenon DEF PaneEntries, Entries
  <2>3. f.data = e.data /\ f.invalid = e.invalid /\ f.got = NoData /\ f.error = TRUE
        /\ f.fetch = "idle"
    BY Zenon DEF PaneEntries, Entries
  <2>4. {"idle"} \subseteq {"row"} \cup {"idle", "asked", "answered"} /\ {0} \subseteq 0..1
    OBVIOUS
  <2> HIDE DEF f
  <2>5. f \in PaneEntries
    BY <2>2, <2>4 DEF PaneEntries, Entries
  <2> QED
    BY <2>1, <2>3, <2>5
<1> QED
  BY <1>1, <1>2

\* The two reads of the server.
LEMMA ReadFields ==
  ASSUME NEW e \in PaneEntries, NEW d \in Snapshots, NEW l \in {"row", "answered"}
  PROVE  LET f == [e EXCEPT !.fetch = l, !.got = d]
         IN  /\ f \in PaneEntries /\ f.data = e.data /\ f.invalid = e.invalid
             /\ f.got = d /\ f.fetch # "idle"
<1> DEFINE f == [e EXCEPT !.fetch = l, !.got = d]
<1>1. f \in [data : Snapshots \cup {NoData}, error : BOOLEAN, invalid : BOOLEAN,
             fetch : {"row", "answered"}, tries : 0..1, got : Snapshots]
  BY Zenon DEF PaneEntries, Entries
<1>2. f.data = e.data /\ f.invalid = e.invalid /\ f.got = d /\ f.fetch = l
  BY Zenon DEF PaneEntries, Entries
<1>3. {"row", "answered"} \subseteq {"row"} \cup {"idle", "asked", "answered"}
      /\ Snapshots \subseteq Snapshots \cup {NoData}
  OBVIOUS
<1> HIDE DEF f
<1>4. f \in PaneEntries
  BY <1>1, <1>3 DEF PaneEntries, Entries
<1> QED
  BY <1>2, <1>4 DEF f

\* What a step does to a row: it never goes back in round or attempts, and
\* within a round never to an earlier stage.
Moves(r, s) ==
  /\ r.attempts <= s.attempts /\ r.round <= s.round
  /\ r.status \in Statuses => s.status \in Statuses /\ Follows(r, s)

\* The stages of the strip.
LEMMA Stages ==
  /\ ActiveSteps("queued") = 3 /\ ActiveSteps("processing") = 5
  /\ ActiveSteps("dlq") = 5 /\ ActiveSteps("succeeded") = 6
  BY DEF ActiveSteps

\* Stages are numbers, and being read later is transitive.
LEMMA FollowsTrans ==
  ASSUME NEW a, NEW b, NEW c, a.status \in Statuses, b.status \in Statuses,
         c.status \in Statuses, a.round \in Nat, b.round \in Nat, c.round \in Nat,
         Follows(a, b), Follows(b, c)
  PROVE  Follows(a, c)
<1>1. \A s \in Statuses : ActiveSteps(s) \in Nat
  BY Stages DEF Statuses
<1>2. ActiveSteps(a.status) \in Nat /\ ActiveSteps(b.status) \in Nat
      /\ ActiveSteps(c.status) \in Nat
  BY <1>1
<1> QED
  BY <1>2 DEF Follows

\* The fields of a row and of a snapshot.
LEMMA RowFields ==
  ASSUME NEW r \in ServerRows
  PROVE  /\ r.status \in Statuses \cup {"absent"} /\ r.round \in Nat /\ r.round <= MaxReplays
         /\ r.attempts \in Nat /\ r.lastError \in BOOLEAN
         /\ r.work \in {"none", "failed", "sent"}
  BY DetailPaneAssumption DEF ServerRows

\* The fields of what Detail answers.
LEMMA SnapshotFields ==
  ASSUME NEW d \in Snapshots
  PROVE  /\ d.status \in Statuses /\ d.round \in Nat /\ d.attempts \in Nat
         /\ d.lastError \in BOOLEAN
  BY DetailPaneAssumption DEF Snapshots

\* The worker's five writes and the replay's.
LEMMA WriteStep ==
  ASSUME NEW r \in ServerRows, Sound(r), NEW s,
         \/ /\ r.status = "queued"
            /\ s = [r EXCEPT !.status = "processing"]
         \/ /\ r.status = "processing" /\ r.work = "none"
            /\ s = [r EXCEPT !.attempts = @ + 1, !.work = "failed"]
         \/ /\ r.work = "failed"
            /\ s = [r EXCEPT !.status = "dlq", !.lastError = TRUE, !.work = "none"]
         \/ /\ r.status = "processing" /\ r.work = "none"
            /\ s = [r EXCEPT !.status = "succeeded", !.lastError = FALSE, !.work = "sent"]
         \/ /\ r.work = "sent"
            /\ s = [r EXCEPT !.attempts = @ + 1, !.work = "none"]
         \/ /\ r.status = "dlq" /\ r.round < MaxReplays
            /\ s = [r EXCEPT !.status = "queued", !.round = @ + 1]
  PROVE  s \in ServerRows /\ Sound(s) /\ Moves(r, s)
<1>0. /\ r.status \in Statuses \cup {"absent"} /\ r.round \in Nat /\ r.round <= MaxReplays
      /\ r.attempts \in Nat /\ r.lastError \in BOOLEAN
      /\ r.work \in {"none", "failed", "sent"}
  BY RowFields
<1>1. CASE r.status = "queued" /\ s = [r EXCEPT !.status = "processing"]
  <2>1. s \in ServerRows
    BY <1>1 DEF ServerRows, Statuses
  <2>2. /\ s.status = "processing" /\ s.round = r.round /\ s.attempts = r.attempts
        /\ s.lastError = r.lastError /\ s.work = r.work
    BY <1>1, Zenon DEF ServerRows
  <2> QED
    BY <1>0, <1>1, <2>1, <2>2, Stages DEF Sound, Explained, Moves, Follows, Statuses
<1>2. CASE /\ r.status = "processing" /\ r.work = "none"
           /\ s = [r EXCEPT !.attempts = @ + 1, !.work = "failed"]
  <2>1. ASSUME NEW n \in Nat, NEW t, t = [r EXCEPT !.attempts = n, !.work = "failed"]
        PROVE  /\ t \in ServerRows /\ t.status = r.status /\ t.round = r.round
               /\ t.attempts = n /\ t.lastError = r.lastError /\ t.work = "failed"
    BY <2>1, Zenon DEF ServerRows
  <2>2. /\ s \in ServerRows /\ s.status = r.status /\ s.round = r.round
        /\ s.attempts = r.attempts + 1 /\ s.lastError = r.lastError /\ s.work = "failed"
    <3>1. r.attempts + 1 \in Nat
      BY <1>0
    <3>2. s = [r EXCEPT !.attempts = r.attempts + 1, !.work = "failed"]
      BY <1>2
    <3> QED
      BY <2>1, <3>1, <3>2, Zenon
  <2> QED
    BY <1>0, <1>2, <2>2, Stages DEF Sound, Explained, Moves, Follows, Statuses
<1>3. CASE /\ r.work = "failed"
           /\ s = [r EXCEPT !.status = "dlq", !.lastError = TRUE, !.work = "none"]
  <2>1. /\ s.status = "dlq" /\ s.round = r.round /\ s.attempts = r.attempts
        /\ s.lastError = TRUE /\ s.work = "none"
    BY <1>3, Zenon DEF ServerRows
  <2>2. s \in ServerRows
    <3>1. "dlq" \in Statuses \cup {"absent"}
      BY DEF Statuses
    <3> QED
      BY <1>3, <3>1, Zenon DEF ServerRows
  <2> QED
    BY <1>0, <1>3, <2>1, <2>2, Stages DEF Sound, Explained, Moves, Follows, Statuses
<1>4. CASE /\ r.status = "processing" /\ r.work = "none"
           /\ s = [r EXCEPT !.status = "succeeded", !.lastError = FALSE, !.work = "sent"]
  <2>1. /\ s.status = "succeeded" /\ s.round = r.round /\ s.attempts = r.attempts
        /\ s.lastError = FALSE /\ s.work = "sent"
    BY <1>4, Zenon DEF ServerRows
  <2>2. s \in ServerRows
    <3>1. "succeeded" \in Statuses \cup {"absent"}
      BY DEF Statuses
    <3> QED
      BY <1>4, <3>1, Zenon DEF ServerRows
  <2> QED
    BY <1>0, <1>4, <2>1, <2>2, Stages DEF Sound, Explained, Moves, Follows, Statuses
<1>5. CASE /\ r.work = "sent"
           /\ s = [r EXCEPT !.attempts = @ + 1, !.work = "none"]
  <2>1. ASSUME NEW n \in Nat, NEW t, t = [r EXCEPT !.attempts = n, !.work = "none"]
        PROVE  /\ t \in ServerRows /\ t.status = r.status /\ t.round = r.round
               /\ t.attempts = n /\ t.lastError = r.lastError /\ t.work = "none"
    BY <2>1, Zenon DEF ServerRows
  <2>2. /\ s \in ServerRows /\ s.status = r.status /\ s.round = r.round
        /\ s.attempts = r.attempts + 1 /\ s.lastError = r.lastError /\ s.work = "none"
    <3>1. r.attempts + 1 \in Nat
      BY <1>0
    <3>2. s = [r EXCEPT !.attempts = r.attempts + 1, !.work = "none"]
      BY <1>5
    <3> QED
      BY <2>1, <3>1, <3>2, Zenon
  <2> QED
    BY <1>0, <1>5, <2>2, Stages DEF Sound, Explained, Moves, Follows, Statuses
<1>6. CASE /\ r.status = "dlq" /\ r.round < MaxReplays
           /\ s = [r EXCEPT !.status = "queued", !.round = @ + 1]
  <2>1. ASSUME NEW n \in 0..MaxReplays, NEW t, t = [r EXCEPT !.status = "queued", !.round = n]
        PROVE  /\ t \in ServerRows /\ t.status = "queued" /\ t.round = n
               /\ t.attempts = r.attempts /\ t.lastError = r.lastError /\ t.work = r.work
    <3>1. "queued" \in Statuses \cup {"absent"}
      BY DEF Statuses
    <3> QED
      BY <2>1, <3>1, Zenon DEF ServerRows
  <2>2. r.round + 1 \in 0..MaxReplays
    BY <1>0, <1>6, DetailPaneAssumption
  <2>3. /\ s \in ServerRows /\ s.status = "queued" /\ s.round = r.round + 1
        /\ s.attempts = r.attempts /\ s.lastError = r.lastError /\ s.work = r.work
    BY <1>6, <2>1, <2>2
  <2> QED
    BY <1>0, <1>6, <2>3, Stages DEF Sound, Explained, Moves, Follows, Statuses
<1> QED
  BY <1>1, <1>2, <1>3, <1>4, <1>5, <1>6

\* An entry outlives a step of its row.
LEMMA CurrentMoves ==
  ASSUME NEW e \in PaneEntries, NEW r \in ServerRows, NEW t \in ServerRows, NEW fl \in Nat,
         Current(e, r, fl), Moves(r, t)
  PROVE  Current(e, t, fl)
<1>1. /\ e.data \in Snapshots \cup {NoData} /\ e.got \in Snapshots \cup {NoData}
      /\ r.round \in Nat /\ t.round \in Nat /\ r.attempts \in Nat /\ t.attempts \in Nat
  BY EntryFields, RowFields
<1>2. fl <= t.round
  BY <1>1 DEF Current, Moves
<1>3. ASSUME e.data # NoData PROVE t.status \in Statuses /\ Follows(e.data, t)
  <2>1. e.data.status \in Statuses /\ e.data.round \in Nat
    BY <1>1, <1>3, SnapshotFields
  <2> QED
    BY <1>1, <1>3, <2>1, FollowsTrans DEF Current, Moves
<1>4. ASSUME e.got # NoData
      PROVE t.status \in Statuses /\ Follows(e.got, t) /\ e.got.attempts <= t.attempts
  <2>1. e.got.status \in Statuses /\ e.got.round \in Nat /\ e.got.attempts \in Nat
    BY <1>1, <1>4, SnapshotFields
  <2>2. t.status \in Statuses /\ Follows(e.got, t)
    BY <1>1, <1>4, <2>1, FollowsTrans DEF Current, Moves
  <2>3. e.got.attempts <= t.attempts
    BY <1>1, <1>4, <2>1 DEF Current, Moves
  <2> QED
    BY <2>2, <2>3
<1> QED
  BY <1>2, <1>3, <1>4 DEF Current

\* An entry outlives a call that keeps its data, and the answer under way or none.
LEMMA CurrentKept ==
  ASSUME NEW e, NEW f, NEW r, NEW fl, Current(e, r, fl),
         f.data = e.data, f.invalid = e.invalid \/ f.invalid = TRUE,
         f.got \in {e.got, NoData},
         f.fetch \in {"row", "answered"} => f.fetch = e.fetch /\ f.got = e.got
  PROVE  Current(f, r, fl)
  BY DEF Current

\* Facts about one delivery.
LEMMA PaneFields ==
  ASSUME PaneInv, NEW id \in Ids
  PROVE  /\ q[id] \in PaneEntries /\ row[id] \in ServerRows /\ floor[id] \in Nat
         /\ Sound(row[id]) /\ Current(q[id], row[id], floor[id])
<1>1. q \in [Ids -> PaneEntries] /\ row \in [Ids -> ServerRows]
      /\ floor \in [Ids -> 0..MaxReplays]
  BY DEF PaneInv, TypeOK, PaneEntries
<1>2. RowInv /\ CacheInv
  BY DEF PaneInv
<1> QED
  BY <1>1, <1>2, DetailPaneAssumption DEF RowInv, CacheInv

\* Steps that leave the cache alone.
LEMMA QuietStep ==
  ASSUME PaneInv, UNCHANGED <<q, floor>>, row' \in [Ids -> ServerRows],
         \A id \in Ids : row'[id] = row[id] \/ (Sound(row'[id]) /\ Moves(row[id], row'[id])),
         selected' = selected \/ selected' = None,
         replay'.phase # "idle" => replay'.id \in Ids /\ q[replay'.id].data # NoData
  PROVE  RowInv' /\ CacheInv' /\ ReplayInv' /\ ReplayShown'
<1>1. RowInv'
  BY PaneFields DEF RowInv
<1>2. CacheInv'
  <2> SUFFICES ASSUME NEW id \in Ids PROVE Current(q'[id], row'[id], floor'[id])
    BY DEF CacheInv
  <2>1. q'[id] = q[id] /\ floor'[id] = floor[id] /\ row'[id] \in ServerRows
    OBVIOUS
  <2> QED
    BY <2>1, PaneFields, CurrentMoves
<1>3. ReplayInv'
  BY DEF ReplayInv
<1>4. ReplayShown'
  BY DetailPaneAssumption DEF PaneInv, ReplayShown
<1> QED
  BY <1>1, <1>2, <1>3, <1>4

\* Steps that change one entry of the cache and no row.
LEMMA CacheStep ==
  ASSUME PaneInv, NEW id \in Ids, NEW f \in PaneEntries, q' = [q EXCEPT ![id] = f],
         UNCHANGED <<row, replay, floor>>, selected' \in {selected, id},
         Current(f, row[id], floor[id]),
         replay.phase # "idle" => (q[id].data # NoData => f.data # NoData),
         f.data # NoData /\ f.data.round < floor[id] /\ id = selected'
           => f.fetch # "idle" \/ f.error
  PROVE  q' \in [Ids -> PaneEntries] /\ RowInv' /\ CacheInv' /\ ReplayInv' /\ ReplayShown'
<1>0. q \in [Ids -> PaneEntries]
  BY DEF PaneInv, TypeOK, PaneEntries
<1>1. q' \in [Ids -> PaneEntries] /\ q'[id] = f
      /\ \A x \in Ids \ {id} : q'[x] = q[x]
  BY <1>0
<1>2. RowInv'
  BY DEF PaneInv, RowInv
<1>3. CacheInv'
  <2> SUFFICES ASSUME NEW x \in Ids PROVE Current(q'[x], row'[x], floor'[x])
    BY DEF CacheInv
  <2>1. Current(q[x], row[x], floor[x])
    BY PaneFields
  <2>2. row'[x] = row[x] /\ floor'[x] = floor[x]
    OBVIOUS
  <2> QED
    BY <1>1, <2>1, <2>2
<1>4. ReplayInv'
  BY <1>1 DEF PaneInv, ReplayInv
<1>5. ReplayShown'
  <2> SUFFICES ASSUME NEW x \in Ids, q'[x].data # NoData, q'[x].data.round < floor'[x]
               PROVE  q'[x].invalid /\ (x = selected' => q'[x].fetch # "idle" \/ q'[x].error)
    BY DEF ReplayShown
  <2>1. CASE x = id
    BY <1>1, <2>1 DEF Current
  <2>2. CASE x # id
    BY <1>1, <2>2 DEF PaneInv, ReplayShown
  <2> QED
    BY <2>1, <2>2
<1> QED
  BY <1>1, <1>2, <1>3, <1>4, <1>5

\* The selection changes: the entry now observed is fetched, unless it has
\* data that no replay has marked.
LEMMA SelectStep ==
  ASSUME PaneInv, NEW id \in Ids, SetSelected(id)
  PROVE  PaneInv'
<1>1. /\ Switch /\ selected' = id /\ lookup' = id
      /\ UNCHANGED <<autoRefresh, apiKey, replay, row, up, outages, floor>>
  BY DEF SetSelected, server
<1>2. TypeOK /\ switches' \in 0..MaxSwitches /\ id \in Texts
  <2>1. TypeOK /\ switches \in 0..MaxSwitches
    BY DEF PaneInv, TypeOK
  <2>2. switches' \in 0..MaxSwitches
    BY <1>1, <2>1, DetailPaneAssumption DEF Switch
  <2> QED
    BY <2>1, <2>2 DEF Texts
<1>3. q[id] \in PaneEntries /\ Current(q[id], row[id], floor[id])
  BY PaneFields
<1>4. q' \in [Ids -> PaneEntries] /\ RowInv' /\ CacheInv' /\ ReplayInv' /\ ReplayShown'
  <2>1. CASE q' = [q EXCEPT ![id] = StartFetch(@)]
    <3> DEFINE f == StartFetch(q[id])
    <3>1. /\ f \in PaneEntries /\ f.data = q[id].data /\ f.invalid = q[id].invalid
          /\ f.fetch # "idle" /\ f.got \in {q[id].got, NoData}
          /\ f.fetch \in {"row", "answered"} => f.fetch = q[id].fetch /\ f.got = q[id].got
      BY <1>3, StartFetchFields
    <3>2. q' = [q EXCEPT ![id] = f]
      BY <2>1
    <3> HIDE DEF f
    <3>3. Current(f, row[id], floor[id])
      BY <1>3, <3>1, CurrentKept
    <3> QED
      BY <1>1, <3>1, <3>2, <3>3, CacheStep
  <2>2. CASE q[id].data # NoData /\ ~q[id].invalid /\ UNCHANGED q
    <3>1. q' = [q EXCEPT ![id] = q[id]]
      BY <1>2, <2>2 DEF TypeOK
    <3>2. q[id].data.round < floor[id] => q[id].invalid
      BY <1>3, <2>2 DEF Current
    <3> QED
      BY <1>1, <1>3, <2>2, <3>1, <3>2, CacheStep
  <2> QED
    BY <2>1, <2>2 DEF SetSelected, Observe
<1>5. TypeOK'
  BY <1>1, <1>2, <1>4 DEF TypeOK, PaneEntries
<1> QED
  BY <1>4, <1>5 DEF PaneInv

\* A fetch of one entry starts, goes on or ends, or the entry is dropped.
LEMMA FetchStep ==
  ASSUME PaneInv, NEW id \in Ids,
         StartsFetch(id) \/ ReadRow(id) \/ ReadRest(id) \/ Arrives(id) \/ FetchFails(id)
           \/ Collect(id)
  PROVE  PaneInv'
<1>1. UNCHANGED <<store, replay, server, floor>>
  BY DEF StartsFetch, ReadRow, ReadRest, Arrives, FetchFails, Collect
<1>2. /\ q[id] \in PaneEntries /\ row[id] \in ServerRows /\ floor[id] \in Nat
      /\ Sound(row[id]) /\ Current(q[id], row[id], floor[id])
  BY PaneFields
<1>3. /\ row[id].round \in Nat /\ row[id].attempts \in Nat
      /\ q[id].data \in Snapshots \cup {NoData} /\ q[id].got \in Snapshots \cup {NoData}
  BY <1>2, RowFields, EntryFields
<1>4. q[id].data # NoData /\ q[id].data.round < floor[id] /\ id = selected
        => q[id].fetch # "idle" \/ q[id].error
  BY DEF PaneInv, ReplayShown
<1>5. SUFFICES \E f \in PaneEntries :
         /\ q' = [q EXCEPT ![id] = f] /\ Current(f, row[id], floor[id])
         /\ replay.phase # "idle" => (q[id].data # NoData => f.data # NoData)
         /\ f.data # NoData /\ f.data.round < floor[id] /\ id = selected
              => f.fetch # "idle" \/ f.error
  <2>1. q' \in [Ids -> PaneEntries] /\ RowInv' /\ CacheInv' /\ ReplayInv' /\ ReplayShown'
    BY <1>1, <1>5, CacheStep DEF store, server
  <2>2. TypeOK'
    BY <1>1, <2>1 DEF PaneInv, TypeOK, PaneEntries, store, server
  <2> QED
    BY <2>1, <2>2 DEF PaneInv
<1>6. CASE StartsFetch(id)
  <2> DEFINE f == StartFetch(q[id])
  <2>1. /\ f \in PaneEntries /\ f.data = q[id].data /\ f.invalid = q[id].invalid
        /\ f.fetch # "idle" /\ f.got \in {q[id].got, NoData}
        /\ f.fetch \in {"row", "answered"} => f.fetch = q[id].fetch /\ f.got = q[id].got
    BY <1>2, StartFetchFields
  <2>2. q' = [q EXCEPT ![id] = f]
    BY <1>6 DEF StartsFetch
  <2> HIDE DEF f
  <2>3. Current(f, row[id], floor[id])
    BY <1>2, <2>1, CurrentKept
  <2> QED
    BY <2>1, <2>2, <2>3
<1>7. ASSUME NEW d \in Snapshots, NEW l \in {"row", "answered"},
             q' = [q EXCEPT ![id] = [q[id] EXCEPT !.fetch = l, !.got = d]],
             row[id].status \in Statuses, Explained(d), Follows(d, row[id]),
             d.attempts <= row[id].attempts, d.round >= floor[id],
             q[id].data # NoData => Follows(q[id].data, d)
      PROVE  \E f \in PaneEntries :
               /\ q' = [q EXCEPT ![id] = f] /\ Current(f, row[id], floor[id])
               /\ replay.phase # "idle" => (q[id].data # NoData => f.data # NoData)
               /\ f.data # NoData /\ f.data.round < floor[id] /\ id = selected
                    => f.fetch # "idle" \/ f.error
  <2> DEFINE f == [q[id] EXCEPT !.fetch = l, !.got = d]
  <2>1. /\ f \in PaneEntries /\ f.data = q[id].data /\ f.invalid = q[id].invalid
        /\ f.got = d /\ f.fetch # "idle"
    BY <1>2, ReadFields
  <2>2. d # NoData
    BY NoDataAssumption
  <2>3. q' = [q EXCEPT ![id] = f]
    BY <1>7
  <2> HIDE DEF f
  <2>4. Current(f, row[id], floor[id])
    BY <1>2, <1>7, <2>1, <2>2 DEF Current
  <2> QED
    BY <2>1, <2>3, <2>4
<1>8. CASE ReadRow(id)
  <2> DEFINE d == Assembled(row[id], row[id])
  <2>1. row[id].status \in Statuses /\ q' = [q EXCEPT ![id].fetch = "row", ![id].got = d]
    BY <1>2, <1>8, RowFields DEF ReadRow
  <2>2. q' = [q EXCEPT ![id] = [q[id] EXCEPT !.fetch = "row", !.got = d]]
    BY <2>1
  <2>3. /\ d.status = row[id].status /\ d.round = row[id].round
        /\ d.lastError = row[id].lastError /\ d.attempts = row[id].attempts
    BY DEF Assembled
  <2>4. d \in Snapshots
    BY <1>2, <2>1 DEF Assembled, Snapshots, ServerRows
  <2> HIDE DEF d
  <2>5. Explained(d) /\ Follows(d, row[id]) /\ d.attempts <= row[id].attempts
        /\ d.round >= floor[id]
    <3>1. ActiveSteps(row[id].status) \in Nat
      BY <2>1, Stages DEF Statuses
    <3> QED
      BY <1>2, <1>3, <2>3, <3>1 DEF Sound, Explained, Follows, Current
  <2>6. q[id].data # NoData => Follows(q[id].data, d)
    BY <1>2, <2>3 DEF Current, Follows
  <2> QED
    BY <1>7, <2>1, <2>2, <2>4, <2>5, <2>6
<1>9. CASE ReadRest(id)
  <2> DEFINE g == q[id].got
             d == Assembled(g, row[id])
  <2>1. g \in Snapshots /\ g # NoData
    BY <1>2, <1>3, <1>9 DEF ReadRest, Current
  <2>2. /\ row[id].status \in Statuses /\ Explained(g) /\ Follows(g, row[id])
        /\ g.attempts <= row[id].attempts /\ g.round >= floor[id]
        /\ q[id].data # NoData => Follows(q[id].data, g)
    BY <1>2, <2>1 DEF Current
  <2>3. q' = [q EXCEPT ![id] = [q[id] EXCEPT !.fetch = "answered", !.got = d]]
    BY <1>9 DEF ReadRest
  <2>4. /\ d.status = g.status /\ d.round = g.round
        /\ d.lastError = g.lastError /\ d.attempts = row[id].attempts
    BY DEF Assembled
  <2>5. d \in Snapshots
    BY <1>3, <2>1 DEF Assembled, Snapshots
  <2>6. g.round \in Nat /\ g.attempts \in Nat
    BY <2>1, SnapshotFields
  <2> HIDE DEF d, g
  <2>7. Explained(d) /\ Follows(d, row[id]) /\ d.attempts <= row[id].attempts
        /\ d.round >= floor[id] /\ (q[id].data # NoData => Follows(q[id].data, d))
    BY <1>3, <2>2, <2>4, <2>6 DEF Explained, Follows
  <2> QED
    BY <1>7, <2>2, <2>3, <2>5, <2>7
<1>10. CASE Arrives(id)
  <2> DEFINE f == Settle(q[id])
  <2>1. f \in PaneEntries /\ f.data = q[id].got /\ f.got = NoData /\ f.fetch = "idle"
    BY <1>2, SettleFields
  <2>2. q' = [q EXCEPT ![id] = f] /\ q[id].fetch = "answered"
    BY <1>10 DEF Arrives
  <2> HIDE DEF f
  <2>3. q[id].got # NoData /\ ~(q[id].got.round < floor[id])
    <3>1. q[id].got # NoData /\ q[id].got.round >= floor[id]
      BY <1>2, <2>2 DEF Current
    <3> QED
      BY <1>2, <1>3, <3>1, SnapshotFields
  <2>4. Current(f, row[id], floor[id])
    BY <1>2, <2>1, <2>3 DEF Current
  <2> QED
    BY <2>1, <2>2, <2>3, <2>4
<1>11. CASE FetchFails(id)
  <2> DEFINE n == IF id = selected THEN 1 ELSE 0
             f == Fail(q[id], n)
  <2>1. n \in 0..1
    OBVIOUS
  <2>2. /\ f \in PaneEntries /\ f.data = q[id].data /\ f.invalid = q[id].invalid
        /\ f.got = NoData /\ (f.fetch # "idle" \/ f.error) /\ f.fetch \in {"asked", "idle"}
    BY <1>2, <2>1, FailFields
  <2>3. q' = [q EXCEPT ![id] = f]
    BY <1>11 DEF FetchFails
  <2> HIDE DEF f
  <2>4. Current(f, row[id], floor[id])
    BY <1>2, <2>2 DEF Current
  <2> QED
    BY <2>2, <2>3, <2>4
<1>12. CASE Collect(id)
  <2>1. q' = [q EXCEPT ![id] = Blank] /\ replay.phase = "idle"
    BY <1>12 DEF Collect
  <2>2. Current(Blank, row[id], floor[id])
    BY <1>2, BlankFields DEF Current
  <2> QED
    BY <2>1, <2>2, BlankFields
<1> QED
  BY <1>6, <1>8, <1>9, <1>10, <1>11, <1>12

\* What the pane shows as a delivery is the data of the selected entry.
LEMMA PaneHasData ==
  ASSUME TypeOK, Pane = "delivery"
  PROVE  selected \in Ids /\ q[selected].data # NoData
<1>1. selected # None
  BY DEF Pane
<1>2. ~(~IsLoading(Entry) /\ (Entry.error \/ Entry.data = NoData)) /\ ~IsLoading(Entry)
  BY <1>1 DEF Pane
<1>3. selected \in Ids
  BY <1>1 DEF TypeOK
<1> QED
  BY <1>2, <1>3 DEF Entry

\* The operator types, closes, changes a setting or asks for a replay; the
\* mutation fails; the API goes or comes.
LEMMA OperatorStep ==
  ASSUME PaneInv,
         \/ \E t \in Texts : Type(t)
         \/ Close \/ ChangeSetting \/ ClickReplay \/ ReplayFailed \/ GoDown \/ ComeUp
  PROVE  PaneInv'
<1>0. TypeOK /\ row \in [Ids -> ServerRows] /\ ReplayInv
  BY DEF PaneInv, TypeOK
<1>1. UNCHANGED <<q, row, floor>>
  BY DEF Type, Close, ChangeSetting, ClickReplay, ReplayFailed, GoDown, ComeUp, server
<1>2. selected' = selected \/ selected' = None
  BY DEF Type, Close, ChangeSetting, ClickReplay, ReplayFailed, GoDown, ComeUp, store
<1>3. /\ replay' \in [id : Ids \cup {None}, phase : {"idle", "sent", "done", "refused"},
                      key : {"valid", "wrong", ""}]
      /\ replay'.phase # "idle" => replay'.id \in Ids /\ q[replay'.id].data # NoData
  <2>1. CASE UNCHANGED replay
    BY <1>0, <2>1 DEF TypeOK, ReplayInv
  <2>2. CASE ClickReplay
    <3>1. selected \in Ids /\ q[selected].data # NoData
      BY <1>0, <2>2, PaneHasData DEF ClickReplay
    <3>2. replay' = [id |-> selected, phase |-> "sent", key |-> apiKey]
      BY <2>2 DEF ClickReplay
    <3>3. apiKey \in {"valid", "wrong", ""}
      BY <1>0 DEF TypeOK
    <3> QED
      BY <3>1, <3>2, <3>3
  <2>3. CASE ReplayFailed
    BY <2>3 DEF ReplayFailed, NoReplay
  <2> QED
    BY <2>1, <2>2, <2>3 DEF Type, Close, ChangeSetting, GoDown, ComeUp
<1>4. RowInv' /\ CacheInv' /\ ReplayInv' /\ ReplayShown'
  BY <1>0, <1>1, <1>2, <1>3, QuietStep
<1>5. switches' \in 0..MaxSwitches /\ outages' \in 0..MaxOutages /\ up' \in BOOLEAN
  <2>1. switches \in 0..MaxSwitches /\ outages \in 0..MaxOutages /\ up \in BOOLEAN
    BY <1>0 DEF TypeOK
  <2>2. switches' \in 0..MaxSwitches
    <3>1. switches' = switches \/ Switch
      BY DEF Type, Close, ChangeSetting, ClickReplay, ReplayFailed, GoDown, ComeUp, store
    <3> QED
      BY <2>1, <3>1, DetailPaneAssumption DEF Switch
  <2>3. UNCHANGED <<up, outages>> \/ GoDown \/ ComeUp
    BY DEF Type, Close, ChangeSetting, ClickReplay, ReplayFailed, server
  <2>4. outages' \in 0..MaxOutages /\ up' \in BOOLEAN
    <3>1. CASE UNCHANGED <<up, outages>>
      BY <2>1, <3>1
    <3>2. CASE GoDown
      <4>1. up' = FALSE
        BY <3>2 DEF GoDown
      <4>2. outages' \in 0..MaxOutages
        BY <2>1, <3>2, DetailPaneAssumption DEF GoDown
      <4> QED
        BY <4>1, <4>2
    <3>3. CASE ComeUp
      <4>1. up' = TRUE /\ outages' = outages
        BY <3>3 DEF ComeUp
      <4> QED
        BY <2>1, <4>1
    <3> QED
      BY <2>3, <3>1, <3>2, <3>3
  <2> QED
    BY <2>2, <2>4
<1>6. lookup' \in Texts /\ autoRefresh' \in BOOLEAN /\ apiKey' \in {"valid", "wrong", ""}
      /\ selected' \in Ids \cup {None}
  <2>1. lookup \in Texts /\ autoRefresh \in BOOLEAN /\ apiKey \in {"valid", "wrong", ""}
        /\ selected \in Ids \cup {None}
    BY <1>0 DEF TypeOK
  <2> QED
    BY <1>2, <2>1 DEF Type, Close, ChangeSetting, ClickReplay,
         ReplayFailed, GoDown, ComeUp, store, server, Texts
<1>7. TypeOK'
  BY <1>0, <1>1, <1>3, <1>5, <1>6 DEF TypeOK
<1> QED
  BY <1>4, <1>7 DEF PaneInv

\* The worker's writes.
LEMMA WorkerStep ==
  ASSUME PaneInv, NEW id \in Ids, Worker(id)
  PROVE  PaneInv'
<1>1. row \in [Ids -> ServerRows] /\ row[id] \in ServerRows /\ Sound(row[id])
  BY PaneFields DEF PaneInv, TypeOK
<1>2. PICK s : /\ row' = [row EXCEPT ![id] = s] /\ s \in ServerRows /\ Sound(s)
               /\ Moves(row[id], s)
               /\ UNCHANGED <<store, q, replay, up, outages, floor>>
  <2>1. ASSUME NEW s, Write(id, s), s \in ServerRows, Sound(s), Moves(row[id], s)
        PROVE  \E t : /\ row' = [row EXCEPT ![id] = t] /\ t \in ServerRows /\ Sound(t)
                      /\ Moves(row[id], t)
                      /\ UNCHANGED <<store, q, replay, up, outages, floor>>
    BY <2>1 DEF Write
  <2>2. CASE Claim(id)
    BY <1>1, <2>1, <2>2, WriteStep DEF Claim
  <2>3. CASE RecordFailure(id)
    BY <1>1, <2>1, <2>3, WriteStep DEF RecordFailure
  <2>4. CASE MoveToDLQ(id)
    BY <1>1, <2>1, <2>4, WriteStep DEF MoveToDLQ
  <2>5. CASE Succeed(id)
    BY <1>1, <2>1, <2>5, WriteStep DEF Succeed
  <2>6. CASE RecordSuccess(id)
    BY <1>1, <2>1, <2>6, WriteStep DEF RecordSuccess
  <2> QED
    BY <2>2, <2>3, <2>4, <2>5, <2>6 DEF Worker
<1>3. /\ row' \in [Ids -> ServerRows]
      /\ \A x \in Ids : row'[x] = row[x] \/ (Sound(row'[x]) /\ Moves(row[x], row'[x]))
  BY <1>1, <1>2
<1>4. RowInv' /\ CacheInv' /\ ReplayInv' /\ ReplayShown'
  BY <1>2, <1>3, QuietStep DEF PaneInv, ReplayInv, store
<1>5. TypeOK'
  BY <1>2, <1>3 DEF PaneInv, TypeOK, store
<1> QED
  BY <1>4, <1>5 DEF PaneInv

\* The server handles a replay.
LEMMA ServeStep == ASSUME PaneInv, ServeReplay PROVE PaneInv'
<1> DEFINE id == replay.id
<1>1. /\ id \in Ids /\ q[id].data # NoData /\ row \in [Ids -> ServerRows]
      /\ replay \in [id : Ids \cup {None}, phase : {"idle", "sent", "done", "refused"},
                     key : {"valid", "wrong", ""}]
      /\ UNCHANGED <<store, q, up, outages, floor>>
  BY DEF PaneInv, TypeOK, ReplayInv, ServeReplay
<1>2. row[id] \in ServerRows /\ Sound(row[id])
  BY <1>1, PaneFields
<1>3. /\ replay' \in [id : Ids \cup {None}, phase : {"idle", "sent", "done", "refused"},
                      key : {"valid", "wrong", ""}]
      /\ replay'.id = id
  BY <1>1 DEF ServeReplay
<1>4. /\ row' \in [Ids -> ServerRows]
      /\ \A x \in Ids : row'[x] = row[x] \/ (Sound(row'[x]) /\ Moves(row[x], row'[x]))
  <2>1. CASE UNCHANGED row
    BY <1>1, <2>1
  <2>2. CASE /\ row[id].status = "dlq" /\ row[id].round < MaxReplays
             /\ row' = [row EXCEPT ![id].status = "queued", ![id].round = @ + 1]
    <3>1. PICK s : /\ s = [row[id] EXCEPT !.status = "queued", !.round = @ + 1]
                   /\ row' = [row EXCEPT ![id] = s]
      BY <2>2
    <3>2. s \in ServerRows /\ Sound(s) /\ Moves(row[id], s)
      BY <1>2, <2>2, <3>1, WriteStep
    <3> QED
      BY <1>1, <3>1, <3>2
  <2> QED
    BY <2>1, <2>2 DEF ServeReplay
<1>5. RowInv' /\ CacheInv' /\ ReplayInv' /\ ReplayShown'
  BY <1>1, <1>3, <1>4, QuietStep DEF store
<1>6. TypeOK'
  BY <1>1, <1>3, <1>4 DEF PaneInv, TypeOK, store
<1> QED
  BY <1>5, <1>6 DEF PaneInv

\* The operator is told: the entry is marked and, if displayed, asked anew,
\* which drops the answer under way.
LEMMA QueuedStep == ASSUME PaneInv, ReplayQueued PROVE PaneInv'
<1> DEFINE id == replay.id
           shows == id = selected
           f == Invalidate(q[id], shows)
           fl == IF selected = id THEN row[id].round ELSE floor[id]
<1>1. /\ id \in Ids /\ q[id].data # NoData /\ TypeOK
      /\ q \in [Ids -> PaneEntries] /\ floor \in [Ids -> 0..MaxReplays]
  BY DEF PaneInv, TypeOK, ReplayInv, ReplayQueued, PaneEntries
<1>2. /\ UNCHANGED <<store, server>> /\ replay' = NoReplay
      /\ q' = [q EXCEPT ![id] = f] /\ floor' = [floor EXCEPT ![id] = fl]
  BY DEF ReplayQueued
<1>3. /\ q[id] \in PaneEntries /\ row[id] \in ServerRows /\ floor[id] \in Nat
      /\ Current(q[id], row[id], floor[id])
  BY <1>1, PaneFields
<1>4. /\ row[id].round \in Nat /\ row[id].round <= MaxReplays /\ floor[id] <= MaxReplays
      /\ floor[id] <= row[id].round
  BY <1>1, <1>3, RowFields, DetailPaneAssumption DEF Current
<1>5. fl \in 0..MaxReplays /\ fl <= row[id].round /\ (~shows => fl = floor[id])
  BY <1>3, <1>4, DetailPaneAssumption
<1>6. /\ f \in PaneEntries /\ f.data = q[id].data /\ f.invalid = TRUE
      /\ f.got \in {q[id].got, NoData}
      /\ shows => f.fetch # "idle"
      /\ shows => f.got = NoData
      /\ f.fetch \in {"row", "answered"} => f.fetch = q[id].fetch /\ f.got = q[id].got
  BY <1>1, <1>3, InvalidateFields
<1> HIDE DEF f, fl
<1>7. Current(f, row[id], fl)
  <2>1. CASE shows
    BY <1>3, <1>5, <1>6, <2>1 DEF Current
  <2>2. CASE ~shows
    BY <1>3, <1>5, <1>6, <2>2, CurrentKept
  <2> QED
    BY <2>1, <2>2
<1>8. /\ q' \in [Ids -> PaneEntries] /\ floor' \in [Ids -> 0..MaxReplays]
      /\ q'[id] = f /\ floor'[id] = fl
      /\ \A x \in Ids \ {id} : q'[x] = q[x] /\ floor'[x] = floor[x]
      /\ row' = row /\ selected' = selected
  BY <1>1, <1>2, <1>5, <1>6 DEF store, server
<1>9. CacheInv'
  <2> SUFFICES ASSUME NEW x \in Ids PROVE Current(q'[x], row'[x], floor'[x])
    BY DEF CacheInv
  <2> QED
    BY <1>7, <1>8, PaneFields
<1>10. ReplayShown'
  <2> SUFFICES ASSUME NEW x \in Ids, q'[x].data # NoData, q'[x].data.round < floor'[x]
               PROVE  q'[x].invalid /\ (x = selected' => q'[x].fetch # "idle" \/ q'[x].error)
    BY DEF ReplayShown
  <2>1. CASE x = id
    BY <1>6, <1>8, <2>1
  <2>2. CASE x # id
    BY <1>8, <2>2 DEF PaneInv, ReplayShown
  <2> QED
    BY <2>1, <2>2
<1>11. RowInv' /\ ReplayInv'
  BY <1>2, <1>8 DEF PaneInv, RowInv, ReplayInv, NoReplay
<1>12. TypeOK'
  BY <1>1, <1>2, <1>8 DEF TypeOK, PaneEntries, NoReplay, store, server
<1> QED
  BY <1>9, <1>10, <1>11, <1>12 DEF PaneInv

\* Every step keeps the invariant.
LEMMA PaneStep == PaneInv /\ [Next]_vars => PaneInv'
<1> SUFFICES ASSUME PaneInv, [Next]_vars PROVE PaneInv'
  OBVIOUS
<1>1. ASSUME NEW id \in Ids, Select(id) \/ SelectEvent(id) PROVE PaneInv'
  BY <1>1, SelectStep DEF Select, SelectEvent
<1>2. ASSUME NEW id \in Ids, Poll(id) \/ Refocus(id) \/ Settles(id) \/ Collect(id) PROVE PaneInv'
  BY <1>2, FetchStep DEF Poll, Refocus, Settles
<1>3. ASSUME NEW id \in Ids, Worker(id) PROVE PaneInv'
  BY <1>3, WorkerStep
<1>4. CASE SubmitLookup
  BY <1>4, SelectStep DEF SubmitLookup
<1>5. CASE UNCHANGED vars
  <2>1. UNCHANGED <<selected, lookup, autoRefresh, apiKey, switches, q, replay, row, up,
                    outages, floor>>
    BY <1>5 DEF vars, store, server
  <2>2. TypeOK'
    BY <2>1 DEF PaneInv, TypeOK
  <2>3. RowInv' /\ CacheInv' /\ ReplayInv' /\ ReplayShown'
    BY <2>1 DEF PaneInv, RowInv, CacheInv, ReplayInv, ReplayShown
  <2> QED
    BY <2>2, <2>3 DEF PaneInv
<1> QED
  BY <1>1, <1>2, <1>3, <1>4, <1>5, OperatorStep, ServeStep, QueuedStep DEF Next

\* The invariant holds for every choice of ids and bounds.
LEMMA Inductive == Spec => []PaneInv
<1>1. Init => PaneInv
  <2> SUFFICES ASSUME Init PROVE PaneInv
    OBVIOUS
  <2>1. ASSUME NEW id \in Ids
        PROVE  /\ row[id] \in ServerRows /\ Sound(row[id])
               /\ q[id] = Blank /\ floor[id] = 0 /\ row[id].round = 0
    <3>1. row[id] = [status |-> IF id \in Deliveries THEN "queued" ELSE "absent",
                     round |-> 0, lastError |-> FALSE, attempts |-> 0, work |-> "none"]
      BY DEF Init
    <3>2. row[id].round = 0 /\ row[id].attempts = 0 /\ row[id].lastError = FALSE
          /\ row[id].work = "none" /\ row[id].status \in {"queued", "absent"}
      BY <3>1
    <3>3. Sound(row[id])
      BY <3>2 DEF Sound, Explained
    <3>4. row[id] \in ServerRows
      BY <3>1, DetailPaneAssumption DEF ServerRows, Statuses
    <3>5. q[id] = Blank /\ floor[id] = 0
      BY DEF Init
    <3> QED
      BY <3>2, <3>3, <3>4, <3>5
  <2>2. q \in [Ids -> PaneEntries] /\ row \in [Ids -> ServerRows]
        /\ floor \in [Ids -> 0..MaxReplays]
    <3>1. \A id \in Ids : q[id] \in PaneEntries /\ floor[id] \in 0..MaxReplays
      BY <2>1, BlankFields, DetailPaneAssumption
    <3> QED
      BY <2>1, <3>1 DEF Init
  <2>3. TypeOK
    <3>1. replay \in [id : Ids \cup {None}, phase : {"idle", "sent", "done", "refused"},
                     key : {"valid", "wrong", ""}]
      BY DEF Init, NoReplay
    <3>2. selected \in Ids \cup {None} /\ lookup \in Texts /\ apiKey \in {"valid", "wrong", ""}
      BY DEF Init, Texts
    <3>3. autoRefresh \in BOOLEAN /\ up \in BOOLEAN
      BY Zenon DEF Init
    <3>4. outages \in 0..MaxOutages /\ switches \in 0..MaxSwitches
      <4>1. outages = 0 /\ switches = 0
        BY Zenon DEF Init
      <4> QED
        BY <4>1, DetailPaneAssumption
    <3> QED
      BY <2>2, <3>1, <3>2, <3>3, <3>4 DEF TypeOK, PaneEntries
  <2>4. RowInv
    BY <2>1 DEF RowInv
  <2>5. CacheInv
    BY <2>1, BlankFields DEF CacheInv, Current
  <2>6. ReplayInv /\ ReplayShown
    BY <2>1, BlankFields DEF Init, NoReplay, ReplayInv, ReplayShown
  <2> QED
    BY <2>3, <2>4, <2>5, <2>6 DEF PaneInv
<1> QED
  BY <1>1, PaneStep, PTL DEF Spec

\* The pane's state, the cache and the rows stay well typed.
THEOREM TypeCorrect == Spec => []TypeOK
<1>1. PaneInv => TypeOK
  BY DEF PaneInv
<1> QED
  BY <1>1, Inductive, PTL

\* A replay button comes with the failed attempts of every round and an error
\* box with an attempt, although they are read by separate SELECTs.
THEOREM FailuresAreExplained == Spec => []FailureIsExplained
<1>1. PaneInv => FailureIsExplained
  <2> SUFFICES ASSUME PaneInv, Pane = "delivery"
               PROVE  LET d == Entry.data  r == RowSections(d)  h == HistorySections(d) IN
                      /\ r.replayButton => r.errorBox /\ h.attempts > d.round
                      /\ r.errorBox => h.attempts > 0 /\ r.badge # "success"
    BY DEF FailureIsExplained
  <2> DEFINE d == Entry.data
  <2>1. selected \in Ids /\ d # NoData
    BY PaneHasData DEF PaneInv, Entry
  <2>2. Explained(d) /\ d \in Snapshots
    BY <2>1, PaneFields, EntryFields DEF Current, Entry
  <2>3. d.status \in Statuses /\ d.lastError \in BOOLEAN
    BY <2>2, SnapshotFields
  <2> HIDE DEF d
  <2>4. Tone(d.status) = "success" => d.status = "succeeded"
    BY DEF Tone
  <2>5. /\ RowSections(d).replayButton <=> d.status = "dlq"
        /\ RowSections(d).errorBox <=> d.lastError
        /\ RowSections(d).badge = Tone(d.status)
        /\ HistorySections(d).attempts = d.attempts
    BY <2>3 DEF RowSections, HistorySections
  <2>6. /\ RowSections(d).replayButton
             => RowSections(d).errorBox /\ HistorySections(d).attempts > d.round
        /\ RowSections(d).errorBox
             => HistorySections(d).attempts > 0 /\ RowSections(d).badge # "success"
    BY <2>2, <2>4, <2>5 DEF Explained
  <2> QED
    BY <2>6 DEF d
<1> QED
  BY <1>1, Inductive, PTL

\* No answer read before a confirmed replay is shown as current.
THEOREM ReplaysAreShown == Spec => []ReplayShown
<1>1. PaneInv => ReplayShown
  BY DEF PaneInv
<1> QED
  BY <1>1, Inductive, PTL

\* A step of one entry gives it other data only from its own answer.
LEMMA OneEntryMoves ==
  ASSUME PaneInv, NEW id \in Ids, NEW f, q' = [q EXCEPT ![id] = f],
         f.data \in {q[id].data, q[id].got, NoData}, NEW x \in Ids
  PROVE  q'[x].data \in {q[x].data, q[x].got, NoData}
<1>1. q \in [Ids -> PaneEntries]
  BY DEF PaneInv, TypeOK, PaneEntries
<1>2. q'[x] = q[x] \/ (x = id /\ q'[x] = f)
  BY <1>1
<1> QED
  BY <1>2

\* Whatever happens, what an entry shows is what it showed, the answer to its
\* own fetch, or nothing.
LEMMA DataMoves ==
  ASSUME PaneInv, [Next]_vars, NEW x \in Ids
  PROVE  q'[x].data \in {q[x].data, q[x].got, NoData}
<1>1. CASE UNCHANGED q
  BY <1>1
<1>2. ASSUME NEW id \in Ids, q' = [q EXCEPT ![id] = StartFetch(@)]
      PROVE  q'[x].data \in {q[x].data, q[x].got, NoData}
  <2> DEFINE f == StartFetch(q[id])
  <2>1. f.data = q[id].data
    BY PaneFields, StartFetchFields
  <2>2. q' = [q EXCEPT ![id] = f]
    BY <1>2
  <2> HIDE DEF f
  <2> QED
    BY <2>1, <2>2, OneEntryMoves
<1>3. ASSUME NEW id \in Ids, Select(id) \/ SelectEvent(id) \/ Poll(id) \/ Refocus(id)
      PROVE  q'[x].data \in {q[x].data, q[x].got, NoData}
  BY <1>1, <1>2, <1>3 DEF Select, SelectEvent, SetSelected, Observe, Poll, Refocus, StartsFetch
<1>4. ASSUME SubmitLookup
      PROVE  q'[x].data \in {q[x].data, q[x].got, NoData}
  BY <1>1, <1>2, <1>4 DEF SubmitLookup, SetSelected, Observe
<1>5. ASSUME NEW id \in Ids, ReadRow(id) \/ ReadRest(id)
      PROVE  q'[x].data \in {q[x].data, q[x].got, NoData}
  <2>1. PICK l, d : q' = [q EXCEPT ![id] = [q[id] EXCEPT !.fetch = l, !.got = d]]
    <3>1. CASE ReadRow(id)
      <4>1. q' = [q EXCEPT ![id].fetch = "row", ![id].got = Assembled(row[id], row[id])]
        BY <3>1 DEF ReadRow
      <4>2. q' = [q EXCEPT ![id] = [q[id] EXCEPT !.fetch = "row",
                                                 !.got = Assembled(row[id], row[id])]]
        BY <4>1
      <4> QED
        BY <4>2
    <3>2. CASE ReadRest(id)
      <4>1. q' = [q EXCEPT ![id] = [q[id] EXCEPT !.fetch = "answered",
                                                 !.got = Assembled(q[id].got, row[id])]]
        BY <3>2 DEF ReadRest
      <4> QED
        BY <4>1
    <3> QED
      BY <1>5, <3>1, <3>2
  <2>2. q[id] \in PaneEntries
    BY PaneFields
  <2>3. [q[id] EXCEPT !.fetch = l, !.got = d].data = q[id].data
    BY <2>2, Zenon DEF PaneEntries, Entries
  <2> QED
    BY <2>1, <2>3, OneEntryMoves
<1>6. ASSUME NEW id \in Ids, Arrives(id)
      PROVE  q'[x].data \in {q[x].data, q[x].got, NoData}
  <2>1. q' = [q EXCEPT ![id] = Settle(q[id])]
    BY <1>6 DEF Arrives
  <2>2. Settle(q[id]).data = q[id].got
    BY PaneFields, SettleFields
  <2> QED
    BY <2>1, <2>2, OneEntryMoves
<1>7. ASSUME NEW id \in Ids, FetchFails(id)
      PROVE  q'[x].data \in {q[x].data, q[x].got, NoData}
  <2> DEFINE n == IF id = selected THEN 1 ELSE 0
  <2>1. q' = [q EXCEPT ![id] = Fail(q[id], n)]
    BY <1>7 DEF FetchFails
  <2>2. n \in 0..1
    OBVIOUS
  <2>3. Fail(q[id], n).data = q[id].data
    BY <2>2, PaneFields, FailFields
  <2> QED
    BY <2>1, <2>3, OneEntryMoves
<1>8. ASSUME NEW id \in Ids, Collect(id)
      PROVE  q'[x].data \in {q[x].data, q[x].got, NoData}
  <2>1. q' = [q EXCEPT ![id] = Blank]
    BY <1>8 DEF Collect
  <2> QED
    BY <2>1, BlankFields, OneEntryMoves
<1>9. ASSUME ReplayQueued
      PROVE  q'[x].data \in {q[x].data, q[x].got, NoData}
  <2> DEFINE id == replay.id
             shows == (replay.id = selected)
             f == Invalidate(q[id], shows)
  <2>1. id \in Ids /\ q' = [q EXCEPT ![id] = f]
    BY <1>9 DEF ReplayQueued, PaneInv, ReplayInv
  <2>2. shows \in BOOLEAN
    BY Zenon
  <2>3. f.data = q[id].data
    BY <2>1, <2>2, PaneFields, InvalidateFields
  <2> HIDE DEF f, id
  <2> QED
    BY <2>1, <2>3, OneEntryMoves
<1>10. ASSUME NEW id \in Ids, Worker(id)
       PROVE  UNCHANGED q
  BY <1>10 DEF Worker, Claim, RecordFailure, MoveToDLQ, Succeed, RecordSuccess, Write
<1>11. ASSUME (\E t \in Texts : Type(t)) \/ Close \/ ChangeSetting \/ ClickReplay
               \/ ServeReplay \/ ReplayFailed \/ GoDown \/ ComeUp
       PROVE  UNCHANGED q
  BY <1>11 DEF Type, Close, ChangeSetting, ClickReplay, ServeReplay, ReplayFailed, GoDown, ComeUp
<1> QED
  BY <1>1, <1>3, <1>4, <1>5, <1>6, <1>7, <1>8, <1>9, <1>10, <1>11 DEF Next, Settles, vars

\* Where the ring is, on the statuses of a delivery.
LEMMA Ring == \A s \in Statuses : RingAt(s) = ActiveSteps(s)
<1>1. RingAt("queued") = ActiveSteps("queued")
  BY DEF RingAt, Tone
<1>2. RingAt("processing") = ActiveSteps("processing")
  BY DEF RingAt, Tone
<1>3. RingAt("dlq") = ActiveSteps("dlq")
  BY DEF RingAt, Tone
<1>4. RingAt("succeeded") = ActiveSteps("succeeded")
  BY Stages DEF RingAt, Tone, Steps
<1> QED
  BY <1>1, <1>2, <1>3, <1>4 DEF Statuses

\* While a delivery stays selected its strip moves back only with a new round:
\* the answer that replaces the data was read after it.
THEOREM StripFollowsTheDelivery == Spec => StripAdvances
<1>1. ASSUME PaneInv, [Next]_vars, selected' = selected, StripStatus # None,
             StripStatus' # None
      PROVE  \/ q'[selected].data.round > q[selected].data.round
             \/ /\ ActiveSteps(StripStatus') >= ActiveSteps(StripStatus)
                /\ RingAt(StripStatus') >= RingAt(StripStatus)
  <2> DEFINE d == q[selected].data
             e == q'[selected].data
  <2>1. /\ selected # None /\ d # NoData /\ e # NoData
        /\ StripStatus = d.status /\ StripStatus' = e.status
    BY <1>1 DEF StripStatus, Entry
  <2>2. selected \in Ids
    BY <1>1, <2>1 DEF PaneInv, TypeOK
  <2>3. q[selected] \in PaneEntries /\ Current(q[selected], row[selected], floor[selected])
    BY <1>1, <2>2, PaneFields
  <2>4. e = d \/ (e = q[selected].got /\ Follows(d, e))
    BY <1>1, <2>1, <2>2, <2>3, DataMoves DEF Current
  <2>5. d \in Snapshots /\ e \in Snapshots
    BY <2>1, <2>3, <2>4, EntryFields
  <2>6. d.status \in Statuses /\ e.status \in Statuses
    BY <2>5, SnapshotFields
  <2> HIDE DEF d, e
  <2>7. e.round > d.round \/ ActiveSteps(e.status) >= ActiveSteps(d.status)
    <3>1. ActiveSteps(d.status) \in Nat
      BY <2>6, Stages DEF Statuses
    <3> QED
      BY <2>4, <3>1 DEF Follows
  <2>8. RingAt(d.status) = ActiveSteps(d.status) /\ RingAt(e.status) = ActiveSteps(e.status)
    BY <2>6, Ring
  <2> QED
    BY <2>1, <2>7, <2>8 DEF d, e
<1>2. PaneInv /\ [Next]_vars =>
        [selected' = selected /\ StripStatus # None /\ StripStatus' # None =>
           \/ q'[selected].data.round > q[selected].data.round
           \/ /\ ActiveSteps(StripStatus') >= ActiveSteps(StripStatus)
              /\ RingAt(StripStatus') >= RingAt(StripStatus)]_vars
  BY <1>1
<1> QED
  BY <1>2, Inductive, PTL DEF Spec, StripAdvances
=============================================================================
