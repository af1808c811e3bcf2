----------------------------- MODULE QueryCache -----------------------------
(***************************************************************************)
(* One entry of the console's query cache, as operators on a record.  The  *)
(* cache is TanStack Query 5, which is not part of the repository: what it *)
(* does is modelled from the options main.tsx and useDashboard.ts give it  *)
(* and the calls they make.  An entry has at most one fetch in flight; a   *)
(* refetch that finds one joins it; an invalidation of an entry on display *)
(* that has data cancels the fetch in flight, whose answer is dropped, and *)
(* starts another; without data the first fetch is left to finish.         *)
(***************************************************************************)
EXTENDS Naturals

CONSTANT NoData   \* data is undefined

\* got: what the server has read so far for the fetch in flight.
Blank ==
  [data |-> NoData, error |-> FALSE, invalid |-> FALSE,
   fetch |-> "idle", tries |-> 0, got |-> NoData]

Entries(Data, Phases) ==
  [data : Data \cup {NoData}, error : BOOLEAN, invalid : BOOLEAN,
   fetch : Phases \cup {"idle", "asked", "answered"}, tries : 0..1,
   got : Data \cup {NoData}]

\* isLoading: a fetch in flight, and neither data nor an error to show.
IsLoading(q) == q.fetch # "idle" /\ q.data = NoData /\ ~q.error

\* Fetch, or join the fetch in flight.  An entry without data forgets its error.
StartFetch(q) ==
  IF q.fetch # "idle" THEN q
  ELSE [q EXCEPT !.fetch = "asked", !.tries = 0, !.got = NoData,
                 !.error = @ /\ q.data # NoData]

\* invalidateQueries: only an entry on display is fetched again.
Invalidate(q, displayed) ==
  LET marked == [q EXCEPT !.invalid = TRUE]
  IN  CASE ~displayed -> marked
        [] displayed /\ q.data = NoData -> StartFetch(marked)
        [] OTHER -> StartFetch([marked EXCEPT !.fetch = "idle"])

Settle(q) == [Blank EXCEPT !.data = q.got]

\* A failed fetch is tried again `retry` times; then the data is kept and
\* isError is set.
Fail(q, retry) ==
  IF q.tries < retry
  THEN [q EXCEPT !.fetch = "asked", !.tries = @ + 1, !.got = NoData]
  ELSE [q EXCEPT !.fetch = "idle", !.tries = 0, !.got = NoData, !.error = TRUE]
=============================================================================
