------------------------------ MODULE Monitors ------------------------------
(***************************************************************************)
(* What tells an operator of the console that something is wrong: the      *)
(* health query behind the header's pill and the dashboard's banner        *)
(* (useHealth, Header.tsx, Dashboard.tsx), and the outbox alarm of         *)
(* StatsBar.tsx, whose hook useStaleSeconds restarts a one-second interval *)
(* whenever the polled value changes.                                      *)
(*                                                                         *)
(* Time advances in ticks, Second of them to the second; a request is      *)
(* answered, or fails, within the tick it is made in.  Auto refresh is on. *)
(* A clock stops counting at the largest value a property or a guard asks  *)
(* for.                                                                    *)
(***************************************************************************)
EXTENDS QueryCache

CONSTANTS
  Second,        \* ticks of a second, and the period of the hook's interval
  SummaryEvery,  \* ticks between polls of the summary (2 s)
  HealthEvery,   \* ticks between polls of the health check (5 s)
  AlertAfter,    \* seconds until the backlog counts as stuck (30)
  MaxBacklog,    \* pending outbox rows
  MaxGlitches    \* how often the count fails and is returned as 0

ASSUME MonitorsAssumption ==
  /\ Second \in Nat \ {0} /\ SummaryEvery \in Nat \ {0} /\ HealthEvery \in Nat \ {0}
  /\ AlertAfter \in Nat /\ MaxBacklog \in Nat /\ MaxGlitches \in Nat
  /\ NoData \notin Nat

VARIABLES
  up,                  \* the API answers
  backlog,             \* outbox rows in state pending
  outboxPending,       \* the value on display
  startedAt,           \* the ref: how long ago it was set, or NoData for null
  seconds,             \* the hook's state
  interval,            \* ticks until the interval fires, 0 when there is none
  hq,                  \* the cache entry ["health"]
  summaryIn, healthIn, \* ticks until the next poll
  glitches,
  steady,              \* history: how long `up` has had its value,
  stuckFor,            \* how long backlog has been positive and readable,
  shownFor,            \* how long no 0 has been displayed,
  calm                 \* how long the displayed value has not changed

shown == <<outboxPending, startedAt, seconds, interval>>
clocks == <<steady, stuckFor, shownFor, calm>>
vars == <<up, backlog, shown, hq, summaryIn, healthIn, glitches, clocks>>

\* Bounds of the clocks: the alarm, what has to pass before it is due, one
\* health poll, and the shortest time a value must stay for the interval to fire.
AlarmCap == (AlertAfter + 2) * Second
StuckCap == AlarmCap + SummaryEvery
ShownCap == AlertAfter * Second + 1
SteadyCap == HealthEvery + 1
Later(n, cap) == IF n < cap THEN n + 1 ELSE cap

TypeOK ==
  /\ up \in BOOLEAN /\ backlog \in 0..MaxBacklog /\ outboxPending \in 0..MaxBacklog
  /\ startedAt \in 0..AlarmCap \cup {NoData} /\ seconds \in 0..(AlertAfter + 2)
  /\ interval \in 0..Second
  /\ interval > 0 <=> outboxPending > 0
  /\ hq \in Entries({"ok"}, {})
  /\ summaryIn \in 0..SummaryEvery /\ healthIn \in 0..HealthEvery
  /\ glitches \in 0..MaxGlitches
  /\ steady \in 0..SteadyCap /\ stuckFor \in 0..StuckCap
  /\ shownFor \in 0..ShownCap /\ calm \in 0..Second

\* Mount, with both queries answered.
Init ==
  /\ up = TRUE /\ backlog = 0
  /\ outboxPending = 0 /\ startedAt = NoData /\ seconds = 0 /\ interval = 0
  /\ hq = [Blank EXCEPT !.data = "ok"]
  /\ summaryIn = SummaryEvery /\ healthIn = HealthEvery /\ glitches = 0
  /\ steady = 0 /\ stuckFor = 0 /\ shownFor = 0 /\ calm = 0

-----------------------------------------------------------------------------
(* What is displayed.                                                      *)

OutboxAlert == outboxPending > 0 /\ seconds > AlertAfter

\* The tile of the backlog.
OutboxTone ==
  CASE OutboxAlert -> "danger"
    [] ~OutboxAlert /\ outboxPending > 0 -> "warning"
    [] OTHER -> "neutral"

\* Mutant: the pill looks at the data only, which an error leaves in place.
Healthy_DataOnly == hq.data = "ok"

Healthy == hq.data = "ok" /\ ~hq.error
ApiDown == hq.error

-----------------------------------------------------------------------------
(* useStaleSeconds.                                                        *)

\* Mutants: the start is forgotten at every change; it survives a 0.
SinceWhen_Restarts(v) == IF v > 0 THEN 0 ELSE NoData
SinceWhen_Survives(v) == IF v > 0 /\ startedAt = NoData THEN 0 ELSE startedAt

\* startedAt.current after the effect has run for the value v.
SinceWhen(v) ==
  IF v > 0 THEN IF startedAt = NoData THEN 0 ELSE startedAt
  ELSE NoData

\* The effect runs when the value has changed: a new interval, or none.
Display(v) ==
  /\ outboxPending' = v
  /\ IF v = outboxPending
     THEN UNCHANGED <<startedAt, seconds, interval, calm>>
     ELSE /\ startedAt' = SinceWhen(v)
          /\ seconds' = IF v > 0 THEN seconds ELSE 0
          /\ interval' = IF v > 0 THEN Second ELSE 0
          /\ calm' = 0
  /\ shownFor' = IF v = 0 THEN 0 ELSE shownFor

\* A second has passed in the browser: the interval fires in the tick that
\* completes its period.
Tick ==
  /\ summaryIn > 0 /\ healthIn > 0
  /\ startedAt' = IF startedAt = NoData THEN NoData ELSE Later(startedAt, AlarmCap)
  /\ IF interval = 1
     THEN interval' = Second /\ seconds' = startedAt' \div Second
     ELSE interval' = (IF interval = 0 THEN 0 ELSE interval - 1) /\ UNCHANGED seconds
  /\ summaryIn' = summaryIn - 1 /\ healthIn' = healthIn - 1
  /\ steady' = Later(steady, SteadyCap)
  /\ shownFor' = Later(shownFor, ShownCap) /\ calm' = Later(calm, Second)
  /\ stuckFor' = IF backlog > 0 /\ up THEN Later(stuckFor, StuckCap) ELSE 0
  /\ UNCHANGED <<up, backlog, outboxPending, hq, glitches>>

-----------------------------------------------------------------------------
(* The queries.                                                            *)

\* The summary is answered: with the count, or with 0 when counting failed,
\* an error the reader drops.
Answered ==
  \/ Display(backlog) /\ UNCHANGED <<glitches, stuckFor>>
  \/ /\ glitches < MaxGlitches /\ glitches' = glitches + 1
     /\ Display(0) /\ stuckFor' = 0

\* refetchInterval; a failed fetch leaves the data.
PollSummary ==
  /\ summaryIn = 0 /\ summaryIn' = SummaryEvery
  /\ IF up THEN Answered
     ELSE UNCHANGED <<shown, glitches, stuckFor, shownFor, calm>>
  /\ UNCHANGED <<up, backlog, hq, healthIn, steady>>

\* A send's invalidation or the window's focus, at any time.
Refetch ==
  /\ up /\ Answered
  /\ UNCHANGED <<up, backlog, hq, summaryIn, healthIn, steady>>

\* The handler of /health answers "ok" whenever it answers.
GetHealth(q) == [q EXCEPT !.got = "ok"]

\* retry: false
PollHealth ==
  /\ healthIn = 0 /\ healthIn' = HealthEvery
  /\ hq' = IF up THEN Settle(GetHealth(StartFetch(hq)))
           ELSE Fail(StartFetch(hq), 0)
  /\ UNCHANGED <<up, backlog, shown, summaryIn, glitches, clocks>>

-----------------------------------------------------------------------------
(* The system being watched.                                               *)

\* Ingest adds outbox rows, the publisher retires them.
Pending(n) ==
  /\ n # backlog /\ backlog' = n
  /\ stuckFor' = IF n = 0 \/ backlog = 0 THEN 0 ELSE stuckFor
  /\ UNCHANGED <<up, shown, hq, summaryIn, healthIn, glitches, steady, shownFor, calm>>

Toggle ==
  /\ up' = ~up /\ steady' = 0 /\ stuckFor' = 0
  /\ UNCHANGED <<backlog, shown, hq, summaryIn, healthIn, glitches, shownFor, calm>>

Next ==
  \/ Tick \/ PollSummary \/ Refetch \/ PollHealth
  \/ \E n \in 0..MaxBacklog : Pending(n)
  \/ Toggle

Spec == Init /\ [][Next]_vars

-----------------------------------------------------------------------------
(* Properties.                                                             *)

\* No false alarm: when the bar says "stuck" no summary has shown an empty
\* outbox for more than AlertAfter seconds.
AlarmIsTrue == OutboxTone = "danger" => shownFor > AlertAfter * Second

\* No missed alarm: a backlog that has been there for AlertAfter seconds, a
\* poll and two periods of the interval is reported, although every change of
\* the value restarts the interval, if the last change is a second old.  (Values
\* that change faster keep the interval from ever firing.)
AlarmIsRaised ==
  stuckFor = StuckCap /\ calm >= Second => OutboxTone = "danger"

\* The pill and the banner tell the truth about an API whose state is older
\* than one health poll: in particular an alarm that counts on over data the
\* console can no longer refresh does so under the banner.
BannerInTime ==
  steady > HealthEvery => (up => Healthy /\ ~ApiDown) /\ (~up => ApiDown /\ ~Healthy)
=============================================================================
