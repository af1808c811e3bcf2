--------------------------- MODULE MonitorsProofs ---------------------------
(***************************************************************************)
(* For every polling period, every alarm threshold and every backlog: the  *)
(* outbox alarm is neither false nor missed, and the health banner is      *)
(* right one poll after the API changed.                                   *)
(***************************************************************************)
EXTENDS Monitors, TLAPS

\* While a backlog is shown, the hook's start is set, no older than the last 0
\* and no younger than the stuck backlog less one poll; `seconds` is what the
\* interval read of it, at most one period ago once the value is calm.
HookInv ==
  outboxPending > 0 =>
    /\ startedAt \in 0..AlarmCap
    /\ seconds * Second <= startedAt
    /\ shownFor < ShownCap => startedAt <= shownFor
    /\ stuckFor <= startedAt + SummaryEvery
    /\ calm < Second => interval = Second - calm
    /\ calm = Second => startedAt < (seconds + 1) * Second + (Second - interval)

\* Without one, the hook is reset, and a stuck backlog is one the next poll of
\* the summary will show.
ClearInv ==
  /\ outboxPending = 0 =>
       startedAt = NoData /\ seconds = 0 /\ stuckFor + summaryIn <= SummaryEvery
  /\ stuckFor > 0 => backlog > 0 /\ up

\* The health entry is idle and right, or a poll is due before it has to be.
Right == hq.error = ~up /\ (up => hq.data = "ok")
HealthInv == hq.fetch = "idle" /\ (Right \/ steady + healthIn <= HealthEvery)

\* The inductive invariant.
MonitorsInv == TypeOK /\ HookInv /\ ClearInv /\ HealthInv

\* Whole seconds of a number of ticks.
LEMMA Floor ==
  ASSUME NEW n \in Nat
  PROVE  /\ n \div Second \in Nat
         /\ (n \div Second) * Second <= n
         /\ n < (n \div Second + 1) * Second
  BY MonitorsAssumption

\* A number of periods is a number of ticks.
LEMMA Product ==
  ASSUME NEW a \in Nat
  PROVE  a * Second \in Nat
  BY MonitorsAssumption

\* Multiples of a period are ordered like their numbers of periods.
LEMMA Multiples ==
  ASSUME NEW a \in Nat, NEW b \in Nat
  PROVE  /\ a < b => (a + 1) * Second <= b * Second
         /\ a * Second < b * Second => a < b
<1>1. ASSUME a < b PROVE (a + 1) * Second <= b * Second
  <2>1. PICK k \in Nat : b = a + 1 + k
    <3>1. b - (a + 1) \in Nat /\ b = a + 1 + (b - (a + 1))
      BY <1>1
    <3> QED
      BY <3>1
  <2>2. b * Second = (a + 1) * Second + k * Second /\ k * Second \in Nat
    BY <2>1, MonitorsAssumption
  <2> QED
    BY <2>2, MonitorsAssumption
<1>2. ASSUME b <= a PROVE b * Second <= a * Second
  <2>1. PICK k \in Nat : a = b + k
    <3>1. a - b \in Nat /\ a = b + (a - b)
      BY <1>2
    <3> QED
      BY <3>1
  <2>2. a * Second = b * Second + k * Second /\ k * Second \in Nat
    BY <2>1, MonitorsAssumption
  <2> QED
    BY <2>2, MonitorsAssumption
<1> QED
  BY <1>1, <1>2, MonitorsAssumption

\* The bounds of the clocks.
LEMMA Caps ==
  /\ AlarmCap \in Nat /\ StuckCap \in Nat /\ ShownCap \in Nat /\ SteadyCap \in Nat
  /\ AlarmCap = (AlertAfter + 1) * Second + Second
  /\ StuckCap = AlarmCap + SummaryEvery
  /\ ShownCap <= (AlertAfter + 1) * Second
  /\ SteadyCap = HealthEvery + 1
  BY MonitorsAssumption DEF AlarmCap, StuckCap, ShownCap, SteadyCap

\* A clock counts up to its bound.
LEMMA LaterFacts ==
  ASSUME NEW cap \in Nat, NEW n \in 0..cap
  PROVE  /\ Later(n, cap) \in 0..cap /\ n <= Later(n, cap)
         /\ n < cap => Later(n, cap) = n + 1
         /\ n = cap => Later(n, cap) = cap
  BY DEF Later

\* A summary is displayed: the effect keeps the start while the value stays
\* positive, and sets it when a backlog appears, at most one poll late.
LEMMA DisplayStep ==
  ASSUME MonitorsInv, NEW v \in 0..MaxBacklog, Display(v),
         UNCHANGED <<up, backlog, hq, healthIn, steady>>,
         summaryIn' \in 0..SummaryEvery, glitches' \in 0..MaxGlitches,
         stuckFor' \in {stuckFor, 0}, v = 0 => stuckFor' = 0
  PROVE  MonitorsInv'
<1> USE MonitorsAssumption
<1>1. TypeOK /\ HookInv /\ ClearInv /\ HealthInv
  BY DEF MonitorsInv
<1>2. outboxPending' = v /\ shownFor' = IF v = 0 THEN 0 ELSE shownFor
  BY DEF Display
<1>3. ClearInv'
  <2>1. v = 0 => startedAt' = NoData /\ seconds' = 0
    BY <1>1 DEF Display, ClearInv, SinceWhen
  <2>2. ASSUME v = 0 PROVE stuckFor' + summaryIn' <= SummaryEvery
    <3>1. stuckFor' = 0
      BY <2>2
    <3>2. summaryIn' \in Nat /\ summaryIn' <= SummaryEvery
      OBVIOUS
    <3> QED
      BY ONLY <3>1, <3>2
  <2>3. stuckFor' > 0 => backlog' > 0 /\ up'
    BY <1>1 DEF ClearInv
  <2> QED
    BY <1>2, <2>1, <2>2, <2>3 DEF ClearInv
<1>4. CASE v = outboxPending
  <2>1. UNCHANGED <<outboxPending, startedAt, seconds, interval, calm>>
    BY <1>4 DEF Display
  <2>2. TypeOK'
    BY <1>1, <1>2, <2>1, Caps DEF TypeOK
  <2>3. HookInv'
    <3>1. CASE v = 0
      BY <1>2, <3>1 DEF HookInv
    <3>2. CASE v > 0
      <4>1. shownFor' = shownFor /\ stuckFor' <= stuckFor
        BY <1>1, <1>2, <3>2 DEF TypeOK
      <4>2. stuckFor' \in Nat /\ stuckFor \in Nat /\ startedAt \in Nat
        BY <1>1, <1>4, <3>2, Caps DEF TypeOK, HookInv
      <4>3. stuckFor' <= startedAt + SummaryEvery
        BY <1>1, <1>4, <3>2, <4>1, <4>2 DEF HookInv
      <4> QED
        BY <1>1, <1>4, <2>1, <3>2, <4>1, <4>3 DEF HookInv
    <3> QED
      BY <3>1, <3>2
  <2> QED
    BY <1>1, <1>3, <2>2, <2>3 DEF MonitorsInv, HealthInv, Right
<1>5. CASE v # outboxPending
  <2>1. /\ startedAt' = SinceWhen(v)
        /\ seconds' = (IF v > 0 THEN seconds ELSE 0)
        /\ interval' = (IF v > 0 THEN Second ELSE 0)
        /\ calm' = 0
    BY <1>5 DEF Display
  <2>2. startedAt' \in 0..AlarmCap \cup {NoData}
    BY <1>1, <2>1, Caps DEF SinceWhen, TypeOK
  <2>3. TypeOK'
    BY <1>1, <1>2, <2>1, <2>2, Caps DEF TypeOK
  <2>4. ASSUME v > 0
        PROVE  /\ startedAt' \in 0..AlarmCap
               /\ seconds' * Second <= startedAt'
               /\ shownFor' < ShownCap => startedAt' <= shownFor'
               /\ stuckFor' <= startedAt' + SummaryEvery
    <3>1. shownFor' = shownFor /\ seconds' = seconds
      BY <1>2, <2>1, <2>4
    <3>2. CASE outboxPending = 0
      <4>1. startedAt' = 0 /\ seconds = 0 /\ stuckFor + summaryIn <= SummaryEvery
        BY <1>1, <2>1, <2>4, <3>2 DEF ClearInv, SinceWhen
      <4>2. stuckFor \in Nat /\ summaryIn \in Nat /\ shownFor \in Nat
        BY <1>1, Caps DEF TypeOK
      <4> QED
        BY <3>1, <4>1, <4>2, Caps
    <3>3. CASE outboxPending > 0
      <4>1. startedAt' = startedAt /\ startedAt \in 0..AlarmCap
        BY <1>1, <2>1, <2>4, <3>3 DEF HookInv, SinceWhen
      <4>2. stuckFor \in Nat /\ stuckFor <= startedAt + SummaryEvery
        BY <1>1, <3>3, Caps DEF TypeOK, HookInv
      <4> QED
        BY <1>1, <3>1, <3>3, <4>1, <4>2, Caps DEF HookInv
    <3> QED
      BY <1>1, <3>2, <3>3 DEF TypeOK
  <2>5. HookInv'
    BY <1>2, <2>1, <2>4 DEF HookInv
  <2> QED
    BY <1>1, <1>3, <2>3, <2>5 DEF MonitorsInv, HealthInv, Right
<1> QED
  BY <1>4, <1>5

\* Time passes: all clocks go on together, and the interval reads the start.
LEMMA TickStep == MonitorsInv /\ Tick => MonitorsInv'
<1> SUFFICES ASSUME MonitorsInv, Tick PROVE MonitorsInv'
  OBVIOUS
<1> USE MonitorsAssumption
<1>1. TypeOK /\ HookInv /\ ClearInv /\ HealthInv
  BY DEF MonitorsInv
<1>2. /\ steady' = Later(steady, SteadyCap) /\ shownFor' = Later(shownFor, ShownCap)
      /\ calm' = Later(calm, Second) /\ summaryIn' = summaryIn - 1 /\ healthIn' = healthIn - 1
      /\ stuckFor' = (IF backlog > 0 /\ up THEN Later(stuckFor, StuckCap) ELSE 0)
      /\ summaryIn > 0 /\ healthIn > 0
      /\ UNCHANGED <<up, backlog, outboxPending, hq, glitches>>
  BY DEF Tick
<1>3. /\ steady \in 0..SteadyCap /\ shownFor \in 0..ShownCap /\ stuckFor \in 0..StuckCap
      /\ calm \in 0..Second
  BY <1>1 DEF TypeOK
<1>4. /\ steady' \in 0..SteadyCap /\ shownFor' \in 0..ShownCap /\ stuckFor' \in 0..StuckCap
      /\ calm' \in 0..Second
      /\ summaryIn' \in 0..SummaryEvery /\ healthIn' \in 0..HealthEvery
  BY <1>1, <1>2, <1>3, Caps, LaterFacts DEF TypeOK
<1>5. HealthInv'
  <2>1. CASE Right
    BY <1>1, <1>2, <2>1 DEF HealthInv, Right
  <2>2. CASE steady + healthIn <= HealthEvery
    <3>1. steady' = steady + 1
      BY <1>1, <1>2, <1>3, <2>2, Caps, LaterFacts DEF TypeOK
    <3>2. steady' + healthIn' <= HealthEvery
      BY <1>1, <1>2, <1>3, <2>2, <3>1, Caps DEF TypeOK
    <3> QED
      BY <1>1, <1>2, <3>2 DEF HealthInv
  <2> QED
    BY <1>1, <2>1, <2>2 DEF HealthInv
<1>6. stuckFor' > 0 => backlog' > 0 /\ up' /\ stuckFor' <= stuckFor + 1
  BY <1>2, <1>3, Caps, LaterFacts
<1>7. CASE outboxPending = 0
  <2>1. startedAt = NoData /\ seconds = 0 /\ stuckFor + summaryIn <= SummaryEvery
        /\ interval = 0
    BY <1>1, <1>7 DEF ClearInv, TypeOK
  <2>2. startedAt' = NoData /\ seconds' = 0 /\ interval' = 0
    BY <2>1 DEF Tick
  <2>3. stuckFor' + summaryIn' <= SummaryEvery
    BY <1>1, <1>2, <1>3, <1>4, <1>6, <2>1, Caps DEF TypeOK
  <2>4. TypeOK'
    BY <1>1, <1>2, <1>4, <1>7, <2>2 DEF TypeOK
  <2>5. ClearInv' /\ HookInv'
    BY <1>2, <1>6, <1>7, <2>2, <2>3 DEF ClearInv, HookInv
  <2> QED
    BY <1>5, <2>4, <2>5 DEF MonitorsInv
<1>8. CASE outboxPending > 0
  <2>1. /\ startedAt \in 0..AlarmCap /\ seconds \in Nat /\ interval \in 1..Second
        /\ startedAt # NoData
    BY <1>1, <1>8, Caps DEF HookInv, TypeOK
  <2>2. startedAt' = Later(startedAt, AlarmCap) /\ startedAt' \in 0..AlarmCap
        /\ startedAt <= startedAt'
    BY <2>1, Caps, LaterFacts DEF Tick
  <2>3. startedAt' <= startedAt + 1 /\ (startedAt < AlarmCap => startedAt' = startedAt + 1)
        /\ (startedAt = AlarmCap => startedAt' = AlarmCap)
    BY <2>1, <2>2, Caps, LaterFacts
  <2>4. interval' \in 1..Second
        /\ (interval = 1 => interval' = Second /\ seconds' = startedAt' \div Second)
        /\ (interval # 1 => interval' = interval - 1 /\ seconds' = seconds)
    BY <2>1 DEF Tick
  <2>5. seconds' \in Nat /\ seconds' * Second <= startedAt'
    <3>1. seconds * Second \in Nat
      BY <2>1
    <3> QED
      BY <1>1, <1>8, <2>1, <2>2, <2>4, <3>1, Floor, Caps DEF HookInv
  <2>6. seconds' \in 0..(AlertAfter + 2)
    <3>1. CASE interval = 1
      <4>1. seconds' * Second < (AlertAfter + 3) * Second
        <5>1. AlarmCap < (AlertAfter + 3) * Second
          BY DEF AlarmCap
        <5>2. seconds' * Second \in Nat /\ (AlertAfter + 3) * Second \in Nat
          <6>1. AlertAfter + 3 \in Nat
            OBVIOUS
          <6> QED
            BY <2>5, <6>1, Product
        <5>3. seconds' * Second <= AlarmCap
          <6>1. startedAt' \in Nat /\ startedAt' <= AlarmCap /\ AlarmCap \in Nat
            BY <2>2, Caps
          <6> QED
            BY ONLY <2>5, <5>2, <6>1
        <5> QED
          BY <5>1, <5>2, <5>3, Caps
      <4>2. seconds' < AlertAfter + 3
        <5>1. AlertAfter + 3 \in Nat
          OBVIOUS
        <5> QED
          BY <2>5, <4>1, <5>1, Multiples
      <4> QED
        BY <2>5, <4>2
    <3>2. CASE interval # 1
      BY <1>1, <2>4, <3>2 DEF TypeOK
    <3> QED
      BY <3>1, <3>2
  <2>7. shownFor' < ShownCap => startedAt' <= shownFor'
    <3>1. ASSUME shownFor' < ShownCap PROVE startedAt' <= shownFor'
      <4>1. shownFor < ShownCap /\ shownFor' = shownFor + 1
        BY <1>2, <1>3, <3>1, Caps, LaterFacts
      <4> QED
        BY <1>1, <1>3, <1>8, <2>1, <2>2, <2>3, <4>1, Caps DEF HookInv
    <3> QED
      BY <3>1
  <2>8. stuckFor' <= startedAt' + SummaryEvery
    <3>1. stuckFor <= startedAt + SummaryEvery
      BY <1>1, <1>8 DEF HookInv
    <3>2. stuckFor' <= stuckFor + 1 /\ stuckFor' \in 0..StuckCap
      BY <1>3, <1>4, <1>6, Caps
    <3> QED
      BY <1>3, <2>1, <2>3, <3>1, <3>2, Caps
  <2>9. calm' < Second => interval' = Second - calm'
    <3>1. ASSUME calm' < Second PROVE interval' = Second - calm'
      <4>1. calm < Second /\ calm' = calm + 1
        BY <1>2, <1>3, <3>1, LaterFacts
      <4>2. interval = Second - calm
        BY <1>1, <1>8, <4>1 DEF HookInv
      <4> QED
        BY <1>3, <2>1, <2>4, <3>1, <4>1, <4>2
    <3> QED
      BY <3>1
  <2>10. calm' = Second => startedAt' < (seconds' + 1) * Second + (Second - interval')
    <3>1. CASE interval = 1
      <4>1. startedAt' < (startedAt' \div Second + 1) * Second
        BY <2>2, Floor, Caps
      <4> QED
        BY <2>4, <3>1, <4>1, <2>2, <2>5
    <3>2. ASSUME interval # 1, calm' = Second
          PROVE  startedAt' < (seconds' + 1) * Second + (Second - interval')
      <4>1. calm = Second
        <5>1. CASE calm < Second
          <6>1. interval = Second - calm /\ calm' = calm + 1
            BY <1>1, <1>2, <1>3, <1>8, <5>1, LaterFacts DEF HookInv
          <6> QED
            BY <1>3, <3>2, <6>1
        <5> QED
          BY <1>3, <5>1
      <4>2. startedAt < (seconds + 1) * Second + (Second - interval)
        BY <1>1, <1>8, <4>1 DEF HookInv
      <4>3. (seconds + 1) * Second \in Nat
        BY <2>1
      <4> QED
        BY <2>1, <2>2, <2>3, <2>4, <3>2, <4>2, <4>3, Caps
    <3> QED
      BY <3>1, <3>2
  <2>11. TypeOK'
    BY <1>1, <1>2, <1>4, <1>8, <2>2, <2>4, <2>6, Caps DEF TypeOK
  <2>12. HookInv'
    BY <2>2, <2>5, <2>7, <2>8, <2>9, <2>10 DEF HookInv
  <2>13. ClearInv'
    BY <1>2, <1>6, <1>8 DEF ClearInv
  <2> QED
    BY <1>5, <2>11, <2>12, <2>13 DEF MonitorsInv
<1> QED
  BY <1>1, <1>7, <1>8 DEF TypeOK

\* An answered summary displays the count, or a 0 that resets the clock.
LEMMA AnsweredStep ==
  ASSUME MonitorsInv, Answered, UNCHANGED <<up, backlog, hq, healthIn, steady>>,
         summaryIn' \in 0..SummaryEvery
  PROVE  MonitorsInv'
<1>1. TypeOK /\ ClearInv
  BY DEF MonitorsInv
<1>2. CASE Display(backlog) /\ UNCHANGED <<glitches, stuckFor>>
  <2>1. backlog = 0 => stuckFor' = 0
    BY <1>1, <1>2, Caps, MonitorsAssumption DEF TypeOK, ClearInv
  <2>2. backlog \in 0..MaxBacklog /\ glitches' \in 0..MaxGlitches
    BY <1>1, <1>2 DEF TypeOK
  <2> QED
    BY <1>2, <2>1, <2>2, DisplayStep
<1>3. CASE /\ glitches < MaxGlitches /\ glitches' = glitches + 1
           /\ Display(0) /\ stuckFor' = 0
  <2>1. 0 \in 0..MaxBacklog /\ glitches' \in 0..MaxGlitches
    BY <1>1, <1>3, MonitorsAssumption DEF TypeOK
  <2> QED
    BY <1>3, <2>1, DisplayStep
<1> QED
  BY <1>2, <1>3 DEF Answered

\* StartFetch on an idle entry gives an entry with no try spent.
LEMMA StartFetchType ==
  ASSUME NEW q \in Entries({"ok"}, {}), q.fetch = "idle"
  PROVE  StartFetch(q) \in Entries({"ok"}, {}) /\ StartFetch(q).tries = 0
<1>1. ASSUME NEW c \in BOOLEAN
      PROVE  [q EXCEPT !.fetch = "asked", !.tries = 0, !.got = NoData, !.error = c]
               \in Entries({"ok"}, {})
  <2>1. {"asked"} \subseteq {} \cup {"idle", "asked", "answered"} /\ {0} \subseteq 0..1
    OBVIOUS
  <2>2. [q EXCEPT !.fetch = "asked", !.tries = 0, !.got = NoData, !.error = c]
          \in [data : {"ok"} \cup {NoData}, error : BOOLEAN, invalid : BOOLEAN,
               fetch : {"asked"}, tries : {0}, got : {NoData}]
    BY Zenon DEF Entries
  <2> QED
    BY <2>1, <2>2 DEF Entries
<1> DEFINE b == q.error /\ q.data # NoData
<1>2. StartFetch(q) = [q EXCEPT !.fetch = "asked", !.tries = 0, !.got = NoData, !.error = b]
  BY DEF StartFetch
<1>3. b \in BOOLEAN
  OBVIOUS
<1> HIDE DEF b
<1> QED
  BY <1>1, <1>2, <1>3 DEF Entries

\* A poll of the health check leaves the entry idle and right.
LEMMA HealthAnswer ==
  ASSUME MonitorsInv, PollHealth
  PROVE  hq' \in Entries({"ok"}, {}) /\ hq'.fetch = "idle" /\ Right'
<1>1. /\ hq \in Entries({"ok"}, {}) /\ hq.fetch = "idle" /\ up \in BOOLEAN
      /\ UNCHANGED up
  BY DEF MonitorsInv, TypeOK, HealthInv, PollHealth
<1> DEFINE f == StartFetch(hq)
<1>2. f \in Entries({"ok"}, {}) /\ f.tries = 0
  BY <1>1, StartFetchType
<1>3. CASE up
  <2>1. hq' = Settle(GetHealth(f))
    BY <1>3 DEF PollHealth
  <2>2. GetHealth(f).got = "ok"
    BY <1>2 DEF GetHealth, Entries
  <2>3. hq' = [data |-> "ok", error |-> FALSE, invalid |-> FALSE,
               fetch |-> "idle", tries |-> 0, got |-> NoData]
    BY <2>1, <2>2 DEF Settle, Blank
  <2>4. hq' \in Entries({"ok"}, {})
    BY <2>3 DEF Entries
  <2>5. hq'.fetch = "idle" /\ hq'.error = FALSE /\ hq'.data = "ok"
    BY <2>3
  <2> QED
    BY <1>1, <1>3, <2>4, <2>5 DEF Right
<1>4. CASE ~up
  <2>1. hq' = Fail(f, 0)
    BY <1>4 DEF PollHealth
  <2>2. hq' = [f EXCEPT !.fetch = "idle", !.tries = 0, !.got = NoData, !.error = TRUE]
    BY <1>2, <2>1 DEF Fail
  <2>3. hq'.fetch = "idle" /\ hq'.error = TRUE /\ hq' \in Entries({"ok"}, {})
    BY <1>2, <2>2 DEF Entries
  <2> QED
    BY <1>1, <1>4, <2>3 DEF Right
<1> QED
  BY <1>1, <1>3, <1>4

\* Every step keeps the invariant.
LEMMA MonitorsStep == MonitorsInv /\ [Next]_vars => MonitorsInv'
<1> SUFFICES ASSUME MonitorsInv, [Next]_vars PROVE MonitorsInv'
  OBVIOUS
<1> USE MonitorsAssumption
<1>0. TypeOK /\ HookInv /\ ClearInv /\ HealthInv
  BY DEF MonitorsInv
<1>1. CASE Tick
  BY <1>1, TickStep
<1>2. CASE PollSummary
  <2>1. CASE up
    BY <1>2, <2>1, AnsweredStep DEF PollSummary
  <2>2. CASE ~up
    <3>1. UNCHANGED <<up, backlog, shown, hq, healthIn, steady, glitches, stuckFor,
                      shownFor, calm>> /\ summaryIn' = SummaryEvery
      BY <1>2, <2>2 DEF PollSummary
    <3>2. stuckFor = 0
      BY <1>0, <2>2, Caps DEF TypeOK, ClearInv
    <3>3. TypeOK' /\ HookInv'
      BY <1>0, <3>1 DEF TypeOK, HookInv, shown
    <3>4. ClearInv' /\ HealthInv'
      BY <1>0, <3>1, <3>2 DEF ClearInv, HealthInv, Right, shown
    <3> QED
      BY <3>3, <3>4 DEF MonitorsInv
  <2> QED
    BY <2>1, <2>2
<1>3. CASE Refetch
  <2>1. Answered /\ UNCHANGED <<up, backlog, hq, healthIn, steady>>
        /\ summaryIn' \in 0..SummaryEvery
    BY <1>0, <1>3 DEF Refetch, TypeOK
  <2> QED
    BY <2>1, AnsweredStep
<1>4. CASE PollHealth
  <2>1. UNCHANGED <<up, backlog, shown, summaryIn, glitches, clocks>>
        /\ healthIn' = HealthEvery
    BY <1>4 DEF PollHealth
  <2>2. hq' \in Entries({"ok"}, {}) /\ hq'.fetch = "idle" /\ Right'
    BY <1>4, HealthAnswer
  <2>3. TypeOK'
    BY <1>0, <2>1, <2>2 DEF TypeOK, shown, clocks
  <2>4. HookInv' /\ ClearInv'
    BY <1>0, <2>1 DEF HookInv, ClearInv, shown, clocks
  <2> QED
    BY <2>2, <2>3, <2>4 DEF MonitorsInv, HealthInv
<1>5. ASSUME NEW n \in 0..MaxBacklog, Pending(n) PROVE MonitorsInv'
  <2>1. /\ backlog' = n /\ stuckFor' = (IF n = 0 \/ backlog = 0 THEN 0 ELSE stuckFor)
        /\ UNCHANGED <<up, outboxPending, startedAt, seconds, interval, hq, summaryIn,
                       healthIn, glitches, steady, shownFor, calm>>
    BY <1>5 DEF Pending, shown
  <2>2. stuckFor' \in 0..StuckCap /\ stuckFor' <= stuckFor /\ stuckFor \in Nat
    BY <1>0, <2>1, Caps DEF TypeOK
  <2>3. TypeOK'
    BY <1>0, <2>1, <2>2 DEF TypeOK
  <2>4. HookInv'
    <3>1. outboxPending > 0 => stuckFor' <= startedAt + SummaryEvery
      BY <1>0, <2>2, Caps DEF HookInv
    <3> QED
      BY <1>0, <2>1, <3>1 DEF HookInv
  <2>5. ClearInv'
    <3>1. outboxPending = 0 => stuckFor' + summaryIn' <= SummaryEvery
      BY <1>0, <2>1, <2>2 DEF ClearInv, TypeOK
    <3>2. stuckFor' > 0 => backlog' > 0 /\ up'
      BY <1>0, <2>1 DEF ClearInv, TypeOK
    <3> QED
      BY <1>0, <2>1, <3>1, <3>2 DEF ClearInv
  <2> QED
    BY <1>0, <2>1, <2>3, <2>4, <2>5 DEF MonitorsInv, HealthInv, Right
<1>6. CASE Toggle
  <2>1. /\ up' = ~up /\ steady' = 0 /\ stuckFor' = 0
        /\ UNCHANGED <<backlog, outboxPending, startedAt, seconds, interval, hq, summaryIn,
                       healthIn, glitches, shownFor, calm>>
    BY <1>6 DEF Toggle, shown
  <2>2. TypeOK'
    BY <1>0, <2>1, Caps DEF TypeOK
  <2>3. HookInv'
    <3>1. outboxPending > 0 => 0 <= startedAt + SummaryEvery
      BY <1>0, Caps DEF HookInv
    <3> QED
      BY <1>0, <2>1, <3>1 DEF HookInv
  <2>4. ClearInv'
    BY <1>0, <2>1 DEF ClearInv, TypeOK
  <2>5. HealthInv'
    BY <1>0, <2>1 DEF HealthInv, TypeOK
  <2> QED
    BY <2>2, <2>3, <2>4, <2>5 DEF MonitorsInv
<1>7. CASE UNCHANGED vars
  BY <1>0, <1>7 DEF MonitorsInv, TypeOK, HookInv, ClearInv, HealthInv, Right, vars, shown, clocks
<1> QED
  BY <1>1, <1>2, <1>3, <1>4, <1>5, <1>6, <1>7 DEF Next

\* The invariant holds for every choice of periods and bounds.
LEMMA Inductive == Spec => []MonitorsInv
<1>1. Init => MonitorsInv
  <2> SUFFICES ASSUME Init PROVE MonitorsInv
    OBVIOUS
  <2> USE MonitorsAssumption, Caps DEF Init
  <2>1. hq \in Entries({"ok"}, {}) /\ hq.fetch = "idle" /\ hq.error = FALSE /\ hq.data = "ok"
    <3>1. hq = [data |-> "ok", error |-> FALSE, invalid |-> FALSE,
                fetch |-> "idle", tries |-> 0, got |-> NoData]
      BY DEF Blank
    <3>2. hq \in Entries({"ok"}, {})
      BY ONLY <3>1 DEF Entries
    <3> QED
      BY <3>1, <3>2
  <2>2. TypeOK
    BY <2>1 DEF TypeOK
  <2>3. HookInv /\ ClearInv /\ HealthInv
    BY <2>1 DEF HookInv, ClearInv, HealthInv, Right
  <2> QED
    BY <2>2, <2>3 DEF MonitorsInv
<1> QED
  BY <1>1, MonitorsStep, PTL DEF Spec

\* Clocks, counters and the hook's interval stay in their ranges; an interval
\* is armed exactly while a backlog is displayed.
THEOREM TypeCorrect == Spec => []TypeOK
<1>1. MonitorsInv => TypeOK
  BY DEF MonitorsInv
<1> QED
  BY <1>1, Inductive, PTL

\* The bar never says "stuck" within AlertAfter seconds of an empty outbox.
THEOREM NoFalseAlarm == Spec => []AlarmIsTrue
<1>1. MonitorsInv => AlarmIsTrue
  <2> SUFFICES ASSUME MonitorsInv, OutboxTone = "danger"
               PROVE  shownFor > AlertAfter * Second
    BY DEF AlarmIsTrue
  <2>1. outboxPending > 0 /\ seconds > AlertAfter
    BY DEF OutboxTone, OutboxAlert
  <2>2. /\ seconds * Second <= startedAt /\ startedAt \in 0..AlarmCap
        /\ shownFor < ShownCap => startedAt <= shownFor
        /\ shownFor \in 0..ShownCap /\ seconds \in Nat
    BY <2>1, MonitorsAssumption DEF MonitorsInv, HookInv, TypeOK
  <2>3. (AlertAfter + 1) * Second <= seconds * Second
    BY <2>1, <2>2, Multiples, MonitorsAssumption
  <2>4. ShownCap <= startedAt
    <3>1. (AlertAfter + 1) * Second \in Nat /\ seconds * Second \in Nat
      BY <2>2, Product, MonitorsAssumption
    <3>2. startedAt \in Nat /\ ShownCap \in Nat /\ ShownCap <= (AlertAfter + 1) * Second
      BY <2>2, Caps
    <3> QED
      BY ONLY <2>2, <2>3, <3>1, <3>2
  <2>5. shownFor = ShownCap
    BY <2>2, <2>4, Caps
  <2> QED
    BY <2>5, MonitorsAssumption DEF ShownCap
<1> QED
  BY <1>1, Inductive, PTL

\* A backlog that outlasts the threshold, one poll and two periods is reported
\* once the displayed value has not changed for a second.
THEOREM NoMissedAlarm == Spec => []AlarmIsRaised
<1>1. MonitorsInv => AlarmIsRaised
  <2> SUFFICES ASSUME MonitorsInv, stuckFor = StuckCap, calm >= Second
               PROVE  OutboxTone = "danger"
    BY DEF AlarmIsRaised
  <2> USE MonitorsAssumption
  <2>1. TypeOK /\ HookInv /\ ClearInv
    BY DEF MonitorsInv
  <2>2. outboxPending > 0
    <3>1. SummaryEvery < StuckCap
      BY Product, Caps DEF AlarmCap
    <3> QED
      BY <2>1, <3>1, Caps DEF TypeOK, ClearInv
  <2>3. calm = Second /\ interval \in 1..Second /\ seconds \in Nat
    BY <2>1, <2>2 DEF TypeOK
  <2>4. /\ startedAt \in 0..AlarmCap /\ StuckCap <= startedAt + SummaryEvery
        /\ startedAt < (seconds + 1) * Second + (Second - interval)
    BY <2>1, <2>2, <2>3 DEF HookInv
  <2>5. startedAt = AlarmCap
    BY <2>4, Caps
  <2>6. (seconds + 1) * Second \in Nat /\ (AlertAfter + 1) * Second \in Nat
    BY <2>3, Product
  <2>7. (AlertAfter + 1) * Second < (seconds + 1) * Second
    <3>1. (AlertAfter + 1) * Second + Second < (seconds + 1) * Second + (Second - interval)
      BY <2>4, <2>5, Caps
    <3>2. Second \in Nat /\ interval \in Nat
      BY <2>3
    <3> QED
      BY ONLY <2>6, <3>1, <3>2
  <2>8. AlertAfter < seconds
    BY <2>3, <2>7, Multiples
  <2> QED
    BY <2>2, <2>8, <2>3 DEF OutboxTone, OutboxAlert
<1> QED
  BY <1>1, Inductive, PTL

\* The pill and the banner are right about an API whose state is older than one
\* period of the health check.
THEOREM BannerIsTrue == Spec => []BannerInTime
<1>1. MonitorsInv => BannerInTime
  <2> SUFFICES ASSUME MonitorsInv, steady > HealthEvery
               PROVE  (up => Healthy /\ ~ApiDown) /\ (~up => ApiDown /\ ~Healthy)
    BY DEF BannerInTime
  <2>1. Right
    BY MonitorsAssumption, Caps DEF MonitorsInv, TypeOK, HealthInv
  <2> QED
    BY <2>1 DEF Right, Healthy, ApiDown
<1> QED
  BY <1>1, Inductive, PTL
=============================================================================
