------------------------------ MODULE LoadTest ------------------------------
(***************************************************************************)
(* The load generator of the web console: LoadTestPanel.tsx and            *)
(* lib/loadTest.ts.  A click starts a pool of asynchronous workers that    *)
(* share the counter `next` and the object `result`; each takes an index,  *)
(* builds a request from the configuration the click closed over, and      *)
(* posts it with the API key of the moment.  The configuration and the key *)
(* stay editable during a run.                                             *)
(*                                                                         *)
(* The number inputs accept fractions, so counts and the concurrency are   *)
(* kept in HALVES: 5 stands for 2.5.  POST /v1/notifications is one step   *)
(* per request (module Ingest shows that this is what its clients see), a  *)
(* delivery being its (idempotency key, channel) pair; the keys of         *)
(* different runs never meet.  What the hook's onSuccess does to the       *)
(* selection and the summary is in module Overview.                        *)
(***************************************************************************)
EXTENDS Naturals, Sequences, FiniteSets

CONSTANTS
  AllChannels,     \* ALL_CHANNELS, a sequence
  AllPriorities,   \* ALL_PRIORITIES
  CountInputs,     \* what is typed into the count and concurrency boxes, in halves
  MaxConcurrency,  \* 100 in the code, in halves
  Defaults,        \* burstCount, duplicateCount, concurrency, stagger at the start
  MaxEdits,        \* how often a behaviour edits the configuration or the key
  None             \* null

ASSUME LoadTestAssumption ==
  /\ AllChannels \in Seq(STRING) /\ AllChannels # <<>>
  /\ \A i, j \in DOMAIN AllChannels : AllChannels[i] = AllChannels[j] => i = j
  /\ AllPriorities \subseteq STRING /\ "normal" \in AllPriorities
  /\ CountInputs \subseteq Nat
  /\ MaxConcurrency \in Nat /\ MaxConcurrency >= 2
  /\ Defaults \in [burst : Nat \ {0, 1}, duplicate : Nat \ {0, 1},
                   concurrency : 2..MaxConcurrency, stagger : BOOLEAN]
  /\ MaxEdits \in Nat

VARIABLES
  config,    \* the panel's state
  apiKey,    \* the store's key: "valid", "wrong" or ""
  running,   \* the scenario that runs, or None
  progress,  \* what the progress line shows, or None
  run,       \* the closure of runScenario: scenario, config and count
  next,      \* the counter the workers share
  result,    \* the totals they share
  wk,        \* each worker: where it is, its index, its request and its key
  created,   \* server: the deliveries this run made
  sent,      \* history: the requests handed to `send`, in order
  report,    \* history: the totals of the last completion toast, or None
  edits

vars == <<config, apiKey, running, progress, run, next, result, wk, created,
          sent, report, edits>>

-----------------------------------------------------------------------------
(* lib/loadTest.ts: the requests a scenario sends.                         *)

Channels == {AllChannels[i] : i \in DOMAIN AllChannels}

Addresses == {"happy", "transient", "permanent", "circuit"}

Scenarios ==
  {"burst", "duplicate-seq", "duplicate-par", "random-channel", "random-priority",
   "mixed-chaos", "retry-storm", "failure-mix", "staggered", "all-channels"}

\* null is not the name of a scenario.
ASSUME NoneAssumption == None \notin Scenarios

Storms == {"duplicate-seq", "duplicate-par"}

InSequence == {"duplicate-seq", "staggered"}

\* stagger stands for staggerMs > 0.
Configs ==
  [address : Addresses, burst : Nat \ {0, 1}, duplicate : Nat \ {0, 1},
   channelMode : {"fixed", "random", "round-robin"}, fixedChannel : Channels,
   selectedChannels : Seq(Channels) \ {<<>>}, priorityMode : {"fixed", "random"},
   fixedPriority : AllPriorities, concurrency : 2..MaxConcurrency, stagger : BOOLEAN]

DefaultLoadConfig ==
  [address |-> "happy", burst |-> Defaults.burst, duplicate |-> Defaults.duplicate,
   channelMode |-> "fixed", fixedChannel |-> AllChannels[1],
   selectedChannels |-> AllChannels, priorityMode |-> "fixed",
   fixedPriority |-> "normal", concurrency |-> Defaults.concurrency,
   stagger |-> Defaults.stagger]

Pool(c) == IF c.selectedChannels # <<>> THEN c.selectedChannels ELSE AllChannels

\* The channels resolveChannel may return: one, except in random mode.
ResolveChannel(c, i) ==
  CASE c.channelMode = "fixed" -> {c.fixedChannel}
    [] c.channelMode = "random" -> {Pool(c)[n] : n \in DOMAIN Pool(c)}
    [] OTHER -> {Pool(c)[(i % Len(Pool(c))) + 1]}

ResolvePriority(c) ==
  IF c.priorityMode = "random" THEN AllPriorities ELSE {c.fixedPriority}

\* genLoadKey: random and timestamped, distinct for every request; a storm's
\* dup-storm-<time> is key 0.
GenLoadKey(i) == i + 1
SharedKey == 0

\* The requests buildRequest may return for these recipients and this key.
BuildRequest(c, i, addresses, key) ==
  [key : {key}, channel : ResolveChannel(c, i), priority : ResolvePriority(c),
   address : addresses]

FailureMix == {"happy", "transient", "permanent"}

BuildScenarioRequest(s, c, i) ==
  LET random == [c EXCEPT !.channelMode = "random"]
      Build(cc) == BuildRequest(cc, i, {cc.address}, GenLoadKey(i))
  IN  CASE s = "retry-storm" -> BuildRequest(c, i, {"transient"}, GenLoadKey(i))
        [] s = "failure-mix" -> BuildRequest(c, i, FailureMix, GenLoadKey(i))
        [] s = "random-channel" -> Build(random)
        [] s = "random-priority" -> Build([c EXCEPT !.priorityMode = "random"])
        [] s = "mixed-chaos" -> Build([random EXCEPT !.priorityMode = "random"])
        [] s = "all-channels" -> Build([c EXCEPT !.channelMode = "round-robin"])
        [] s \in Storms -> BuildRequest(c, i, {c.address}, SharedKey)
        [] OTHER -> Build(c)

ScenarioCount(s, c) == IF s \in Storms THEN c.duplicate ELSE c.burst

Larger(a, b) == IF a > b THEN a ELSE b
Smaller(a, b) == IF a < b THEN a ELSE b

\* Whether index i is one of the `count` (halves): the test i < count.
Within(i, count) == 2 * i < count

\* How many indices that are.
Indices(count) == (count + 1) \div 2

\* The workers of a run: Array.from rounds a fractional limit down.
Limit(s, c) ==
  IF s \in InSequence THEN 1
  ELSE Larger(2, Smaller(c.concurrency, ScenarioCount(s, c))) \div 2

-----------------------------------------------------------------------------
(* The state.                                                              *)

\* As many as a run may have; those above its limit have nothing to do.
Workers == 1..(MaxConcurrency \div 2)

Totals == [ok : Nat, fail : Nat, duplicates : Nat]
Zero == [ok |-> 0, fail |-> 0, duplicates |-> 0]
Counted(r) == r.ok + r.fail + r.duplicates

Requests ==
  [key : Nat, channel : Channels, priority : AllPriorities, address : Addresses]

WorkerStates ==
  [pc : {"done", "sending", "answered", "sleeping"}, i : Nat, req : Requests \cup {None},
   auth : {"valid", "wrong", ""}, outcome : {"ok", "duplicate", "fail"}]
Done == [pc |-> "done", i |-> 0, req |-> None, auth |-> "", outcome |-> "fail"]

TypeOK ==
  /\ config \in Configs
  /\ apiKey \in {"valid", "wrong", ""}
  /\ running \in Scenarios \cup {None}
  /\ progress \in Totals \cup {None}
  /\ run \in [scenario : Scenarios, config : Configs, count : Nat]
  /\ next \in Nat /\ result \in Totals
  /\ wk \in [Workers -> WorkerStates]
  /\ created \subseteq [key : Nat, channel : Channels]
  /\ sent \in Seq(Requests)
  /\ report \in Totals \cup {None}
  /\ edits \in 0..MaxEdits

Init ==
  /\ config = DefaultLoadConfig
  /\ apiKey = "valid"
  /\ running = None /\ progress = None
  /\ run = [scenario |-> "burst", config |-> DefaultLoadConfig, count |-> 0]
  /\ next = 0 /\ result = Zero
  /\ wk = [w \in Workers |-> Done]
  /\ created = {} /\ sent = <<>> /\ report = None
  /\ edits = 0

-----------------------------------------------------------------------------
(* A run.                                                                  *)

\* build(i) and the call of `send`: sendNotification reads the key now.
Sending(i, r) ==
  [pc |-> "sending", i |-> i, req |-> r, auth |-> apiKey, outcome |-> "fail"]

\* The scenario's button, disabled while any scenario runs.
CanClick(s) == s \in Scenarios /\ running = None

\* runScenario up to its first await: all workers have taken an index.  The
\* inputs keep counts at 1 or more, so the "Invalid count" return is never taken.
Start(s) ==
  /\ CanClick(s)
  /\ ScenarioCount(s, config) >= 2
  /\ running' = s /\ progress' = None
  /\ run' = [scenario |-> s, config |-> config, count |-> ScenarioCount(s, config)]
  /\ LET n == Limit(s, config)
     IN  /\ \E f \in [1..n -> UNION {BuildScenarioRequest(s, config, i) : i \in 0..n-1}] :
              /\ \A w \in 1..n : f[w] \in BuildScenarioRequest(s, config, w - 1)
              /\ wk' = [w \in Workers |-> IF w <= n THEN Sending(w - 1, f[w]) ELSE Done]
              /\ sent' = f
         /\ next' = n
  /\ result' = Zero /\ created' = {} /\ report' = None
  /\ UNCHANGED <<config, apiKey, edits>>

\* The server handles a request that carries a valid key.
Serve(w) ==
  /\ wk[w].pc = "sending" /\ wk[w].auth = "valid"
  /\ LET d == [key |-> wk[w].req.key, channel |-> wk[w].req.channel]
     IN  /\ wk' = [wk EXCEPT ![w].pc = "answered",
                             ![w].outcome = IF d \in created THEN "duplicate" ELSE "ok"]
         /\ created' = created \cup {d}
  /\ UNCHANGED <<config, apiKey, running, progress, run, next, result, sent, report, edits>>

\* Mutant: a worker reads `next` and adds to it only after its request is answered.
Take_Late(w) ==
  IF Within(next, run.count)
  THEN /\ \E r \in BuildScenarioRequest(run.scenario, run.config, next) :
            /\ wk' = [wk EXCEPT ![w] = Sending(next, r)]
            /\ sent' = Append(sent, r)
       /\ next' = IF \E v \in Workers \ {w} : wk[v].pc = "sending" THEN next ELSE next + 1
  ELSE wk' = [wk EXCEPT ![w] = Done] /\ next' = next + 1 /\ UNCHANGED sent

\* Mutant: the requests are built from the panel's current state.
Take_Live(w) ==
  /\ next' = next + 1
  /\ IF Within(next, run.count)
     THEN \E r \in BuildScenarioRequest(run.scenario, config, next) :
            /\ wk' = [wk EXCEPT ![w] = Sending(next, r)]
            /\ sent' = Append(sent, r)
     ELSE wk' = [wk EXCEPT ![w] = Done] /\ UNCHANGED sent

\* The head of the loop: i = next++, leave or send the next request.
Take(w) ==
  /\ next' = next + 1
  /\ IF Within(next, run.count)
     THEN \E r \in BuildScenarioRequest(run.scenario, run.config, next) :
            /\ wk' = [wk EXCEPT ![w] = Sending(next, r)]
            /\ sent' = Append(sent, r)
     ELSE wk' = [wk EXCEPT ![w] = Done] /\ UNCHANGED sent

\* staggerMs > 0 && i < count - 1, in runSequential only.
Naps(w) ==
  /\ run.scenario = "staggered" /\ run.config.stagger
  /\ Within(wk[w].i + 1, run.count)

\* Mutant: sendOne does not look at `duplicate`.
Add_AllAccepted(r, o) ==
  IF o = "fail" THEN [r EXCEPT !.fail = @ + 1] ELSE [r EXCEPT !.ok = @ + 1]

Add(r, o) ==
  CASE o = "ok" -> [r EXCEPT !.ok = @ + 1]
    [] o = "duplicate" -> [r EXCEPT !.duplicates = @ + 1]
    [] o = "fail" -> [r EXCEPT !.fail = @ + 1]

\* Mutant: a request that never got through is sent again until it does.
Outcome_Retries(w, o) ==
  /\ IF o = "fail" /\ wk[w].pc = "sending"
     THEN UNCHANGED <<wk, result, progress, next, sent>>
     ELSE result' = Add(result, o) /\ progress' = result' /\ Take(w)
  /\ UNCHANGED <<config, apiKey, running, run, created, report, edits>>

\* sendOne returns o to worker w: count it, report progress, and go on.
Outcome(w, o) ==
  /\ result' = Add(result, o)
  /\ progress' = result'
  /\ IF Naps(w) THEN wk' = [wk EXCEPT ![w].pc = "sleeping"] /\ UNCHANGED <<next, sent>>
                ELSE Take(w)
  /\ UNCHANGED <<config, apiKey, running, run, created, report, edits>>

\* The reply arrives, or is lost after the server has acted.
Receive(w) ==
  /\ wk[w].pc = "answered"
  /\ Outcome(w, wk[w].outcome) \/ Outcome(w, "fail")

\* sendNotification throws without a key, the server answers 401, or the
\* request is lost.
Reject(w) == wk[w].pc = "sending" /\ Outcome(w, "fail")

Wake(w) ==
  /\ wk[w].pc = "sleeping"
  /\ Take(w)
  /\ UNCHANGED <<config, apiKey, running, progress, run, result, created, report, edits>>

\* Mutant: Promise.race in place of Promise.all.
AllDone_Race == \E w \in 1..Limit(run.scenario, run.config) : wk[w].pc = "done"

AllDone == \A w \in Workers : wk[w].pc = "done"

\* Promise.all settles: the toast and the finally block.  What belonged to the
\* run is garbage.
Finish ==
  /\ running # None /\ AllDone
  /\ report' = result
  /\ running' = None /\ progress' = None
  /\ result' = Zero /\ created' = {} /\ sent' = <<>>
  /\ UNCHANGED <<config, apiKey, run, next, wk, edits>>

-----------------------------------------------------------------------------
(* The panel's inputs, during a run as well.                               *)

Clamp(n) == Larger(2, n)

\* The presets, the address box and the two counts.
PatchedBasics(c) ==
  {[c EXCEPT !.address = a] : a \in Addresses}
  \cup {[c EXCEPT !.burst = Clamp(n)] : n \in CountInputs}
  \cup {[c EXCEPT !.duplicate = Clamp(n)] : n \in CountInputs}

\* The advanced configuration, without its checkboxes.
PatchedAdvanced(c) ==
  {[c EXCEPT !.channelMode = m] : m \in {"fixed", "random", "round-robin"}}
  \cup {[c EXCEPT !.fixedChannel = ch] : ch \in Channels}
  \cup {[c EXCEPT !.priorityMode = m] : m \in {"fixed", "random"}}
  \cup {[c EXCEPT !.fixedPriority = p] : p \in AllPriorities}
  \cup {[c EXCEPT !.concurrency = Clamp(Smaller(MaxConcurrency, n))] : n \in CountInputs}
  \cup {[c EXCEPT !.stagger = b] : b \in BOOLEAN}

\* patch: one field of the configuration, as its input clamps it.
Patched(c) == PatchedBasics(c) \cup PatchedAdvanced(c)

\* The channels selected after a click on the box of ch: ch is appended, or its
\* one occurrence is filtered out; the last channel cannot be unchecked.
Toggled(s, ch) ==
  IF \A k \in DOMAIN s : s[k] # ch THEN {Append(s, ch)}
  ELSE IF Len(s) = 1 THEN {<<ch>>}
  ELSE {SubSeq(s, 1, k - 1) \o SubSeq(s, k + 1, Len(s)) : k \in {j \in DOMAIN s : s[j] = ch}}

ToggleChannel(c, ch) == {[c EXCEPT !.selectedChannels = s] : s \in Toggled(c.selectedChannels, ch)}

\* Editing changes nothing else: neither the run nor its requests.
Edit ==
  /\ edits < MaxEdits /\ edits' = edits + 1
  /\ \/ /\ \/ config' \in Patched(config) \ {config}
           \/ \E ch \in Channels : config' \in ToggleChannel(config, ch)
        /\ UNCHANGED apiKey
     \/ /\ apiKey' \in {"valid", "wrong", ""} \ {apiKey}
        /\ UNCHANGED config
  /\ UNCHANGED <<running, progress, run, next, result, wk, created, sent, report>>

Step(w) == Serve(w) \/ Receive(w) \/ Reject(w) \/ Wake(w)

Next ==
  \/ \E s \in Scenarios : Start(s)
  \/ \E w \in Workers : Step(w)
  \/ Finish
  \/ Edit

Spec == Init /\ [][Next]_vars

\* A fetch settles, a timer fires and a continuation runs.  Nobody has to
\* click or to edit.
FairSpec == Spec /\ \A w \in Workers : WF_vars(Step(w)) /\ WF_vars(Finish)

-----------------------------------------------------------------------------
(* Properties.                                                             *)

Busy == {w \in Workers : wk[w].pc # "done"}

\* Although the workers share `next`, the n-th request handed to `send` is the
\* one for index n - 1: no index is skipped, sent twice or left to two workers.
EachIndexOnce ==
  running # None =>
    /\ \A n \in DOMAIN sent : sent[n].key \in {SharedKey, n}
    /\ \A w \in Busy : sent[wk[w].i + 1] = wk[w].req
    /\ \A v, w \in Busy : v # w => wk[v].i # wk[w].i
    /\ Len(sent) <= Indices(run.count)

\* Nothing is lost from the totals although workers finish in any order and
\* requests get lost: during a run the totals and the requests in flight make up
\* what was sent, and the toast accounts for every index, rounded up when the
\* count is a fraction.
ReportAddsUp ==
  /\ running # None =>
       Counted(result) + Cardinality({w \in Busy : wk[w].pc # "sleeping"}) = Len(sent)
  /\ report # None => Counted(report) = Indices(run.count)

\* The panel's totals agree with the server: every accepted request is a
\* delivery, a delivery that was not counted as accepted is among the failed
\* (its reply was lost) or in flight, duplicates occur in storms only, and a
\* storm makes at most one delivery per channel it may use.
ServerAgrees ==
  running # None =>
    /\ result.ok <= Cardinality(created)
    /\ Cardinality(created) <= result.ok + result.fail + Cardinality(Busy)
    /\ run.scenario \notin Storms => result.duplicates = 0
    /\ run.scenario \in Storms =>
         Cardinality(created) <= (IF run.config.channelMode = "fixed" THEN 1
                                  ELSE Len(run.config.selectedChannels))

\* Every request is what LOAD_SCENARIOS says of its scenario, for the
\* configuration at the click: edits made during the run do not leak into it.
ScenarioKept ==
  \A n \in DOMAIN sent :
    LET s == run.scenario  c == run.config  r == sent[n] IN
    /\ r.key = SharedKey <=> s \in Storms
    /\ s = "retry-storm" => r.address = "transient"
    /\ s = "failure-mix" => r.address \in FailureMix
    /\ s \notin {"retry-storm", "failure-mix"} => r.address = c.address
    /\ s \in {"random-channel", "mixed-chaos", "all-channels"} =>
         \E k \in DOMAIN c.selectedChannels : c.selectedChannels[k] = r.channel
    /\ s \notin {"random-channel", "mixed-chaos", "all-channels"} /\ c.channelMode = "fixed" =>
         r.channel = c.fixedChannel
    /\ s \notin {"random-priority", "mixed-chaos"} /\ c.priorityMode = "fixed" =>
         r.priority = c.fixedPriority

\* A run ends, whatever fails: the panel does not stay locked.
RunEnds == running # None ~> running = None
=============================================================================
