--------------------------- MODULE LoadTestProofs ---------------------------
(***************************************************************************)
(* For any list of channels, any counts and concurrency typed in, and any  *)
(* edits during a run: every index is sent once, the totals add up and     *)
(* agree with the server, and a run keeps the configuration of its click.  *)
(***************************************************************************)
EXTENDS LoadTest, FiniteSetTheorems, TLAPS

Random == {"random-channel", "mixed-chaos", "all-channels"}
Picked(c) == {c.selectedChannels[k] : k \in DOMAIN c.selectedChannels}

\* The channels a storm of configuration c may use, and the deliveries it may make.
StormChannels(c) == IF c.channelMode = "fixed" THEN {c.fixedChannel} ELSE Picked(c)
StormDeliveries(c) == {[key |-> SharedKey, channel |-> x] : x \in StormChannels(c)}

InFlight == {w \in Busy : wk[w].pc # "sleeping"}

\* Served, and the reply "ok" has not arrived yet.
Accepted == {w \in Workers : wk[w].pc = "answered" /\ wk[w].outcome = "ok"}

\* Index n - 1 is the n-th request and belongs to one worker; `next` is how
\* many have been taken, and the last to leave finds none left.
IndexInv ==
  /\ Len(sent) = IF next < Indices(run.count) THEN next ELSE Indices(run.count)
  /\ Busy = {} => next >= Indices(run.count)
  /\ \A n \in DOMAIN sent : sent[n] \in BuildScenarioRequest(run.scenario, run.config, n - 1)
  /\ \A w \in Busy : wk[w].i < Len(sent) /\ sent[wk[w].i + 1] = wk[w].req
  /\ \A v, w \in Busy : v # w => wk[v].i # wk[w].i

\* The server has made a delivery for every "ok", counted or on its way, and
\* for requests whose reply was lost.
CreatedInv ==
  /\ IsFiniteSet(created)
  /\ result.ok + Cardinality(Accepted) <= Cardinality(created)
  /\ Cardinality(created) <= result.ok + result.fail + Cardinality(Accepted)

\* Without a shared key the request about to be served is new to the server.
FreshKeys ==
  /\ result.duplicates = 0
  /\ \A w \in Workers : wk[w].pc = "answered" => wk[w].outcome # "duplicate"
  /\ \A d \in created : d.key <= Len(sent)
  /\ \A d \in created, w \in Workers : wk[w].pc = "sending" => d.key # wk[w].req.key

ServerInv ==
  /\ CreatedInv
  /\ run.scenario \notin Storms => FreshKeys
  /\ run.scenario \in Storms => created \subseteq StormDeliveries(run.config)

\* Between runs nothing is under way.
IdleInv == running = None => Busy = {} /\ sent = <<>>

\* The inductive invariant.
IInv ==
  /\ TypeOK /\ IdleInv /\ ReportAddsUp
  /\ running # None => IndexInv /\ ServerInv

-----------------------------------------------------------------------------
(* What a scenario sends.                                                  *)

\* Round robin stays within the list.
LEMMA ModRange ==
  ASSUME NEW i \in Nat, NEW n \in Nat \ {0}
  PROVE  (i % n) + 1 \in 1..n
<1>1. i % n \in 0..(n - 1)
  OBVIOUS
<1> QED
  BY <1>1

\* The channels a request may get.
LEMMA ResolveChannelType ==
  ASSUME NEW c \in Configs, NEW i \in Nat
  PROVE  /\ ResolveChannel(c, i) \subseteq Channels
         /\ c.channelMode = "fixed" => ResolveChannel(c, i) = {c.fixedChannel}
         /\ c.channelMode # "fixed" => ResolveChannel(c, i) \subseteq Picked(c)
<1> DEFINE s == c.selectedChannels
<1>1. s \in Seq(Channels) /\ s # <<>> /\ c.fixedChannel \in Channels
  BY DEF Configs
<1>2. Len(s) \in Nat \ {0} /\ DOMAIN s = 1..Len(s) /\ \A k \in 1..Len(s) : s[k] \in Channels
  BY <1>1
<1>3. Pool(c) = s
  BY <1>1 DEF Pool
<1>4. (i % Len(s)) + 1 \in 1..Len(s)
  BY <1>2, ModRange
<1>5. Picked(c) \subseteq Channels
  BY <1>2 DEF Picked
<1>6. CASE c.channelMode = "fixed"
  BY <1>1, <1>6 DEF ResolveChannel
<1>7. CASE c.channelMode = "random"
  BY <1>3, <1>5, <1>7 DEF ResolveChannel, Picked
<1>8. CASE c.channelMode \notin {"fixed", "random"}
  <2>1. ResolveChannel(c, i) = {s[(i % Len(s)) + 1]}
    BY <1>3, <1>8 DEF ResolveChannel
  <2> QED
    BY <1>2, <1>4, <1>5, <1>8, <2>1 DEF Picked
<1> QED
  BY <1>6, <1>7, <1>8

\* The fields of a request.
LEMMA BuildRequestType ==
  ASSUME NEW c \in Configs, NEW i \in Nat, NEW A \in SUBSET Addresses, NEW key \in Nat,
         NEW r \in BuildRequest(c, i, A, key)
  PROVE  /\ r \in Requests /\ r.key = key /\ r.address \in A
         /\ r.channel \in ResolveChannel(c, i)
         /\ c.priorityMode = "fixed" => r.priority = c.fixedPriority
<1>1. r.key = key /\ r.address \in A /\ r.channel \in ResolveChannel(c, i)
      /\ r.priority \in ResolvePriority(c)
  BY DEF BuildRequest
<1>2. ResolvePriority(c) \subseteq AllPriorities
  BY DEF ResolvePriority, Configs
<1>3. c.priorityMode = "fixed" => r.priority = c.fixedPriority
  BY <1>1 DEF ResolvePriority
<1>4. r \in Requests
  BY <1>1, <1>2, ResolveChannelType DEF Requests, BuildRequest
<1> QED
  BY <1>1, <1>3, <1>4

\* The configurations that scenarios make of the operator's.
LEMMA ModeType ==
  ASSUME NEW c \in Configs, NEW m \in {"fixed", "random", "round-robin"}
  PROVE  LET d == [c EXCEPT !.channelMode = m]
         IN  /\ d \in Configs /\ d.channelMode = m /\ d.address = c.address
             /\ d.selectedChannels = c.selectedChannels /\ d.fixedChannel = c.fixedChannel
             /\ d.priorityMode = c.priorityMode /\ d.fixedPriority = c.fixedPriority
<1> DEFINE d == [c EXCEPT !.channelMode = m]
<1>1. d \in Configs
  BY DEF Configs
<1>2. /\ d.channelMode = m /\ d.address = c.address
      /\ d.selectedChannels = c.selectedChannels /\ d.fixedChannel = c.fixedChannel
      /\ d.priorityMode = c.priorityMode /\ d.fixedPriority = c.fixedPriority
  BY Zenon DEF Configs
<1> QED
  BY <1>1, <1>2

\* The random priorities of two scenarios.
LEMMA PriorityType ==
  ASSUME NEW c \in Configs
  PROVE  LET d == [c EXCEPT !.priorityMode = "random"]
         IN  /\ d \in Configs /\ d.channelMode = c.channelMode /\ d.address = c.address
             /\ d.selectedChannels = c.selectedChannels /\ d.fixedChannel = c.fixedChannel
<1> DEFINE d == [c EXCEPT !.priorityMode = "random"]
<1>1. d \in Configs
  BY DEF Configs
<1>2. /\ d.channelMode = c.channelMode /\ d.address = c.address
      /\ d.selectedChannels = c.selectedChannels /\ d.fixedChannel = c.fixedChannel
  BY Zenon DEF Configs
<1> QED
  BY <1>1, <1>2

\* What LOAD_SCENARIOS says of the requests of scenario s with configuration c.
Described(s, c, r) ==
  /\ s = "retry-storm" => r.address = "transient"
  /\ s = "failure-mix" => r.address \in FailureMix
  /\ s \notin {"retry-storm", "failure-mix"} => r.address = c.address
  /\ s \in Random => r.channel \in Picked(c)
  /\ s \notin Random /\ c.channelMode = "fixed" => r.channel = c.fixedChannel
  /\ s \notin {"random-priority", "mixed-chaos"} /\ c.priorityMode = "fixed" =>
       r.priority = c.fixedPriority

\* Every request a scenario builds fits its description; its key is the shared one
\* in a storm and new otherwise.
LEMMA ScenarioRequests ==
  ASSUME NEW s \in Scenarios, NEW c \in Configs, NEW i \in Nat,
         NEW r \in BuildScenarioRequest(s, c, i)
  PROVE  /\ r \in Requests /\ Described(s, c, r)
         /\ r.key = IF s \in Storms THEN 0 ELSE i + 1
         /\ s \in Storms => r.channel \in StormChannels(c)
<1> DEFINE B(d, A, k) == BuildRequest(d, i, A, k)
           random == [c EXCEPT !.channelMode = "random"]
           robin == [c EXCEPT !.channelMode = "round-robin"]
           chance == [c EXCEPT !.priorityMode = "random"]
           chaos == [random EXCEPT !.priorityMode = "random"]
<1>1. /\ GenLoadKey(i) = i + 1 /\ i + 1 \in Nat /\ SharedKey = 0 /\ 0 \in Nat
      /\ c.address \in Addresses /\ {c.address} \in SUBSET Addresses
      /\ FailureMix \in SUBSET Addresses /\ {"transient"} \in SUBSET Addresses
  BY DEF GenLoadKey, SharedKey, Configs, FailureMix, Addresses
<1>2. ASSUME NEW d \in Configs, NEW A \in SUBSET Addresses, NEW k \in Nat, r \in B(d, A, k),
             d.selectedChannels = c.selectedChannels, d.fixedChannel = c.fixedChannel
      PROVE  /\ r \in Requests /\ r.key = k /\ r.address \in A
             /\ d.channelMode = "fixed" => r.channel = c.fixedChannel
             /\ d.channelMode # "fixed" => r.channel \in Picked(c)
             /\ d.priorityMode = "fixed" => r.priority = d.fixedPriority
  <2>1. Picked(d) = Picked(c)
    BY <1>2 DEF Picked
  <2> QED
    BY <1>2, <2>1, BuildRequestType, ResolveChannelType
<1>3. /\ random \in Configs /\ random.channelMode = "random" /\ random.address = c.address
      /\ random.selectedChannels = c.selectedChannels /\ random.fixedChannel = c.fixedChannel
      /\ random.priorityMode = c.priorityMode /\ random.fixedPriority = c.fixedPriority
  BY ModeType
<1>4. /\ robin \in Configs /\ robin.channelMode = "round-robin" /\ robin.address = c.address
      /\ robin.selectedChannels = c.selectedChannels /\ robin.fixedChannel = c.fixedChannel
      /\ robin.priorityMode = c.priorityMode /\ robin.fixedPriority = c.fixedPriority
  BY ModeType
<1>5. /\ chance \in Configs /\ chance.channelMode = c.channelMode /\ chance.address = c.address
      /\ chance.selectedChannels = c.selectedChannels /\ chance.fixedChannel = c.fixedChannel
  BY PriorityType
<1>6. /\ chaos \in Configs /\ chaos.channelMode = "random" /\ chaos.address = c.address
      /\ chaos.selectedChannels = c.selectedChannels /\ chaos.fixedChannel = c.fixedChannel
  BY <1>3, PriorityType
<1>7. /\ s = "retry-storm" => r \in B(c, {"transient"}, i + 1)
      /\ s = "failure-mix" => r \in B(c, FailureMix, i + 1)
      /\ s = "random-channel" => r \in B(random, {random.address}, i + 1)
      /\ s = "random-priority" => r \in B(chance, {chance.address}, i + 1)
      /\ s = "mixed-chaos" => r \in B(chaos, {chaos.address}, i + 1)
      /\ s = "all-channels" => r \in B(robin, {robin.address}, i + 1)
      /\ s \in Storms => r \in B(c, {c.address}, 0)
      /\ s \in {"burst", "staggered"} => r \in B(c, {c.address}, i + 1)
  BY <1>1 DEF BuildScenarioRequest, Storms
<1> HIDE DEF B, random, robin, chance, chaos
<1> USE DEF Described, Random, Storms, StormChannels
<1>8. CASE s = "retry-storm"
  BY <1>1, <1>2, <1>7, <1>8
<1>9. CASE s = "failure-mix"
  BY <1>1, <1>2, <1>7, <1>9
<1>10. CASE s = "random-channel"
  BY <1>1, <1>2, <1>3, <1>7, <1>10
<1>11. CASE s = "random-priority"
  BY <1>1, <1>2, <1>5, <1>7, <1>11
<1>12. CASE s = "mixed-chaos"
  BY <1>1, <1>2, <1>6, <1>7, <1>12
<1>13. CASE s = "all-channels"
  BY <1>1, <1>2, <1>4, <1>7, <1>13
<1>14. CASE s \in Storms
  BY <1>1, <1>2, <1>7, <1>14
<1>15. CASE s \in {"burst", "staggered"}
  BY <1>1, <1>2, <1>7, <1>15
<1> QED
  BY <1>8, <1>9, <1>10, <1>11, <1>12, <1>13, <1>14, <1>15 DEF Scenarios

-----------------------------------------------------------------------------
(* One worker moves.                                                       *)

\* The test of the loop, which compares with a count that may be a fraction.
LEMMA WithinIndices ==
  ASSUME NEW i \in Nat, NEW count \in Nat
  PROVE  /\ Within(i, count) <=> i < Indices(count)
         /\ Indices(count) \in Nat
  BY DEF Within, Indices

\* Adding and removing one element.
LEMMA Count ==
  ASSUME NEW S, IsFiniteSet(S), NEW w
  PROVE  /\ Cardinality(S) \in Nat
         /\ IsFiniteSet(S \cup {w}) /\ IsFiniteSet(S \ {w})
         /\ w \in S => S \cup {w} = S /\ Cardinality(S \ {w}) = Cardinality(S) - 1
         /\ w \notin S => S \ {w} = S /\ Cardinality(S \cup {w}) = Cardinality(S) + 1
<1>1. /\ IsFiniteSet(S \cup {w})
      /\ Cardinality(S \cup {w}) = IF w \in S THEN Cardinality(S) ELSE Cardinality(S) + 1
  BY FS_AddElement
<1>2. /\ IsFiniteSet(S \ {w})
      /\ Cardinality(S \ {w}) = IF w \in S THEN Cardinality(S) - 1 ELSE Cardinality(S)
  BY FS_RemoveElement
<1>3. Cardinality(S) \in Nat
  BY FS_CardinalityType
<1>4. (w \in S => S \cup {w} = S) /\ (w \notin S => S \ {w} = S)
  OBVIOUS
<1> QED
  BY <1>1, <1>2, <1>3, <1>4

\* The sets of workers that are counted are finite.
LEMMA FiniteWorkers ==
  IsFiniteSet(Busy) /\ IsFiniteSet(InFlight) /\ IsFiniteSet(Accepted)
<1>1. IsFiniteSet(Workers)
  <2>1. MaxConcurrency \div 2 \in Int
    BY LoadTestAssumption
  <2> QED
    BY <2>1, FS_Interval DEF Workers
<1>2. Busy \subseteq Workers /\ InFlight \subseteq Workers /\ Accepted \subseteq Workers
  BY DEF Busy, InFlight, Accepted
<1> QED
  BY <1>1, <1>2, FS_Subset

\* What becomes of the sets when worker w changes to x.
LEMMA OneWorker ==
  ASSUME TypeOK, NEW w \in Workers, NEW x \in WorkerStates, wk' = [wk EXCEPT ![w] = x]
  PROVE  /\ wk' \in [Workers -> WorkerStates] /\ wk'[w] = x
         /\ \A v \in Workers : v # w => wk'[v] = wk[v]
         /\ Busy' = IF x.pc = "done" THEN Busy \ {w} ELSE Busy \cup {w}
         /\ InFlight' = IF x.pc \in {"done", "sleeping"} THEN InFlight \ {w}
                        ELSE InFlight \cup {w}
         /\ Accepted' = IF x.pc = "answered" /\ x.outcome = "ok" THEN Accepted \cup {w}
                        ELSE Accepted \ {w}
<1>1. wk \in [Workers -> WorkerStates]
  BY DEF TypeOK
<1>2. /\ wk' \in [Workers -> WorkerStates] /\ wk'[w] = x
      /\ \A v \in Workers : v # w => wk'[v] = wk[v]
  BY <1>1
<1>3. Busy' = IF x.pc = "done" THEN Busy \ {w} ELSE Busy \cup {w}
  BY <1>2 DEF Busy
<1>4. InFlight' = IF x.pc \in {"done", "sleeping"} THEN InFlight \ {w} ELSE InFlight \cup {w}
  BY <1>2 DEF Busy, InFlight
<1>5. Accepted' = IF x.pc = "answered" /\ x.outcome = "ok" THEN Accepted \cup {w}
                  ELSE Accepted \ {w}
  BY <1>2 DEF Accepted
<1> QED
  BY <1>2, <1>3, <1>4, <1>5

\* The states a worker changes to.
LEMMA NewStates ==
  ASSUME TypeOK, NEW w \in Workers
  PROVE  /\ Done \in WorkerStates /\ Done.pc = "done"
         /\ \A i \in Nat, r \in Requests :
              LET x == Sending(i, r)
              IN  x \in WorkerStates /\ x.pc = "sending" /\ x.i = i /\ x.req = r
         /\ LET x == [wk[w] EXCEPT !.pc = "sleeping"]
            IN  x \in WorkerStates /\ x.pc = "sleeping" /\ x.i = wk[w].i /\ x.req = wk[w].req
         /\ \A o \in {"ok", "duplicate"} :
              LET x == [wk[w] EXCEPT !.pc = "answered", !.outcome = o]
              IN  /\ x \in WorkerStates /\ x.pc = "answered" /\ x.outcome = o
                  /\ x.i = wk[w].i /\ x.req = wk[w].req
<1>1. wk[w] \in WorkerStates /\ apiKey \in {"valid", "wrong", ""}
  BY DEF TypeOK
<1>2. Done \in WorkerStates /\ Done.pc = "done"
  BY DEF Done, WorkerStates
<1>3. ASSUME NEW i \in Nat, NEW r \in Requests
      PROVE  LET x == Sending(i, r)
             IN  x \in WorkerStates /\ x.pc = "sending" /\ x.i = i /\ x.req = r
  BY <1>1 DEF Sending, WorkerStates
<1>4. LET x == [wk[w] EXCEPT !.pc = "sleeping"]
      IN  x \in WorkerStates /\ x.pc = "sleeping" /\ x.i = wk[w].i /\ x.req = wk[w].req
  <2> DEFINE x == [wk[w] EXCEPT !.pc = "sleeping"]
  <2>1. x \in WorkerStates
    BY <1>1 DEF WorkerStates
  <2>2. x.pc = "sleeping" /\ x.i = wk[w].i /\ x.req = wk[w].req
    BY <1>1, Zenon DEF WorkerStates
  <2> QED
    BY <2>1, <2>2
<1>5. ASSUME NEW o \in {"ok", "duplicate"}
      PROVE  LET x == [wk[w] EXCEPT !.pc = "answered", !.outcome = o]
             IN  /\ x \in WorkerStates /\ x.pc = "answered" /\ x.outcome = o
                 /\ x.i = wk[w].i /\ x.req = wk[w].req
  <2> DEFINE x == [wk[w] EXCEPT !.pc = "answered", !.outcome = o]
  <2>1. x \in [pc : {"answered"}, i : Nat, req : Requests \cup {None},
               auth : {"valid", "wrong", ""}, outcome : {"ok", "duplicate"}]
    BY <1>1, Zenon DEF WorkerStates
  <2>2. x.pc = "answered" /\ x.outcome = o /\ x.i = wk[w].i /\ x.req = wk[w].req
    BY <1>1, Zenon DEF WorkerStates
  <2>3. {"answered"} \subseteq {"done", "sending", "answered", "sleeping"}
        /\ {"ok", "duplicate"} \subseteq {"ok", "duplicate", "fail"}
    OBVIOUS
  <2> HIDE DEF x
  <2>4. x \in WorkerStates
    BY <2>1, <2>3 DEF WorkerStates
  <2> QED
    BY <2>2, <2>4 DEF x
<1> QED
  BY <1>2, <1>3, <1>4, <1>5

\* The totals after one more outcome.
LEMMA Adds ==
  ASSUME NEW r \in Totals, NEW o \in {"ok", "duplicate", "fail"}
  PROVE  LET t == Add(r, o)
         IN  /\ t \in Totals /\ Counted(t) = Counted(r) + 1 /\ Counted(r) \in Nat
             /\ t.ok = r.ok + (IF o = "ok" THEN 1 ELSE 0)
             /\ t.fail = r.fail + (IF o = "fail" THEN 1 ELSE 0)
             /\ t.duplicates = r.duplicates + (IF o = "duplicate" THEN 1 ELSE 0)
<1>1. r.ok \in Nat /\ r.fail \in Nat /\ r.duplicates \in Nat
  BY DEF Totals
<1>2. CASE o = "ok"
  BY <1>1, <1>2 DEF Add, Totals, Counted
<1>3. CASE o = "fail"
  BY <1>1, <1>3 DEF Add, Totals, Counted
<1>4. CASE o = "duplicate"
  BY <1>1, <1>4 DEF Add, Totals, Counted
<1> QED
  BY <1>2, <1>3, <1>4

\* The head of the loop: the next index is the next place in `sent`, or no
\* index is left.
LEMMA Takes ==
  ASSUME TypeOK, IndexInv, NEW w \in Workers, Take(w)
  PROVE  /\ next' = next + 1
         /\ \/ \E r \in Requests :
                 /\ next < Indices(run.count) /\ Len(sent) = next
                 /\ r \in BuildScenarioRequest(run.scenario, run.config, next)
                 /\ wk' = [wk EXCEPT ![w] = Sending(next, r)] /\ sent' = Append(sent, r)
            \/ /\ next >= Indices(run.count) /\ Len(sent) = Indices(run.count)
               /\ wk' = [wk EXCEPT ![w] = Done] /\ sent' = sent
<1>1. next \in Nat /\ run.count \in Nat /\ run.scenario \in Scenarios /\ run.config \in Configs
  BY DEF TypeOK
<1>2. (Within(next, run.count) <=> next < Indices(run.count)) /\ Indices(run.count) \in Nat
  BY <1>1, WithinIndices
<1>3. Len(sent) = IF next < Indices(run.count) THEN next ELSE Indices(run.count)
  BY DEF IndexInv
<1>4. next' = next + 1
  BY DEF Take
<1>5. CASE Within(next, run.count)
  <2>1. PICK r \in BuildScenarioRequest(run.scenario, run.config, next) :
          wk' = [wk EXCEPT ![w] = Sending(next, r)] /\ sent' = Append(sent, r)
    BY <1>5 DEF Take
  <2>2. r \in Requests
    BY <1>1, ScenarioRequests
  <2> QED
    BY <1>2, <1>3, <1>4, <1>5, <2>1, <2>2
<1>6. CASE ~Within(next, run.count)
  <2>1. wk' = [wk EXCEPT ![w] = Done] /\ sent' = sent
    BY <1>6 DEF Take
  <2> QED
    BY <1>1, <1>2, <1>3, <1>4, <1>6, <2>1
<1> QED
  BY <1>5, <1>6

\* A worker keeps its index and its request.
LEMMA IndexKept ==
  ASSUME TypeOK, IndexInv, NEW w \in Busy, NEW x \in WorkerStates,
         wk' = [wk EXCEPT ![w] = x], x.pc # "done", x.i = wk[w].i, x.req = wk[w].req,
         UNCHANGED <<next, sent, run>>
  PROVE  IndexInv'
<1>1. w \in Workers /\ Busy \subseteq Workers
  BY DEF Busy
<1>2. wk'[w] = x /\ (\A v \in Workers : v # w => wk'[v] = wk[v]) /\ Busy' = Busy
  <2>1. /\ wk'[w] = x /\ (\A v \in Workers : v # w => wk'[v] = wk[v])
        /\ Busy' = Busy \cup {w}
    BY <1>1, OneWorker
  <2>2. Busy \cup {w} = Busy
    OBVIOUS
  <2> QED
    BY <2>1, <2>2
<1>3. \A v \in Busy : wk'[v].i = wk[v].i /\ wk'[v].req = wk[v].req
  BY <1>1, <1>2
<1> QED
  BY <1>2, <1>3 DEF IndexInv

\* What the counts below need to know of a worker that leaves its state for x:
\* it sends the next request, or nothing is sent.
Moved(w, x) ==
  /\ x \in WorkerStates /\ wk' = [wk EXCEPT ![w] = x]
  /\ x.pc \in {"sending", "done", "sleeping"}
  /\ Len(sent') = IF x.pc = "sending" THEN Len(sent) + 1 ELSE Len(sent)
  /\ x.pc = "sending" =>
       x.req \in BuildScenarioRequest(run.scenario, run.config, Len(sent))

\* A worker takes an index or leaves.
LEMMA IndexTaken ==
  ASSUME TypeOK, IndexInv, NEW w \in Busy, Take(w), UNCHANGED run
  PROVE  /\ IndexInv' /\ next' \in Nat /\ sent' \in Seq(Requests)
         /\ \E x : Moved(w, x) /\ x.pc # "sleeping"
<1>0. w \in Workers /\ Busy \subseteq Workers
  BY DEF Busy
<1>1. /\ next \in Nat /\ run.count \in Nat /\ sent \in Seq(Requests)
      /\ Indices(run.count) \in Nat /\ wk \in [Workers -> WorkerStates]
  BY WithinIndices DEF TypeOK
<1>2. next' = next + 1
  BY <1>0, Takes
<1>3. ASSUME NEW r \in Requests, next < Indices(run.count), Len(sent) = next,
             r \in BuildScenarioRequest(run.scenario, run.config, next),
             wk' = [wk EXCEPT ![w] = Sending(next, r)], sent' = Append(sent, r)
      PROVE  /\ IndexInv' /\ sent' \in Seq(Requests)
             /\ \E x : Moved(w, x) /\ x.pc # "sleeping"
  <2> DEFINE x == Sending(next, r)
  <2>1. x \in WorkerStates /\ x.pc = "sending" /\ x.i = next /\ x.req = r
    BY <1>0, <1>1, NewStates
  <2>2. wk' = [wk EXCEPT ![w] = x]
    BY <1>3
  <2> HIDE DEF x
  <2>3. wk'[w] = x /\ (\A v \in Workers : v # w => wk'[v] = wk[v]) /\ Busy' = Busy
    <3>1. /\ wk'[w] = x /\ (\A v \in Workers : v # w => wk'[v] = wk[v])
          /\ Busy' = Busy \cup {w}
      BY <1>0, <2>1, <2>2, OneWorker
    <3>2. Busy \cup {w} = Busy
      OBVIOUS
    <3> QED
      BY <3>1, <3>2
  <2>4. /\ sent' \in Seq(Requests) /\ Len(sent') = next + 1 /\ sent'[next + 1] = r
        /\ DOMAIN sent = 1..next /\ DOMAIN sent' = 1..(next + 1)
        /\ \A n \in 1..next : sent'[n] = sent[n]
    BY <1>1, <1>3
  <2>5. Moved(w, x)
    BY <1>3, <2>1, <2>2, <2>4 DEF Moved
  <2>6. Len(sent') = IF next' < Indices(run'.count) THEN next' ELSE Indices(run'.count)
    BY <1>1, <1>2, <1>3, <2>4
  <2>7. Busy' # {}
    BY <2>3
  <2>8. ASSUME NEW n \in DOMAIN sent'
        PROVE  sent'[n] \in BuildScenarioRequest(run'.scenario, run'.config, n - 1)
    <3>1. CASE n = next + 1
      <4>1. n - 1 = next
        BY <1>1, <3>1
      <4> QED
        BY <1>3, <2>4, <3>1, <4>1
    <3>2. CASE n # next + 1
      <4>1. n \in DOMAIN sent
        BY <1>1, <2>4, <2>8, <3>2
      <4> QED
        BY <2>4, <4>1 DEF IndexInv
    <3> QED
      BY <3>1, <3>2
  <2>9. \A v \in Busy : wk[v].i \in Nat /\ wk[v].i < next /\ sent[wk[v].i + 1] = wk[v].req
    BY <1>0, <1>1, <1>3 DEF IndexInv, WorkerStates
  <2>10. ASSUME NEW v \in Busy'
         PROVE  wk'[v].i < Len(sent') /\ sent'[wk'[v].i + 1] = wk'[v].req
    <3>1. CASE v = w
      BY <1>1, <2>1, <2>3, <2>4, <3>1
    <3>2. CASE v # w
      <4>1. wk'[v] = wk[v] /\ v \in Busy
        BY <1>0, <2>3, <2>10, <3>2
      <4>2. wk[v].i + 1 \in 1..next
        BY <1>1, <2>9, <4>1
      <4> QED
        BY <1>1, <2>4, <2>9, <4>1, <4>2
    <3> QED
      BY <3>1, <3>2
  <2>11. ASSUME NEW u \in Busy', NEW v \in Busy', u # v
         PROVE  wk'[u].i # wk'[v].i
    <3>1. CASE u = w
      BY <1>0, <1>1, <2>1, <2>3, <2>9, <2>11, <3>1
    <3>2. CASE v = w
      BY <1>0, <1>1, <2>1, <2>3, <2>9, <2>11, <3>2
    <3>3. CASE u # w /\ v # w
      BY <1>0, <2>3, <2>11, <3>3 DEF IndexInv
    <3> QED
      BY <3>1, <3>2, <3>3
  <2>12. IndexInv'
    BY <2>6, <2>7, <2>8, <2>10, <2>11 DEF IndexInv
  <2> QED
    BY <2>1, <2>4, <2>5, <2>12
<1>4. ASSUME next >= Indices(run.count), Len(sent) = Indices(run.count),
             wk' = [wk EXCEPT ![w] = Done], sent' = sent
      PROVE  /\ IndexInv' /\ sent' \in Seq(Requests)
             /\ \E x : Moved(w, x) /\ x.pc # "sleeping"
  <2>1. Done \in WorkerStates /\ Done.pc = "done"
    BY <1>0, NewStates
  <2>2. (\A v \in Workers : v # w => wk'[v] = wk[v]) /\ Busy' = Busy \ {w}
    BY <1>0, <1>4, <2>1, OneWorker
  <2>3. Moved(w, Done)
    BY <1>4, <2>1 DEF Moved
  <2>4. \A v \in Busy' : v \in Busy /\ wk'[v] = wk[v]
    BY <1>0, <2>2
  <2>5. next' >= Indices(run.count) /\ ~(next' < Indices(run.count))
    BY <1>1, <1>2, <1>4
  <2>6. IndexInv'
    BY <1>4, <2>4, <2>5 DEF IndexInv
  <2> QED
    BY <1>1, <1>4, <2>1, <2>3, <2>6
<1> QED
  BY <1>0, <1>1, <1>2, <1>3, <1>4, Takes

\* A worker whose request is settled with outcome o.
Settled(w, o) ==
  \/ wk[w].pc = "sending" /\ o = "fail"
  \/ wk[w].pc = "answered" /\ o \in {wk[w].outcome, "fail"}

\* An outcome is counted and the worker moves: the totals stay complete.
LEMMA CountedOnce ==
  ASSUME TypeOK, running # None, ReportAddsUp, NEW w \in Workers, NEW x, Moved(w, x),
         NEW o \in {"ok", "duplicate", "fail"}, Settled(w, o), result' = Add(result, o),
         UNCHANGED <<running, report, run>>
  PROVE  ReportAddsUp'
<1>1. w \in InFlight /\ IsFiniteSet(InFlight) /\ result \in Totals /\ Len(sent) \in Nat
  <2>1. w \in InFlight
    BY DEF Settled, InFlight, Busy
  <2>2. result \in Totals /\ sent \in Seq(Requests)
    BY DEF TypeOK
  <2> QED
    BY <2>1, <2>2, FiniteWorkers
<1>2. Counted(result') = Counted(result) + 1 /\ Counted(result) \in Nat
  BY <1>1, Adds
<1>3. Counted(result) + Cardinality(InFlight) = Len(sent)
  BY DEF ReportAddsUp, InFlight
<1>4. InFlight' = IF x.pc = "sending" THEN InFlight \cup {w} ELSE InFlight \ {w}
  BY OneWorker DEF Moved
<1>5. Counted(result') + Cardinality(InFlight') = Len(sent')
  <2>0. InFlight \cup {w} = InFlight
    BY <1>1
  <2>1. /\ Cardinality(InFlight) \in Nat /\ Cardinality(InFlight \cup {w}) = Cardinality(InFlight)
        /\ Cardinality(InFlight \ {w}) = Cardinality(InFlight) - 1
    BY <1>1, <2>0, Count
  <2>2. CASE x.pc = "sending"
    <3>1. Cardinality(InFlight') = Cardinality(InFlight \cup {w}) /\ Len(sent') = Len(sent) + 1
      BY <1>4, <2>2 DEF Moved
    <3> QED
      BY <1>1, <1>2, <1>3, <2>1, <3>1
  <2>3. CASE x.pc # "sending"
    <3>1. Cardinality(InFlight') = Cardinality(InFlight \ {w}) /\ Len(sent') = Len(sent)
      BY <1>4, <2>3 DEF Moved
    <3> QED
      BY <1>1, <1>2, <1>3, <2>1, <3>1
  <2> QED
    BY <2>2, <2>3
<1> QED
  BY <1>5 DEF ReportAddsUp, InFlight

\* A worker wakes and moves: nothing is counted.
LEMMA WokenUp ==
  ASSUME TypeOK, running # None, ReportAddsUp, NEW w \in Workers, NEW x, Moved(w, x),
         x.pc # "sleeping", wk[w].pc = "sleeping", UNCHANGED <<running, report, run, result>>
  PROVE  ReportAddsUp'
<1>1. w \notin InFlight /\ IsFiniteSet(InFlight) /\ Len(sent) \in Nat
      /\ Counted(result) \in Nat
  <2>1. w \notin InFlight
    BY DEF InFlight
  <2>2. result \in Totals /\ sent \in Seq(Requests)
    BY DEF TypeOK
  <2>3. Counted(result) \in Nat
    BY <2>2 DEF Counted, Totals
  <2> QED
    BY <2>1, <2>2, <2>3, FiniteWorkers
<1>2. Counted(result) + Cardinality(InFlight) = Len(sent)
  BY DEF ReportAddsUp, InFlight
<1>3. InFlight' = IF x.pc = "sending" THEN InFlight \cup {w} ELSE InFlight \ {w}
  BY OneWorker DEF Moved
<1>4. Counted(result') + Cardinality(InFlight') = Len(sent')
  <2>1. /\ Cardinality(InFlight) \in Nat /\ InFlight \ {w} = InFlight
        /\ Cardinality(InFlight \cup {w}) = Cardinality(InFlight) + 1
    BY <1>1, Count
  <2>2. CASE x.pc = "sending"
    <3>1. Cardinality(InFlight') = Cardinality(InFlight \cup {w}) /\ Len(sent') = Len(sent) + 1
      BY <1>3, <2>2 DEF Moved
    <3> QED
      BY <1>1, <1>2, <1>3, <2>1, <3>1
  <2>3. CASE x.pc # "sending"
    <3>1. Cardinality(InFlight') = Cardinality(InFlight \ {w}) /\ Len(sent') = Len(sent)
      BY <1>3, <2>3 DEF Moved
    <3> QED
      BY <1>1, <1>2, <1>3, <2>1, <3>1
  <2> QED
    BY <2>2, <2>3
<1> QED
  BY <1>4 DEF ReportAddsUp, InFlight

\* The deliveries, before and after.
LEMMA CreatedMoves ==
  ASSUME TypeOK, CreatedInv, NEW w \in Workers, NEW x, Moved(w, x), UNCHANGED created,
         \/ wk[w].pc = "sleeping" /\ UNCHANGED result
         \/ \E o \in {"ok", "duplicate", "fail"} : Settled(w, o) /\ result' = Add(result, o)
  PROVE  CreatedInv'
<1>1. IsFiniteSet(Accepted) /\ result \in Totals /\ result.ok \in Nat /\ result.fail \in Nat
      /\ Cardinality(created) \in Nat
  BY FiniteWorkers, FS_CardinalityType DEF TypeOK, Totals, CreatedInv
<1>2. Accepted' = Accepted \ {w}
  BY OneWorker DEF Moved
<1>3. CASE wk[w].pc = "sleeping" /\ UNCHANGED result
  <2>1. w \notin Accepted
    BY <1>3 DEF Accepted
  <2>2. Accepted' = Accepted
    BY <1>2, <2>1
  <2> QED
    BY <1>3, <2>2 DEF CreatedInv
<1>4. ASSUME NEW o \in {"ok", "duplicate", "fail"}, Settled(w, o), result' = Add(result, o)
      PROVE  CreatedInv'
  <2>1. /\ result'.ok = result.ok + (IF o = "ok" THEN 1 ELSE 0)
        /\ result'.fail = result.fail + (IF o = "fail" THEN 1 ELSE 0)
    BY <1>1, <1>4, Adds
  <2>2. w \in Accepted => o \in {"ok", "fail"} /\ Cardinality(Accepted') = Cardinality(Accepted) - 1
    BY <1>1, <1>2, <1>4, Count DEF Accepted, Settled
  <2>3. w \notin Accepted => o # "ok" /\ Accepted' = Accepted
    BY <1>1, <1>2, <1>4, Count DEF Accepted, Settled
  <2>4. Cardinality(Accepted) \in Nat
    BY <1>1, Count
  <2>5. CASE w \in Accepted
    BY <1>1, <2>1, <2>2, <2>4, <2>5 DEF CreatedInv
  <2>6. CASE w \notin Accepted
    BY <1>1, <2>1, <2>3, <2>4, <2>6 DEF CreatedInv
  <2> QED
    BY <2>5, <2>6
<1> QED
  BY <1>3, <1>4

\* Keys that are not shared: a taken index gives a key the server has not seen.
LEMMA FreshMoves ==
  ASSUME TypeOK, FreshKeys, run.scenario \notin Storms, NEW w \in Workers, NEW x,
         Moved(w, x), UNCHANGED <<created, run>>,
         \/ wk[w].pc = "sleeping" /\ UNCHANGED result
         \/ \E o \in {"ok", "duplicate", "fail"} : Settled(w, o) /\ result' = Add(result, o)
  PROVE  FreshKeys'
<1>1. /\ wk'[w] = x /\ (\A v \in Workers : v # w => wk'[v] = wk[v])
      /\ wk[w] \in WorkerStates
  BY OneWorker DEF Moved, TypeOK
<1>2. /\ Len(sent) \in Nat /\ result \in Totals /\ result.duplicates = 0
      /\ run.scenario \in Scenarios /\ run.config \in Configs
      /\ \A d \in created : d.key \in Nat
  <2>1. result \in Totals /\ sent \in Seq(Requests) /\ run.scenario \in Scenarios
        /\ run.config \in Configs /\ created \subseteq [key : Nat, channel : Channels]
    BY DEF TypeOK
  <2> QED
    BY <2>1 DEF FreshKeys
<1>3. result'.duplicates = 0
  <2>1. ASSUME NEW o \in {"ok", "duplicate", "fail"}, Settled(w, o), result' = Add(result, o)
        PROVE  result'.duplicates = 0
    <3>1. o # "duplicate"
      BY <2>1 DEF Settled, FreshKeys
    <3>2. Add(result, o).duplicates
            = result.duplicates + (IF o = "duplicate" THEN 1 ELSE 0)
      BY <1>2, Adds
    <3> QED
      BY <1>2, <2>1, <3>1, <3>2
  <2> QED
    BY <1>2, <2>1
<1>4. \A v \in Workers : wk'[v].pc = "answered" => wk'[v].outcome # "duplicate"
  BY <1>1 DEF FreshKeys, Moved
<1>5. Len(sent') >= Len(sent) /\ Len(sent') \in Nat
  BY <1>2 DEF Moved
<1>6. \A d \in created' : d.key <= Len(sent')
  BY <1>2, <1>5 DEF FreshKeys
<1>7. x.pc = "sending" => x.req.key = Len(sent) + 1
  BY <1>2, ScenarioRequests DEF Moved
<1>8. ASSUME NEW d \in created', NEW v \in Workers, wk'[v].pc = "sending"
      PROVE  d.key # wk'[v].req.key
  <2>1. CASE v = w
    BY <1>1, <1>2, <1>7, <1>8, <2>1 DEF FreshKeys
  <2>2. CASE v # w
    BY <1>1, <1>8, <2>2 DEF FreshKeys
  <2> QED
    BY <2>1, <2>2
<1> QED
  BY <1>3, <1>4, <1>6, <1>8 DEF FreshKeys

\* What the server has made stays within what the run may make.
LEMMA ServerMoves ==
  ASSUME TypeOK, ServerInv, NEW w \in Workers, NEW x, Moved(w, x),
         UNCHANGED <<created, run>>,
         \/ wk[w].pc = "sleeping" /\ UNCHANGED result
         \/ \E o \in {"ok", "duplicate", "fail"} : Settled(w, o) /\ result' = Add(result, o)
  PROVE  ServerInv'
<1>1. CreatedInv'
  BY CreatedMoves DEF ServerInv
<1>2. run'.scenario \notin Storms => FreshKeys'
  BY FreshMoves DEF ServerInv
<1> QED
  BY <1>1, <1>2 DEF ServerInv

-----------------------------------------------------------------------------
(* The steps of a run.                                                     *)

\* A worker with something to do belongs to a run.
LEMMA BusyRuns ==
  ASSUME IInv, NEW w \in Workers, wk[w].pc # "done"
  PROVE  running # None /\ w \in Busy /\ IndexInv /\ ServerInv /\ TypeOK /\ ReportAddsUp
<1>1. w \in Busy
  BY DEF Busy
<1>2. running # None
  BY <1>1 DEF IInv, IdleInv
<1> QED
  BY <1>1, <1>2 DEF IInv

\* The reply, its loss or a refusal: counted, and on to a nap or the next index.
LEMMA OutcomeStep ==
  ASSUME IInv, NEW w \in Workers, NEW o \in {"ok", "duplicate", "fail"}, Settled(w, o),
         Outcome(w, o)
  PROVE  IInv'
<1>1. /\ running # None /\ w \in Busy /\ IndexInv /\ ServerInv /\ TypeOK /\ ReportAddsUp
      /\ wk[w] \in WorkerStates
  <2>1. wk[w].pc # "done"
    BY DEF Settled
  <2> QED
    BY <2>1, BusyRuns DEF TypeOK
<1>2. /\ result' = Add(result, o) /\ progress' = result'
      /\ UNCHANGED <<config, apiKey, running, run, created, report, edits>>
  BY DEF Outcome
<1>3. /\ IndexInv' /\ next' \in Nat /\ sent' \in Seq(Requests)
      /\ \E x : Moved(w, x)
  <2>1. CASE Naps(w)
    <3> DEFINE x == [wk[w] EXCEPT !.pc = "sleeping"]
    <3>1. x \in WorkerStates /\ x.pc = "sleeping" /\ x.i = wk[w].i /\ x.req = wk[w].req
      BY <1>1, NewStates
    <3>2. wk' = [wk EXCEPT ![w] = x] /\ UNCHANGED <<next, sent>>
      BY <2>1 DEF Outcome
    <3> HIDE DEF x
    <3>3. IndexInv'
      BY <1>1, <1>2, <3>1, <3>2, IndexKept
    <3>4. Moved(w, x)
      BY <3>1, <3>2 DEF Moved
    <3> QED
      BY <1>1, <3>2, <3>3, <3>4 DEF TypeOK
  <2>2. CASE ~Naps(w)
    <3>1. Take(w)
      BY <2>2 DEF Outcome
    <3> QED
      BY <1>1, <1>2, <3>1, IndexTaken
  <2> QED
    BY <2>1, <2>2
<1>4. PICK x : Moved(w, x)
  BY <1>3
<1>5. ServerInv'
  BY <1>1, <1>2, <1>4, ServerMoves
<1>6. ReportAddsUp'
  BY <1>1, <1>2, <1>4, CountedOnce
<1>7. TypeOK'
  <2>1. wk' \in [Workers -> WorkerStates]
    BY <1>1, <1>4, OneWorker DEF Moved
  <2>2. result' \in Totals /\ progress' \in Totals \cup {None}
    BY <1>1, <1>2, Adds DEF TypeOK
  <2> QED
    BY <1>1, <1>2, <1>3, <2>1, <2>2 DEF TypeOK
<1> QED
  BY <1>1, <1>2, <1>3, <1>5, <1>6, <1>7 DEF IInv, IdleInv

\* The pause of a staggered run ends.
LEMMA WakeStep ==
  ASSUME IInv, NEW w \in Workers, Wake(w)
  PROVE  IInv'
<1>1. /\ running # None /\ w \in Busy /\ IndexInv /\ ServerInv /\ TypeOK /\ ReportAddsUp
  BY BusyRuns DEF Wake
<1>2. /\ wk[w].pc = "sleeping" /\ Take(w)
      /\ UNCHANGED <<config, apiKey, running, progress, run, result, created, report, edits>>
  BY DEF Wake
<1>3. /\ IndexInv' /\ next' \in Nat /\ sent' \in Seq(Requests)
      /\ \E x : Moved(w, x) /\ x.pc # "sleeping"
  BY <1>1, <1>2, IndexTaken
<1>4. PICK x : Moved(w, x) /\ x.pc # "sleeping"
  BY <1>3
<1>5. ServerInv'
  BY <1>1, <1>2, <1>4, ServerMoves
<1>6. ReportAddsUp'
  BY <1>1, <1>2, <1>4, WokenUp
<1>7. wk' \in [Workers -> WorkerStates]
  BY <1>1, <1>4, OneWorker DEF Moved
<1>8. TypeOK'
  BY <1>1, <1>2, <1>3, <1>7 DEF TypeOK
<1> QED
  BY <1>1, <1>2, <1>3, <1>5, <1>6, <1>8 DEF IInv, IdleInv

\* The server handles a request.
LEMMA ServeStep ==
  ASSUME IInv, NEW w \in Workers, Serve(w)
  PROVE  IInv'
<1>1. /\ running # None /\ w \in Busy /\ IndexInv /\ ServerInv /\ TypeOK /\ ReportAddsUp
  BY BusyRuns DEF Serve
<1> DEFINE d == [key |-> wk[w].req.key, channel |-> wk[w].req.channel]
           o == IF d \in created THEN "duplicate" ELSE "ok"
           x == [wk[w] EXCEPT !.pc = "answered", !.outcome = o]
<1>2. /\ wk[w].pc = "sending" /\ created' = created \cup {d}
      /\ UNCHANGED <<config, apiKey, running, progress, run, next, result, sent, report, edits>>
  BY DEF Serve
<1>3. wk' = [wk EXCEPT ![w] = x]
  BY DEF Serve
<1>4. o \in {"ok", "duplicate"} /\ (o = "ok" <=> d \notin created)
  OBVIOUS
<1>5. /\ x \in WorkerStates /\ x.pc = "answered" /\ x.outcome = o
      /\ x.i = wk[w].i /\ x.req = wk[w].req
  BY <1>1, <1>4, NewStates
<1>6. /\ wk[w].i \in Nat /\ wk[w].i + 1 \in DOMAIN sent
      /\ wk[w].req = sent[wk[w].i + 1] /\ wk[w].req \in Requests
      /\ wk[w].req \in BuildScenarioRequest(run.scenario, run.config, wk[w].i)
  <2>1. wk[w].i \in Nat /\ sent \in Seq(Requests)
    BY <1>1 DEF TypeOK, WorkerStates
  <2>2. wk[w].i + 1 \in DOMAIN sent /\ wk[w].req = sent[wk[w].i + 1]
    BY <1>1, <2>1 DEF IndexInv
  <2>3. (wk[w].i + 1) - 1 = wk[w].i
    BY <2>1
  <2>4. wk[w].req \in BuildScenarioRequest(run.scenario, run.config, wk[w].i)
    BY <1>1, <2>2, <2>3 DEF IndexInv
  <2>5. wk[w].req \in Requests
    BY <2>1, <2>2
  <2> QED
    BY <2>1, <2>2, <2>4, <2>5
<1>7. d.key = wk[w].req.key /\ d.channel = wk[w].req.channel
      /\ d \in [key : Nat, channel : Channels]
  BY <1>6 DEF Requests
<1> HIDE DEF d, o, x
<1>8. IndexInv'
  BY <1>1, <1>2, <1>3, <1>5, IndexKept
<1>9. /\ wk' \in [Workers -> WorkerStates] /\ wk'[w] = x
      /\ \A v \in Workers : v # w => wk'[v] = wk[v]
      /\ InFlight' = InFlight \cup {w}
      /\ Accepted' = IF o = "ok" THEN Accepted \cup {w} ELSE Accepted \ {w}
  <2>1. x.pc \notin {"done", "sleeping"}
    BY <1>5
  <2> QED
    BY <1>1, <1>3, <1>5, <2>1, OneWorker
<1>10. ReportAddsUp'
  <2>1. InFlight \cup {w} = InFlight
    BY <1>1, <1>2 DEF InFlight
  <2>2. InFlight' = InFlight
    BY <1>9, <2>1
  <2> QED
    BY <1>1, <1>2, <2>2 DEF ReportAddsUp, InFlight
<1>11. CreatedInv'
  <2>1. CreatedInv /\ w \notin Accepted /\ IsFiniteSet(Accepted) /\ IsFiniteSet(created)
    BY <1>1, <1>2, FiniteWorkers DEF ServerInv, CreatedInv, Accepted
  <2>2. /\ Cardinality(Accepted) \in Nat /\ Cardinality(created) \in Nat
        /\ Cardinality(Accepted \cup {w}) = Cardinality(Accepted) + 1
        /\ Accepted \ {w} = Accepted /\ IsFiniteSet(created \cup {d})
        /\ d \notin created => Cardinality(created \cup {d}) = Cardinality(created) + 1
        /\ d \in created => created \cup {d} = created
    BY <2>1, Count
  <2>3. result.ok \in Nat /\ result.fail \in Nat
    BY <1>1 DEF TypeOK, Totals
  <2>4. CASE d \in created
    <3>1. created' = created /\ Accepted' = Accepted
      BY <1>2, <1>4, <1>9, <2>2, <2>4
    <3> QED
      BY <1>2, <2>1, <3>1 DEF CreatedInv
  <2>5. CASE d \notin created
    <3>1. created' = created \cup {d} /\ Accepted' = Accepted \cup {w}
      BY <1>2, <1>4, <1>9, <2>5
    <3>2. Cardinality(created') = Cardinality(created) + 1
          /\ Cardinality(Accepted') = Cardinality(Accepted) + 1 /\ IsFiniteSet(created')
      BY <2>2, <2>5, <3>1
    <3> QED
      BY <1>2, <2>1, <2>2, <2>3, <3>2 DEF CreatedInv
  <2> QED
    BY <2>4, <2>5
<1>12. run'.scenario \notin Storms => FreshKeys'
  <2> SUFFICES ASSUME run.scenario \notin Storms PROVE FreshKeys'
    BY <1>2
  <2>1. FreshKeys
    BY <1>1 DEF ServerInv
  <2>2. run.scenario \in Scenarios /\ run.config \in Configs /\ sent \in Seq(Requests)
    BY <1>1 DEF TypeOK
  <2>3. \A v \in Busy : wk[v].i \in Nat /\ wk[v].i + 1 \in DOMAIN sent
                        /\ wk[v].req = sent[wk[v].i + 1]
    <3> SUFFICES ASSUME NEW v \in Busy
                 PROVE  wk[v].i \in Nat /\ wk[v].i + 1 \in DOMAIN sent
                        /\ wk[v].req = sent[wk[v].i + 1]
      OBVIOUS
    <3>1. wk[v].i \in Nat
      BY <1>1 DEF TypeOK, WorkerStates, Busy
    <3> QED
      BY <1>1, <2>2, <3>1 DEF IndexInv
  <2>4. ASSUME NEW v \in Busy PROVE wk[v].req.key = wk[v].i + 1
    <3>1. (wk[v].i + 1) - 1 = wk[v].i
      BY <2>3
    <3>2. wk[v].req \in BuildScenarioRequest(run.scenario, run.config, wk[v].i)
      BY <1>1, <2>3, <3>1 DEF IndexInv
    <3> QED
      BY <2>2, <2>3, <3>2, ScenarioRequests
  <2>5. d.key = wk[w].i + 1 /\ d.key <= Len(sent)
    BY <1>1, <1>6, <1>7, <2>2, <2>4
  <2>6. d \notin created /\ o = "ok"
    BY <1>2, <1>4, <1>7, <2>1 DEF FreshKeys
  <2>7. ASSUME NEW v \in Workers, wk'[v].pc = "sending"
        PROVE  v \in Busy /\ v # w /\ wk'[v] = wk[v]
    BY <1>5, <1>9, <2>7 DEF Busy
  <2>8. ASSUME NEW e \in created', NEW v \in Workers, wk'[v].pc = "sending"
        PROVE  e.key # wk'[v].req.key
    <3>1. v \in Busy /\ v # w /\ wk'[v] = wk[v]
      BY <2>7, <2>8
    <3>2. CASE e = d
      <4>1. wk[v].i # wk[w].i
        BY <1>1, <3>1 DEF IndexInv
      <4> QED
        BY <1>6, <2>3, <2>4, <2>5, <3>1, <3>2, <4>1
    <3>3. CASE e # d
      BY <1>2, <2>1, <2>8, <3>1, <3>3 DEF FreshKeys
    <3> QED
      BY <3>2, <3>3
  <2>9. \A v \in Workers : wk'[v].pc = "answered" => wk'[v].outcome # "duplicate"
    BY <1>5, <1>9, <2>1, <2>6 DEF FreshKeys
  <2>10. \A e \in created' : e.key <= Len(sent')
    BY <1>2, <2>1, <2>5 DEF FreshKeys
  <2> QED
    BY <1>2, <2>1, <2>8, <2>9, <2>10 DEF FreshKeys
<1>13. run'.scenario \in Storms => created' \subseteq StormDeliveries(run'.config)
  <2> SUFFICES ASSUME run.scenario \in Storms
               PROVE  d \in StormDeliveries(run.config)
    BY <1>1, <1>2 DEF ServerInv
  <2>1. wk[w].req.key = 0 /\ wk[w].req.channel \in StormChannels(run.config)
    <3>1. run.scenario \in Scenarios /\ run.config \in Configs
      BY <1>1 DEF TypeOK
    <3> QED
      BY <1>6, <3>1, ScenarioRequests
  <2>2. d = [key |-> SharedKey, channel |-> wk[w].req.channel]
    BY <2>1 DEF d, SharedKey
  <2> QED
    BY <2>1, <2>2 DEF StormDeliveries
<1>14. TypeOK'
  BY <1>1, <1>2, <1>7, <1>9 DEF TypeOK
<1> QED
  BY <1>1, <1>2, <1>8, <1>10, <1>11, <1>12, <1>13, <1>14 DEF IInv, IdleInv, ServerInv

\* The click: the first indices are handed out, one to a worker.
LEMMA StartStep ==
  ASSUME IInv, NEW s \in Scenarios, Start(s)
  PROVE  IInv'
<1>1. TypeOK /\ config \in Configs /\ running = None
  BY DEF IInv, TypeOK, Start, CanClick
<1> DEFINE count == ScenarioCount(s, config)
           n == Limit(s, config)
<1>2. /\ count \in Nat /\ count >= 2 /\ config.concurrency \in 2..MaxConcurrency
      /\ MaxConcurrency \in Nat
  BY <1>1, LoadTestAssumption DEF ScenarioCount, Configs
<1>3. n \in Nat /\ n >= 1 /\ n <= Indices(count) /\ n <= MaxConcurrency \div 2
      /\ Indices(count) \in Nat
  BY <1>2 DEF Limit, Larger, Smaller, Indices
<1>4. /\ running' = s /\ progress' = None /\ next' = n
      /\ run' = [scenario |-> s, config |-> config, count |-> count]
      /\ result' = Zero /\ created' = {} /\ report' = None
      /\ UNCHANGED <<config, apiKey, edits>>
  BY DEF Start
<1>5. PICK f : /\ DOMAIN f = 1..n
               /\ \A w \in 1..n : f[w] \in BuildScenarioRequest(s, config, w - 1)
               /\ wk' = [w \in Workers |-> IF w <= n THEN Sending(w - 1, f[w]) ELSE Done]
               /\ sent' = f
               /\ f \in [1..n -> UNION {BuildScenarioRequest(s, config, i) : i \in 0..n-1}]
  BY DEF Start
<1> HIDE DEF n, count
<1>6. ASSUME NEW w \in 1..n PROVE f[w] \in Requests /\ w - 1 \in Nat
  BY <1>1, <1>3, <1>5, ScenarioRequests
<1>7. sent' \in Seq(Requests) /\ Len(sent') = n /\ DOMAIN sent' = 1..n
  <2>1. f \in [1..n -> Requests]
    BY <1>5, <1>6
  <2> QED
    BY <1>3, <1>5, <2>1
<1>8. /\ run'.scenario = s /\ run'.config = config /\ run'.count = count
      /\ run' \in [scenario : Scenarios, config : Configs, count : Nat]
  BY <1>1, <1>2, <1>4
<1>9. Workers = 1..(MaxConcurrency \div 2) /\ 1..n \subseteq Workers
      /\ MaxConcurrency \div 2 \in Nat
  BY <1>2, <1>3 DEF Workers
<1>10. ASSUME NEW w \in Workers
       PROVE  /\ wk'[w] \in WorkerStates
              /\ w \in 1..n => /\ wk'[w].pc = "sending" /\ wk'[w].i = w - 1
                               /\ wk'[w].req = f[w]
              /\ w \notin 1..n => wk'[w].pc = "done"
  <2>1. CASE w \in 1..n
    <3>1. wk'[w] = Sending(w - 1, f[w])
      BY <1>3, <1>5, <2>1
    <3> DEFINE x == Sending(w - 1, f[w])
    <3>2. w - 1 \in Nat /\ f[w] \in Requests
      BY <1>6, <2>1
    <3>3. x \in WorkerStates /\ x.pc = "sending" /\ x.i = w - 1 /\ x.req = f[w]
      BY <1>1, <3>2, NewStates
    <3> HIDE DEF x
    <3>4. wk'[w] = x
      BY <3>1 DEF x
    <3> QED
      BY <2>1, <3>3, <3>4
  <2>2. CASE w \notin 1..n
    <3>1. wk'[w] = Done
      BY <1>3, <1>5, <1>9, <2>2
    <3> QED
      BY <1>1, <2>2, <3>1, NewStates
  <2> QED
    BY <2>1, <2>2
<1>11. Busy' = 1..n /\ InFlight' = 1..n /\ Accepted' = {}
  <2>1. Busy' = 1..n
    BY <1>9, <1>10 DEF Busy
  <2>2. InFlight' = 1..n
    BY <1>9, <1>10, <2>1 DEF InFlight
  <2>3. Accepted' = {}
    BY <1>10 DEF Accepted
  <2> QED
    BY <2>1, <2>2, <2>3
<1>12. IndexInv'
  <2>1. Len(sent') = IF next' < Indices(run'.count) THEN next' ELSE Indices(run'.count)
    BY <1>3, <1>4, <1>7, <1>8
  <2>2. Busy' # {}
    BY <1>3, <1>11
  <2>3. \A k \in DOMAIN sent' :
          sent'[k] \in BuildScenarioRequest(run'.scenario, run'.config, k - 1)
    BY <1>5, <1>7, <1>8
  <2>4. ASSUME NEW w \in Busy'
        PROVE  wk'[w].i < Len(sent') /\ sent'[wk'[w].i + 1] = wk'[w].req
    <3>1. w \in 1..n /\ wk'[w].i = w - 1 /\ wk'[w].req = f[w]
      BY <1>9, <1>10, <1>11, <2>4
    <3>2. (w - 1) + 1 = w /\ w - 1 < n
      BY <1>3, <3>1
    <3> QED
      BY <1>5, <1>7, <3>1, <3>2
  <2>5. ASSUME NEW v \in Busy', NEW w \in Busy', v # w
        PROVE  wk'[v].i # wk'[w].i
    <3>1. v \in 1..n /\ wk'[v].i = v - 1 /\ w \in 1..n /\ wk'[w].i = w - 1
      BY <1>9, <1>10, <1>11, <2>5
    <3> QED
      BY <1>3, <2>5, <3>1
  <2> QED
    BY <2>1, <2>2, <2>3, <2>4, <2>5 DEF IndexInv
<1>13. ReportAddsUp'
  <2>1. Counted(result') = 0
    BY <1>4 DEF Counted, Zero
  <2>2. Cardinality(1..n) = n
    BY <1>3, FS_Interval
  <2>3. Counted(result') + Cardinality(InFlight') = Len(sent')
    BY <1>3, <1>7, <1>11, <2>1, <2>2
  <2> QED
    BY <1>4, <2>3 DEF ReportAddsUp, InFlight
<1>14. ServerInv'
  <2>1. result'.ok = 0 /\ result'.fail = 0 /\ result'.duplicates = 0
    BY <1>4 DEF Zero
  <2>2. IsFiniteSet(created') /\ Cardinality(created') = 0 /\ Cardinality(Accepted') = 0
    BY <1>4, <1>11, FS_EmptySet
  <2>3. CreatedInv'
    BY <2>1, <2>2 DEF CreatedInv
  <2>4. FreshKeys'
    BY <1>4, <1>10, <2>1 DEF FreshKeys
  <2> QED
    BY <1>4, <2>3, <2>4 DEF ServerInv
<1>15. TypeOK'
  <2>1. wk' \in [Workers -> WorkerStates]
    BY <1>5, <1>10
  <2>2. result' \in Totals
    BY <1>4 DEF Zero, Totals
  <2> QED
    BY <1>1, <1>3, <1>4, <1>7, <1>8, <2>1, <2>2 DEF TypeOK
<1>16. IdleInv'
  BY <1>4, NoneAssumption DEF IdleInv
<1> QED
  BY <1>12, <1>13, <1>14, <1>15, <1>16 DEF IInv

\* The toast: all workers have left, and the totals are complete.
LEMMA FinishStep ==
  ASSUME IInv, Finish
  PROVE  IInv'
<1>1. TypeOK /\ running # None /\ IndexInv /\ ReportAddsUp /\ Busy = {}
  BY DEF IInv, Finish, AllDone, Busy
<1>2. /\ report' = result /\ running' = None /\ progress' = None
      /\ result' = Zero /\ created' = {} /\ sent' = <<>>
      /\ UNCHANGED <<config, apiKey, run, next, wk, edits>>
  BY DEF Finish
<1>3. InFlight = {} /\ Cardinality(InFlight) = 0
  BY <1>1, FS_EmptySet DEF InFlight
<1>4. Counted(result) = Indices(run.count)
  <2>1. Counted(result) + 0 = Len(sent)
    BY <1>1, <1>3 DEF ReportAddsUp, InFlight
  <2>2. next >= Indices(run.count) /\ next \in Nat /\ Indices(run.count) \in Nat
    BY <1>1, WithinIndices DEF IndexInv, TypeOK
  <2>3. Len(sent) = Indices(run.count)
    BY <1>1, <2>2 DEF IndexInv
  <2>4. Counted(result) \in Nat
    BY <1>1, Adds DEF TypeOK
  <2> QED
    BY <2>1, <2>3, <2>4
<1>5. ReportAddsUp'
  BY <1>2, <1>4 DEF ReportAddsUp
<1>6. IdleInv'
  BY <1>1, <1>2 DEF IdleInv, Busy
<1>7. TypeOK'
  <2>1. Zero \in Totals
    BY DEF Zero, Totals
  <2>2. <<>> \in Seq(Requests) /\ result \in Totals
    <3>1. <<>> \in Seq(Requests)
      OBVIOUS
    <3> QED
      BY <1>1, <3>1 DEF TypeOK
  <2>3. result' \in Totals /\ report' \in Totals \cup {None} /\ sent' \in Seq(Requests)
        /\ created' \subseteq [key : Nat, channel : Channels]
    BY <1>2, <2>1, <2>2
  <2>4. /\ config' \in Configs /\ apiKey' \in {"valid", "wrong", ""}
        /\ run' \in [scenario : Scenarios, config : Configs, count : Nat]
        /\ next' \in Nat /\ wk' \in [Workers -> WorkerStates] /\ edits' \in 0..MaxEdits
    BY <1>1, <1>2 DEF TypeOK
  <2> QED
    BY <1>2, <2>3, <2>4 DEF TypeOK
<1> QED
  BY <1>2, <1>5, <1>6, <1>7 DEF IInv

\* What the boxes make of the configuration is a configuration.
LEMMA PatchedType ==
  ASSUME NEW c \in Configs
  PROVE  Patched(c) \subseteq Configs
<1>1. \A n \in CountInputs : /\ Clamp(n) \in Nat \ {0, 1}
                             /\ Clamp(Smaller(MaxConcurrency, n)) \in 2..MaxConcurrency
  BY LoadTestAssumption DEF Clamp, Larger, Smaller
<1>2. \A a \in Addresses : [c EXCEPT !.address = a] \in Configs
  BY DEF Configs
<1>3. \A n \in Nat \ {0, 1} : [c EXCEPT !.burst = n] \in Configs
  BY DEF Configs
<1>4. \A n \in Nat \ {0, 1} : [c EXCEPT !.duplicate = n] \in Configs
  BY DEF Configs
<1>5. \A m \in {"fixed", "random", "round-robin"} : [c EXCEPT !.channelMode = m] \in Configs
  BY DEF Configs
<1>6. \A ch \in Channels : [c EXCEPT !.fixedChannel = ch] \in Configs
  BY DEF Configs
<1>7. \A m \in {"fixed", "random"} : [c EXCEPT !.priorityMode = m] \in Configs
  BY DEF Configs
<1>8. \A p \in AllPriorities : [c EXCEPT !.fixedPriority = p] \in Configs
  BY DEF Configs
<1>9. \A n \in 2..MaxConcurrency : [c EXCEPT !.concurrency = n] \in Configs
  BY DEF Configs
<1>10. \A b \in BOOLEAN : [c EXCEPT !.stagger = b] \in Configs
  BY Zenon DEF Configs
<1>11. PatchedBasics(c) \subseteq Configs
  BY <1>1, <1>2, <1>3, <1>4 DEF PatchedBasics
<1>12. PatchedAdvanced(c) \subseteq Configs
  <2>1. \A n \in CountInputs :
          [c EXCEPT !.concurrency = Clamp(Smaller(MaxConcurrency, n))] \in Configs
    BY <1>1, <1>9
  <2> QED
    BY <1>5, <1>6, <1>7, <1>8, <1>10, <2>1, Zenon DEF PatchedAdvanced
<1> QED
  BY <1>11, <1>12 DEF Patched

\* A toggled list is a list of channels and never empty.
LEMMA ToggledType ==
  ASSUME NEW c \in Configs, NEW ch \in Channels
  PROVE  ToggleChannel(c, ch) \subseteq Configs
<1> DEFINE l == c.selectedChannels
<1>1. l \in Seq(Channels) /\ l # <<>>
  BY DEF Configs
<1>2. \A t \in Seq(Channels) \ {<<>>} : [c EXCEPT !.selectedChannels = t] \in Configs
  BY DEF Configs
<1>3. ASSUME NEW t \in Toggled(l, ch) PROVE t \in Seq(Channels) \ {<<>>}
  <2>1. CASE \A k \in DOMAIN l : l[k] # ch
    <3>1. t = Append(l, ch)
      BY <1>3, <2>1 DEF Toggled
    <3> QED
      BY <1>1, <3>1
  <2>2. CASE ~(\A k \in DOMAIN l : l[k] # ch) /\ Len(l) = 1
    <3>1. t = <<ch>>
      BY <1>3, <2>2 DEF Toggled
    <3> QED
      BY <3>1
  <2>3. CASE ~(\A k \in DOMAIN l : l[k] # ch) /\ Len(l) # 1
    <3>1. PICK k \in DOMAIN l : t = SubSeq(l, 1, k - 1) \o SubSeq(l, k + 1, Len(l))
      BY <1>3, <2>3 DEF Toggled
    <3>2. /\ k \in 1..Len(l) /\ Len(l) \in Nat /\ Len(l) > 1
          /\ \A i \in 1..Len(l) : l[i] \in Channels
      <4>1. Len(l) \in Nat /\ DOMAIN l = 1..Len(l) /\ Len(l) # 0
        BY <1>1
      <4>2. \A i \in 1..Len(l) : l[i] \in Channels
        BY <1>1
      <4>3. Len(l) > 1
        <5>1. Len(l) \in Nat /\ Len(l) # 0 /\ Len(l) # 1
          BY <2>3, <4>1
        <5>2. \A n \in Nat : n # 0 /\ n # 1 => n > 1
          OBVIOUS
        <5> QED
          BY ONLY <5>1, <5>2, Zenon
      <4> QED
        BY <4>1, <4>2, <4>3
    <3>3. SubSeq(l, 1, k - 1) \in Seq(Channels) /\ Len(SubSeq(l, 1, k - 1)) = k - 1
      BY <1>1, <3>2
    <3>4. SubSeq(l, k + 1, Len(l)) \in Seq(Channels)
          /\ Len(SubSeq(l, k + 1, Len(l))) = Len(l) - k
      BY <1>1, <3>2
    <3>5. t \in Seq(Channels) /\ Len(t) = (k - 1) + (Len(l) - k)
      BY <3>1, <3>3, <3>4
    <3> QED
      BY <3>2, <3>5
  <2> QED
    BY <2>1, <2>2, <2>3
<1> QED
  BY <1>2, <1>3 DEF ToggleChannel

\* Edits reach neither the run nor its requests.
LEMMA EditStep ==
  ASSUME IInv, Edit
  PROVE  IInv'
<1>1. TypeOK
  BY DEF IInv
<1>2. UNCHANGED <<running, progress, run, next, result, wk, created, sent, report>>
  BY DEF Edit
<1>3. config' \in Configs
  <2>1. config \in Configs
    BY <1>1 DEF TypeOK
  <2> QED
    BY <2>1, PatchedType, ToggledType DEF Edit
<1>4. apiKey' \in {"valid", "wrong", ""}
  BY <1>1 DEF Edit, TypeOK
<1>5. edits' \in 0..MaxEdits
  <2>1. edits \in 0..MaxEdits /\ edits < MaxEdits /\ edits' = edits + 1
    BY <1>1 DEF Edit, TypeOK
  <2> QED
    BY <2>1, LoadTestAssumption
<1>6. TypeOK'
  BY <1>1, <1>2, <1>3, <1>4, <1>5 DEF TypeOK
<1>7. IdleInv' /\ ReportAddsUp'
  BY <1>2 DEF IInv, IdleInv, ReportAddsUp, Busy
<1>8. IndexInv => IndexInv'
  BY <1>2 DEF IndexInv, Busy
<1>9. ServerInv => ServerInv'
  BY <1>2 DEF ServerInv, CreatedInv, FreshKeys, Accepted
<1> QED
  BY <1>2, <1>6, <1>7, <1>8, <1>9 DEF IInv

\* The invariant holds for every list of channels, input and edit.
LEMMA Inductive == Spec => []IInv
<1>1. Init => IInv
  <2> SUFFICES ASSUME Init PROVE IInv
    OBVIOUS
  <2>1. config \in Configs /\ DefaultLoadConfig \in Configs
    <3>1. AllChannels \in Seq(Channels) \ {<<>>} /\ AllChannels[1] \in Channels
      BY LoadTestAssumption DEF Channels
    <3>2. /\ Defaults.burst \in Nat \ {0, 1} /\ Defaults.duplicate \in Nat \ {0, 1}
          /\ Defaults.concurrency \in 2..MaxConcurrency /\ Defaults.stagger \in BOOLEAN
          /\ "normal" \in AllPriorities
      BY LoadTestAssumption
    <3>3. DefaultLoadConfig \in Configs
      BY <3>1, <3>2 DEF DefaultLoadConfig, Configs, Addresses
    <3> QED
      BY <3>3 DEF Init
  <2>2. Done \in WorkerStates /\ Done.pc = "done"
    BY DEF Done, WorkerStates
  <2>3. wk = [w \in Workers |-> Done]
    BY DEF Init
  <2>4. Busy = {}
    BY <2>2, <2>3 DEF Busy
  <2>5. run \in [scenario : Scenarios, config : Configs, count : Nat]
    BY <2>1 DEF Init, Scenarios
  <2>6. result \in Totals /\ sent \in Seq(Requests) /\ next \in Nat /\ edits \in 0..MaxEdits
    BY LoadTestAssumption DEF Init, Zero, Totals
  <2>7. TypeOK
    BY <2>1, <2>2, <2>3, <2>5, <2>6 DEF Init, TypeOK
  <2> QED
    BY <2>4, <2>7 DEF Init, IInv, IdleInv, ReportAddsUp
<1>2. IInv /\ [Next]_vars => IInv'
  <2> SUFFICES ASSUME IInv, [Next]_vars PROVE IInv'
    OBVIOUS
  <2>1. ASSUME NEW s \in Scenarios, Start(s) PROVE IInv'
    BY <2>1, StartStep
  <2>2. ASSUME NEW w \in Workers, Step(w) PROVE IInv'
    <3>1. CASE Serve(w)
      BY <3>1, ServeStep
    <3>2. CASE Receive(w)
      <4>1. wk[w].outcome \in {"ok", "duplicate", "fail"}
        BY DEF IInv, TypeOK, WorkerStates
      <4>2. PICK o \in {wk[w].outcome, "fail"} : Outcome(w, o)
        BY <3>2 DEF Receive
      <4>3. o \in {"ok", "duplicate", "fail"} /\ Settled(w, o)
        BY <3>2, <4>1, <4>2 DEF Receive, Settled
      <4> QED
        BY <4>2, <4>3, OutcomeStep
    <3>3. CASE Reject(w)
      <4>1. Settled(w, "fail") /\ Outcome(w, "fail")
        BY <3>3 DEF Reject, Settled
      <4> QED
        BY <4>1, OutcomeStep
    <3>4. CASE Wake(w)
      BY <3>4, WakeStep
    <3> QED
      BY <2>2, <3>1, <3>2, <3>3, <3>4 DEF Step
  <2>3. CASE Finish
    BY <2>3, FinishStep
  <2>4. CASE Edit
    BY <2>4, EditStep
  <2>5. CASE UNCHANGED vars
    BY <2>5 DEF vars, IInv, TypeOK, IdleInv, ReportAddsUp, IndexInv, ServerInv, CreatedInv,
                FreshKeys, Accepted, Busy
  <2> QED
    BY <2>1, <2>2, <2>3, <2>4, <2>5 DEF Next
<1> QED
  BY <1>1, <1>2, PTL DEF Spec

-----------------------------------------------------------------------------
(* The results.                                                            *)

\* The panel's state stays well typed, the clamped configuration included.
THEOREM TypeCorrect == Spec => []TypeOK
<1>1. IInv => TypeOK
  BY DEF IInv
<1> QED
  BY <1>1, Inductive, PTL

\* Whatever the number of workers and the order in which they finish, no index
\* is skipped, sent twice or left to two workers.
THEOREM IndicesAreSentOnce == Spec => []EachIndexOnce
<1>1. IInv => EachIndexOnce
  <2> SUFFICES ASSUME IInv, running # None
               PROVE  /\ \A n \in DOMAIN sent : sent[n].key \in {SharedKey, n}
                      /\ \A w \in Busy : sent[wk[w].i + 1] = wk[w].req
                      /\ \A v, w \in Busy : v # w => wk[v].i # wk[w].i
                      /\ Len(sent) <= Indices(run.count)
    BY DEF EachIndexOnce
  <2>1. IndexInv /\ TypeOK
    BY DEF IInv
  <2>2. /\ run.scenario \in Scenarios /\ run.config \in Configs /\ run.count \in Nat
        /\ next \in Nat /\ sent \in Seq(Requests)
    BY <2>1 DEF TypeOK
  <2>3. ASSUME NEW n \in DOMAIN sent PROVE sent[n].key \in {SharedKey, n}
    <3>1. n - 1 \in Nat /\ (n - 1) + 1 = n
      BY <2>2
    <3>2. sent[n] \in BuildScenarioRequest(run.scenario, run.config, n - 1)
      BY <2>1 DEF IndexInv
    <3>3. sent[n].key = IF run.scenario \in Storms THEN 0 ELSE (n - 1) + 1
      BY <2>2, <3>1, <3>2, ScenarioRequests
    <3> QED
      BY <3>1, <3>3 DEF SharedKey
  <2>4. Len(sent) <= Indices(run.count)
    BY <2>1, <2>2, WithinIndices DEF IndexInv
  <2> QED
    BY <2>1, <2>3, <2>4 DEF IndexInv
<1> QED
  BY <1>1, Inductive, PTL

\* During a run the totals and the requests in flight make up what was sent,
\* and the toast accounts for every index.
THEOREM TotalsAddUp == Spec => []ReportAddsUp
<1>1. IInv => ReportAddsUp
  BY DEF IInv
<1> QED
  BY <1>1, Inductive, PTL

\* A list of n places has at most n members.
LEMMA ListSize ==
  ASSUME NEW l \in Seq(Channels)
  PROVE  LET S == {[key |-> SharedKey, channel |-> l[k]] : k \in 1..Len(l)}
         IN  IsFiniteSet(S) /\ Cardinality(S) <= Len(l)
<1> DEFINE S == {[key |-> SharedKey, channel |-> l[k]] : k \in 1..Len(l)}
           f == [k \in 1..Len(l) |-> [key |-> SharedKey, channel |-> l[k]]]
<1>1. Len(l) \in Nat
  OBVIOUS
<1>2. IsFiniteSet(1..Len(l)) /\ Cardinality(1..Len(l)) = Len(l)
  BY <1>1, FS_Interval
<1>3. f \in Surjection(1..Len(l), S)
  BY DEF Surjection
<1> QED
  BY <1>2, <1>3, FS_Surjection

\* The panel's totals agree with what the server has made, replies lost or not,
\* and a storm makes no more deliveries than it has channels.
THEOREM TotalsAgreeWithTheServer == Spec => []ServerAgrees
<1>1. IInv => ServerAgrees
  <2> SUFFICES ASSUME IInv, running # None
               PROVE  /\ result.ok <= Cardinality(created)
                      /\ Cardinality(created) <= result.ok + result.fail + Cardinality(Busy)
                      /\ run.scenario \notin Storms => result.duplicates = 0
                      /\ run.scenario \in Storms =>
                           Cardinality(created) <= (IF run.config.channelMode = "fixed" THEN 1
                                                    ELSE Len(run.config.selectedChannels))
    BY DEF ServerAgrees
  <2>1. ServerInv /\ TypeOK
    BY DEF IInv
  <2>2. result.ok \in Nat /\ result.fail \in Nat
    BY <2>1 DEF TypeOK, Totals
  <2>3. /\ IsFiniteSet(created) /\ Cardinality(created) \in Nat
        /\ Cardinality(Accepted) \in Nat /\ Cardinality(Busy) \in Nat
        /\ Cardinality(Accepted) <= Cardinality(Busy)
    <3>1. Accepted \subseteq Busy
      BY DEF Accepted, Busy
    <3>2. IsFiniteSet(created)
      BY <2>1 DEF ServerInv, CreatedInv
    <3> QED
      BY <3>1, <3>2, FiniteWorkers, FS_Subset, FS_CardinalityType
  <2>4. /\ result.ok <= Cardinality(created)
        /\ Cardinality(created) <= result.ok + result.fail + Cardinality(Busy)
    BY <2>1, <2>2, <2>3 DEF ServerInv, CreatedInv
  <2>5. run.scenario \notin Storms => result.duplicates = 0
    BY <2>1 DEF ServerInv, FreshKeys
  <2>6. ASSUME run.scenario \in Storms
        PROVE  Cardinality(created) <= (IF run.config.channelMode = "fixed" THEN 1
                                        ELSE Len(run.config.selectedChannels))
    <3> DEFINE c == run.config
               l == c.selectedChannels
    <3>1. l \in Seq(Channels) /\ created \subseteq StormDeliveries(c)
      BY <2>1, <2>6 DEF TypeOK, Configs, ServerInv
    <3>2. CASE c.channelMode = "fixed"
      <4>1. StormDeliveries(c) = {[key |-> SharedKey, channel |-> c.fixedChannel]}
        BY <3>2 DEF StormDeliveries, StormChannels
      <4>2. IsFiniteSet(StormDeliveries(c)) /\ Cardinality(StormDeliveries(c)) = 1
        BY <4>1, FS_Singleton
      <4>3. Cardinality(created) <= Cardinality(StormDeliveries(c))
        BY <3>1, <4>2, FS_Subset
      <4> QED
        BY <3>2, <4>2, <4>3
    <3>3. CASE c.channelMode # "fixed"
      <4> DEFINE S == {[key |-> SharedKey, channel |-> l[k]] : k \in 1..Len(l)}
      <4>1. DOMAIN l = 1..Len(l) /\ Len(l) \in Nat
        BY <3>1
      <4>2. StormDeliveries(c) \subseteq S
        BY <3>3, <4>1 DEF StormDeliveries, StormChannels, Picked
      <4>3. IsFiniteSet(S) /\ Cardinality(S) <= Len(l)
        BY <3>1, ListSize
      <4>4. created \subseteq S
        BY <3>1, <4>2
      <4> HIDE DEF S
      <4>5. Cardinality(created) <= Cardinality(S) /\ Cardinality(S) \in Nat
        BY <4>3, <4>4, FS_Subset, FS_CardinalityType
      <4>6. Cardinality(created) <= Len(l)
        BY <2>3, <4>1, <4>3, <4>5
      <4> QED
        BY <3>3, <4>6
    <3> QED
      BY <3>2, <3>3
  <2> QED
    BY <2>4, <2>5, <2>6
<1> QED
  BY <1>1, Inductive, PTL

\* Edits during a run do not leak into it: every request is the one that
\* LOAD_SCENARIOS describes for the configuration of the click.
THEOREM ScenariosAreKept == Spec => []ScenarioKept
<1>1. IInv => ScenarioKept
  <2> SUFFICES ASSUME IInv, NEW n \in DOMAIN sent
               PROVE  LET s == run.scenario  c == run.config  r == sent[n] IN
                      /\ r.key = SharedKey <=> s \in Storms
                      /\ s = "retry-storm" => r.address = "transient"
                      /\ s = "failure-mix" => r.address \in FailureMix
                      /\ s \notin {"retry-storm", "failure-mix"} => r.address = c.address
                      /\ s \in {"random-channel", "mixed-chaos", "all-channels"} =>
                           \E k \in DOMAIN c.selectedChannels : c.selectedChannels[k] = r.channel
                      /\ s \notin {"random-channel", "mixed-chaos", "all-channels"}
                           /\ c.channelMode = "fixed" => r.channel = c.fixedChannel
                      /\ s \notin {"random-priority", "mixed-chaos"} /\ c.priorityMode = "fixed" =>
                           r.priority = c.fixedPriority
    BY DEF ScenarioKept
  <2>1. running # None
    BY DEF IInv, IdleInv
  <2>2. IndexInv /\ TypeOK
    BY <2>1 DEF IInv
  <2>3. run.scenario \in Scenarios /\ run.config \in Configs /\ sent \in Seq(Requests)
    BY <2>2 DEF TypeOK
  <2>4. n - 1 \in Nat /\ (n - 1) + 1 = n /\ n # 0
    BY <2>3
  <2>5. sent[n] \in BuildScenarioRequest(run.scenario, run.config, n - 1)
    BY <2>2 DEF IndexInv
  <2>6. /\ Described(run.scenario, run.config, sent[n])
        /\ sent[n].key = IF run.scenario \in Storms THEN 0 ELSE (n - 1) + 1
    BY <2>3, <2>4, <2>5, ScenarioRequests
  <2>7. sent[n].key = SharedKey <=> run.scenario \in Storms
    BY <2>4, <2>6 DEF SharedKey
  <2> QED
    BY <2>6, <2>7 DEF Described, Random, Picked
<1> QED
  BY <1>1, Inductive, PTL
=============================================================================
