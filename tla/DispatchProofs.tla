--------------------------- MODULE DispatchProofs ---------------------------
(***************************************************************************)
(* For any number of deliveries, containers, durables, redeliveries and    *)
(* faults: the worker is type correct, its claim is exclusive, a provider  *)
(* accepts a delivery at most once, a dead letter has an attempt, a claim  *)
(* left behind has a cause, and the worker implements Lifecycle.  With one *)
(* container no unsettled delivery is acknowledged by every durable.       *)
(*                                                                         *)
(* One replay request at a time beside all of that: the send stays unique. *)
(* Any number of them, as long as no call fails: a requeued delivery is    *)
(* offered to a worker.                                                    *)
(***************************************************************************)
EXTENDS Replay, TLAPS

-----------------------------------------------------------------------------
(* The worker.                                                             *)

\* The claim and the row agree while a handler owns the delivery; a handler
\* about to claim holds a claimable status; below the cap when it retries.
ClaimInv ==
  \A h \in Handlers :
    /\ pc[h] = "claim" => CanStartProcessing(local[h])
    /\ pc[h] \in Claimed => row[Work(h)] = local[h] /\ local[h].status = "processing"
    /\ pc[h] = "retryUpdate" => local[h].retry + 1 < MaxAttempts
    /\ \A g \in Handlers : pc[h] \in Claimed /\ pc[g] \in Claimed
                             /\ Work(g) = Work(h) => g = h

\* The part of it that the type of retry_count rests on.
CapInv == \A h \in Handlers : pc[h] = "retryUpdate" => local[h].retry + 1 < MaxAttempts

\* What the provider has seen of a delivery, by the row and by the owner.
SentInv ==
  /\ \A d \in Deliveries :
       /\ accepted[d] \in {0, 1}
       /\ row[d].status = "succeeded" => accepted[d] = 1
       /\ row[d].status \notin {"processing", "succeeded"} => accepted[d] = 0
  /\ \A h \in Handlers :
       /\ pc[h] = "okUpdate" => accepted[Work(h)] = 1
       /\ pc[h] \in Claimed \ {"okUpdate"} => accepted[Work(h)] = 0

\* moveToDLQ has recorded the attempt when it comes to the row.
AttemptInv ==
  /\ DLQHasAttempt
  /\ \A h \in Handlers :
       pc[h] = "dlqUpdate" /\ Work(h) \notin Unrouted => attempts[Work(h)] # <<>>

\* A copy of delivery d that its durable still owes: not acknowledged, and a
\* handler at work on it has not lost the claim, nor is it about to.
Owed(d, c, n) ==
  /\ n \in stream /\ n[1] = d /\ n \notin acked[c]
  /\ \A h \in Handlers : Durable(h) = c /\ msg[h] = n /\ pc[h] # "idle" =>
       /\ pc[h] # "ack"
       /\ pc[h] = "claim" => local[h].status = row[d].status

\* With one process per durable: a handler holds a published message that its
\* durable has not acknowledged; past its closing Update the row is settled;
\* and a delivery that is not settled has a copy that is owed.
HoldInv ==
  /\ \A h \in Handlers : pc[h] # "idle" =>
       msg[h] \in stream /\ msg[h] \notin acked[Durable(h)]
  /\ \A c \in Durables : acked[c] \subseteq stream
ClosedInv == \A h \in Handlers :
               pc[h] \in {"okAttempt", "okAudit", "dlqPublish", "dlqAudit"}
                 => Settled(row[Work(h)])
OwedInv == \A d \in Deliveries :
             ~Settled(row[d]) /\ (\E m \in stream : m[1] = d)
               => \E c \in Durables, n \in stream : Owed(d, c, n)

\* The inductive invariant.
IInv == TypeOK /\ ClaimInv /\ SentInv

\* The type invariant, with Seq(AttemptRows) and friends folded.
LEMMA TypeInit == Init => TypeOK
<1> SUFFICES ASSUME Init PROVE TypeOK
  OBVIOUS
<1>1. PICK d \in Deliveries : TRUE
  BY DispatchAssumption
<1>2. <<d, 1>> \in Messages
  BY DispatchAssumption DEF Messages
<1>3. (CHOOSE m \in Messages : TRUE) \in Messages
  BY <1>2
<1>4. NewRow \in [status : Statuses, retry : 0..(MaxAttempts - 1)]
      /\ Queue(NewRow) \in [status : Statuses, retry : 0..(MaxAttempts - 1)]
  BY DispatchAssumption DEF NewRow, Queue, Statuses
<1>5. \A d2 \in Deliveries : <<>> \in Seq(AttemptRows)
  OBVIOUS
<1> QED
  BY DispatchAssumption, <1>3, <1>4, <1>5 DEF Init, TypeOK, Locations

\* What every step of a handler can rely on.
LEMMA HandlerFacts ==
  ASSUME TypeOK, NEW h \in Handlers
  PROVE  /\ Work(h) \in Deliveries /\ msg[h] \in Messages
         /\ Durable(h) \in Durables
         /\ row[Work(h)] \in [status : Statuses, retry : 0..(MaxAttempts - 1)]
         /\ local[h] \in [status : Statuses, retry : 0..(MaxAttempts - 1)]
  BY DEF TypeOK, Work, Durable, Handlers, Messages

\* Control: a jump and a returning store call keep pc and used well typed.
LEMMA GotoType ==
  ASSUME TypeOK, NEW h \in Handlers, NEW l \in Locations, Goto(h, l)
  PROVE  pc' \in [Handlers -> Locations]
  BY DEF TypeOK, Goto

\* A fault is counted.
LEMMA SpendType ==
  ASSUME TypeOK, NEW k \in FaultKinds, Spend(k)
  PROVE  used' \in [FaultKinds -> Nat]
  BY DEF TypeOK, Spend

\* Where a call's reply leaves a handler, or its loss.
LEMMA ReturnsType ==
  ASSUME TypeOK, NEW h \in Handlers, NEW l \in Locations, Returns(h, l)
  PROVE  pc' \in [Handlers -> Locations] /\ used' \in [FaultKinds -> Nat]
<1>1. CASE Goto(h, l) /\ UNCHANGED used
  BY <1>1, GotoType DEF TypeOK
<1>2. CASE Goto(h, "nak") /\ Spend("store")
  <2>1. "nak" \in Locations /\ "store" \in FaultKinds
    BY DEF Locations, FaultKinds
  <2> QED
    BY <1>2, <2>1, GotoType, SpendType
<1> QED
  BY <1>1, <1>2 DEF Returns

\* TypeOK is preserved: only MarkRetrying needs more, that the copy is below
\* the cap when handleFailure decides to retry.
LEMMA TypeStep == TypeOK /\ CapInv /\ [Next]_vars => TypeOK'
<1> SUFFICES ASSUME TypeOK, CapInv, [Next]_vars PROVE TypeOK'
  OBVIOUS
<1> USE DispatchAssumption DEF TypeOK
<1>1. ASSUME NEW m \in Messages, Publish(m) PROVE TypeOK'
  BY <1>1 DEF Publish, store, history
<1>2. ASSUME NEW h \in Handlers, StoreError(h) PROVE TypeOK'
  <2>1. "nak" \in Locations /\ "store" \in FaultKinds
    BY DEF Locations, FaultKinds
  <2>2. pc' \in [Handlers -> Locations] /\ used' \in [FaultKinds -> Nat]
    BY <1>2, <2>1, GotoType, SpendType DEF StoreError
  <2> QED
    BY <1>2, <2>2 DEF StoreError, store, jetstream, history
<1>3. ASSUME NEW p \in Processes, Crash(p) PROVE TypeOK'
  <2>1. "idle" \in Locations /\ "crash" \in FaultKinds
    BY DEF Locations, FaultKinds
  <2>2. pc' \in [Handlers -> Locations]
    BY <1>3, <2>1 DEF Crash
  <2>3. used' \in [FaultKinds -> Nat]
    BY <1>3, <2>1, SpendType DEF Crash
  <2> QED
    BY <1>3, <2>2, <2>3 DEF Crash, store, jetstream, history
<1>4. ASSUME NEW c \in Durables, NEW m \in Messages, AckWait(c, m) PROVE TypeOK'
  <2>1. "ackwait" \in FaultKinds
    BY DEF FaultKinds
  <2>2. used' \in [FaultKinds -> Nat]
    BY <1>4, <2>1, SpendType DEF AckWait
  <2>3. pending' \in [Durables -> SUBSET Messages]
    BY <1>4 DEF AckWait
  <2> QED
    BY <1>4, <2>2, <2>3 DEF AckWait, store, history
<1>5. ASSUME NEW h \in Handlers, Step(h) PROVE TypeOK'
  <2> Work(h) \in Deliveries /\ msg[h] \in Messages /\ Durable(h) \in Durables
      /\ row[Work(h)] \in [status : Statuses, retry : 0..(MaxAttempts - 1)]
      /\ local[h] \in [status : Statuses, retry : 0..(MaxAttempts - 1)]
    BY HandlerFacts
  <2>1. CASE Receive(h)
    <3>1. PICK m \in Deliverable(Durable(h)) :
            /\ msg' = [msg EXCEPT ![h] = m]
            /\ pending' = [pending EXCEPT ![Durable(h)] = @ \cup {m}]
            /\ delivered' = [delivered EXCEPT ![Durable(h)][m] = @ + 1]
      BY <2>1 DEF Receive
    <3>2. m \in Messages /\ delivered[Durable(h)][m] < MaxDeliver
      BY DEF Deliverable
    <3>3. delivered[Durable(h)][m] + 1 \in 0..MaxDeliver
      BY <3>2
    <3>4. delivered' \in [Durables -> [Messages -> 0..MaxDeliver]]
      BY <3>1, <3>2, <3>3
    <3>5. pc' \in [Handlers -> Locations]
      BY <2>1, GotoType DEF Receive, Locations
    <3> QED
      BY <2>1, <3>1, <3>2, <3>4, <3>5 DEF Receive, store, history
  <2>2. CASE Ack(h)
    BY <2>2 DEF Ack, Goto, store, history, Locations
  <2>3. CASE Nak(h)
    BY <2>3 DEF Nak, Goto, store, history, Locations
  <2>4. CASE FindByID(h)
    BY <2>4 DEF FindByID, Goto, Entry, store, jetstream, history, Locations
  <2>5. CASE UpdateIfStatus(h)
    <3>1. "admit" \in Locations /\ "ack" \in Locations
      BY DEF Locations
    <3>2. StartProcessing(local[h]) \in [status : Statuses, retry : 0..(MaxAttempts - 1)]
      BY DEF StartProcessing, Statuses
    <3>3. CASE Goto(h, "ack") /\ UNCHANGED <<row, local, used>>
      BY <2>5, <3>1, <3>3, GotoType DEF UpdateIfStatus, jetstream, history
    <3>4. CASE /\ row' = [row EXCEPT ![Work(h)] = StartProcessing(local[h])]
               /\ local' = [local EXCEPT ![h] = StartProcessing(@)]
               /\ Returns(h, "admit")
      <4>1. pc' \in [Handlers -> Locations] /\ used' \in [FaultKinds -> Nat]
        BY <3>1, <3>4, ReturnsType
      <4> QED
        BY <2>5, <3>2, <3>4, <4>1 DEF UpdateIfStatus, jetstream, history
    <3> QED
      BY <2>5, <3>3, <3>4 DEF UpdateIfStatus
  <2>6. CASE Admit(h)
    BY <2>6 DEF Admit, OnTransient, Goto, store, jetstream, history, Locations
  <2>7. CASE Send(h)
    <3>1. pc' \in [Handlers -> Locations]
      BY <2>7, GotoType DEF Send, OnTransient, Locations
    <3>2. calls' \in [Deliveries -> Nat]
      BY <2>7 DEF Send
    <3>3. accepted' \in [Deliveries -> Nat]
      <4>1. accepted' = accepted \/ accepted' = [accepted EXCEPT ![Work(h)] = @ + 1]
        BY <2>7 DEF Send
      <4>2. accepted[Work(h)] + 1 \in Nat
        OBVIOUS
      <4> QED
        BY <4>1, <4>2
    <3> QED
      BY <2>7, <3>1, <3>2, <3>3 DEF Send, store, jetstream
  <2>8. ASSUME NEW r \in [status : Statuses, retry : 0..(MaxAttempts - 1)],
               NEW l \in Locations, Update(h, r, l)
        PROVE  TypeOK'
    <3>1. pc' \in [Handlers -> Locations] /\ used' \in [FaultKinds -> Nat]
      BY <2>8, ReturnsType DEF Update
    <3> QED
      BY <2>8, <3>1 DEF Update, jetstream, history
  <2>9. CASE UpdateSucceeded(h) \/ UpdateDLQ(h)
    <3>1. /\ MarkSucceeded(local[h]) \in [status : Statuses, retry : 0..(MaxAttempts - 1)]
          /\ MarkDLQ(local[h]) \in [status : Statuses, retry : 0..(MaxAttempts - 1)]
          /\ {"okAttempt", "dlqPublish"} \subseteq Locations
      BY DEF MarkSucceeded, MarkDLQ, Statuses, Locations
    <3> QED
      BY <2>8, <2>9, <3>1 DEF UpdateSucceeded, UpdateDLQ
  <2>10. CASE UpdateRetrying(h)
    <3>1. local[h].retry + 1 \in 0..(MaxAttempts - 1)
      BY <2>10 DEF UpdateRetrying, CapInv
    <3>2. MarkRetrying(local[h]) = [status |-> "retrying", retry |-> local[h].retry + 1]
      BY DEF MarkRetrying
    <3>3. "retrying" \in Statuses /\ "retryAttempt" \in Locations
      BY DEF Statuses, Locations
    <3>4. MarkRetrying(local[h]) \in [status : Statuses, retry : 0..(MaxAttempts - 1)]
      BY <3>1, <3>2, <3>3
    <3>5. Update(h, MarkRetrying(local[h]), "retryAttempt")
      BY <2>10 DEF UpdateRetrying
    <3> QED
      BY ONLY <2>8, <3>3, <3>4, <3>5
  <2>11. CASE RecordSuccess(h) \/ RecordRetry(h) \/ RecordDLQ(h)
    <3>1. ASSUME NEW n \in Nat, NEW l \in Locations, RecordAttempt(h, n, l)
          PROVE  TypeOK'
      <4>1. pc' \in [Handlers -> Locations] /\ used' \in [FaultKinds -> Nat]
        BY <3>1, ReturnsType DEF RecordAttempt
      <4>2. Append(attempts[Work(h)], AttemptRow(n)) \in Seq(AttemptRows)
        BY DEF AttemptRow, AttemptRows
      <4>3. attempts' \in [Deliveries -> Seq(AttemptRows)]
        BY <3>1, <4>2 DEF RecordAttempt
      <4> QED
        BY <3>1, <4>1, <4>3 DEF RecordAttempt, jetstream, history
    <3>2. {"okAudit", "retryAudit", "dlqUpdate"} \subseteq Locations
      BY DEF Locations
    <3>3. local[h].retry \in Nat /\ local[h].retry + 1 \in Nat
      OBVIOUS
    <3> QED
      BY <2>11, <3>1, <3>2, <3>3 DEF RecordSuccess, RecordRetry, RecordDLQ
  <2>12. CASE AuditSucceeded(h) \/ AuditRetry(h) \/ AuditDLQ(h)
    <3>1. pc' \in [Handlers -> Locations] /\ used' \in [FaultKinds -> Nat]
      <4>1. {"ack", "nak"} \subseteq Locations /\ "store" \in FaultKinds
        BY DEF Locations, FaultKinds
      <4> QED
        BY <2>12, <4>1, ReturnsType, GotoType, SpendType
        DEF AuditSucceeded, AuditRetry, AuditDLQ, RetryResult
    <3>2. audit' \in [Deliveries -> SUBSET Events]
      <4>1. \A e \in Events : audit[Work(h)] \cup {e} \in SUBSET Events
        OBVIOUS
      <4>2. \/ audit' = audit
            \/ \E e \in Events : audit' = [audit EXCEPT ![Work(h)] = @ \cup {e}]
        BY <2>12 DEF AuditSucceeded, AuditRetry, AuditDLQ, AppendAudit, Events, store
      <4> QED
        BY <4>1, <4>2
    <3> QED
      BY <2>12, <3>1, <3>2 DEF AuditSucceeded, AuditRetry, AuditDLQ,
           AppendAudit, store, jetstream, history
  <2>13. CASE PublishDLQ(h)
    <3>1. "dlqAudit" \in Locations /\ "store" \in FaultKinds
      BY DEF Locations, FaultKinds
    <3>2. pc' \in [Handlers -> Locations] /\ used' \in [FaultKinds -> Nat]
      BY <2>13, <3>1, GotoType, SpendType DEF PublishDLQ
    <3> QED
      BY <2>13, <3>2 DEF PublishDLQ, store, jetstream, history
  <2> QED
    BY <1>5, <2>1, <2>2, <2>3, <2>4, <2>5, <2>6, <2>7, <2>8, <2>9, <2>10,
       <2>11, <2>12, <2>13 DEF Step
<1>6. CASE UNCHANGED vars
  BY <1>6 DEF vars
<1> QED
  BY <1>1, <1>2, <1>3, <1>4, <1>5, <1>6 DEF Next

\* Steps that touch neither rows nor copies: a handler stays where it is,
\* leaves the claim, or moves on inside it.
LEMMA ClaimQuiet ==
  ASSUME TypeOK, ClaimInv, UNCHANGED <<row, local>>,
         \A g \in Handlers :
           \/ pc'[g] \notin Claimed \cup {"claim"}
           \/ msg'[g] = msg[g] /\ pc'[g] = pc[g]
           \/ /\ msg'[g] = msg[g] /\ pc[g] \in Claimed /\ pc'[g] \in Claimed
              /\ pc'[g] = "retryUpdate" => local[g].retry + 1 < MaxAttempts
  PROVE  ClaimInv'
<1> DEFINE P(h) ==
      /\ pc[h] = "claim" => CanStartProcessing(local[h])
      /\ pc[h] \in Claimed => row[Work(h)] = local[h] /\ local[h].status = "processing"
      /\ pc[h] = "retryUpdate" => local[h].retry + 1 < MaxAttempts
<1>1. \A g \in Handlers : pc'[g] \in Claimed => pc[g] \in Claimed /\ Work(g)' = Work(g)
  BY DEF Work
<1>2. "claim" \notin Claimed /\ "retryUpdate" \in Claimed
  BY DEF Claimed
<1>3. ASSUME NEW h \in Handlers PROVE P(h)'
  BY <1>1, <1>2 DEF ClaimInv, CanStartProcessing
<1>4. ASSUME NEW h \in Handlers, NEW g \in Handlers,
             (pc[h] \in Claimed)', (pc[g] \in Claimed)', (Work(g) = Work(h))'
      PROVE  g = h
  BY <1>1, <1>4 DEF ClaimInv
<1> QED
  BY <1>3, <1>4 DEF ClaimInv

\* The claim is exclusive: UpdateIfStatus wins only on a claimable status, so
\* nobody else owns the delivery, and only the owner reaches an Update.
LEMMA ClaimStep == TypeOK /\ ClaimInv /\ [Next]_vars => ClaimInv'
<1> SUFFICES ASSUME TypeOK, ClaimInv, [Next]_vars PROVE ClaimInv'
  OBVIOUS
<1> DEFINE Quiet(g) ==
      \/ pc'[g] \notin Claimed \cup {"claim"}
      \/ msg'[g] = msg[g] /\ pc'[g] = pc[g]
      \/ /\ msg'[g] = msg[g] /\ pc[g] \in Claimed /\ pc'[g] \in Claimed
         /\ pc'[g] = "retryUpdate" => local[g].retry + 1 < MaxAttempts
<1>1. ASSUME NEW m \in Messages, Publish(m) PROVE ClaimInv'
  BY <1>1, ClaimQuiet DEF Publish, store
<1>2. ASSUME NEW h \in Handlers, StoreError(h) PROVE ClaimInv'
  <2>1. \A g \in Handlers : Quiet(g)
    BY <1>2 DEF StoreError, Goto, TypeOK, Claimed
  <2> QED
    BY <1>2, <2>1, ClaimQuiet DEF StoreError, store
<1>3. ASSUME NEW p \in Processes, Crash(p) PROVE ClaimInv'
  <2>1. \A g \in Handlers : Quiet(g)
    BY <1>3 DEF Crash, TypeOK, Claimed
  <2> QED
    BY <1>3, <2>1, ClaimQuiet DEF Crash, store
<1>4. ASSUME NEW c \in Durables, NEW m \in Messages, AckWait(c, m) PROVE ClaimInv'
  BY <1>4, ClaimQuiet DEF AckWait, store
<1>5. ASSUME NEW h \in Handlers, Step(h) PROVE ClaimInv'
  <2> Work(h) \in Deliveries /\ msg[h] \in Messages
    BY HandlerFacts
  <2>1. CASE Receive(h)
    <3>1. \A g \in Handlers : Quiet(g)
      BY <2>1 DEF Receive, Goto, TypeOK, Claimed
    <3> QED
      BY <2>1, <3>1, ClaimQuiet DEF Receive, store
  <2>2. CASE Ack(h) \/ Nak(h)
    <3>1. \A g \in Handlers : Quiet(g)
      BY <2>2 DEF Ack, Nak, Goto, TypeOK, Claimed
    <3> QED
      BY <2>2, <3>1, ClaimQuiet DEF Ack, Nak, store
  <2>3. CASE Admit(h) \/ Send(h)
    <3>1. /\ OnTransient(local[h]) \in Claimed
          /\ OnTransient(local[h]) = "retryUpdate" => local[h].retry + 1 < MaxAttempts
      BY HandlerFacts, DispatchAssumption DEF OnTransient, Claimed
    <3>2. /\ pc[h] \in Claimed /\ msg' = msg
          /\ \E l \in {"send", "okUpdate", "dlqAttempt", "dlqUpdate", OnTransient(local[h])} :
               pc' = [pc EXCEPT ![h] = l]
      BY <2>3 DEF Admit, Send, Goto, Claimed
    <3>3. \A g \in Handlers : Quiet(g)
      BY <3>1, <3>2 DEF TypeOK, Claimed
    <3> QED
      BY <2>3, <3>3, ClaimQuiet DEF Admit, Send, store
  <2>4. CASE RecordSuccess(h) \/ RecordRetry(h) \/ RecordDLQ(h)
    <3>1. \A g \in Handlers : Quiet(g)
      BY <2>4 DEF RecordSuccess, RecordRetry, RecordDLQ, RecordAttempt,
                  Returns, Goto, TypeOK, Claimed
    <3> QED
      BY <2>4, <3>1, ClaimQuiet DEF RecordSuccess, RecordRetry, RecordDLQ,
           RecordAttempt
  <2>5. CASE AuditSucceeded(h) \/ AuditRetry(h) \/ AuditDLQ(h) \/ PublishDLQ(h)
    <3>1. \A g \in Handlers : Quiet(g)
      BY <2>5 DEF AuditSucceeded, AuditRetry, RetryResult, AuditDLQ, PublishDLQ,
                  AppendAudit, Returns, Goto, TypeOK, Claimed
    <3> QED
      BY <2>5, <3>1, ClaimQuiet DEF AuditSucceeded, AuditRetry, AuditDLQ,
           PublishDLQ, AppendAudit, store
  <2>6. CASE FindByID(h)
    <3>1. pc'[h] \notin Claimed
          /\ (pc'[h] = "claim" => CanStartProcessing(local'[h]))
      BY <2>6 DEF FindByID, Entry, Goto, TypeOK, Claimed
    <3>2. \A g \in Handlers \ {h} : pc'[g] = pc[g] /\ local'[g] = local[g]
      BY <2>6 DEF FindByID, Goto, TypeOK
    <3>3. row' = row /\ \A g \in Handlers : Work(g)' = Work(g)
      BY <2>6 DEF FindByID, store, Work
    <3>4. "retryUpdate" \in Claimed
      BY DEF Claimed
    <3> QED
      BY <3>1, <3>2, <3>3, <3>4 DEF ClaimInv, CanStartProcessing
  <2>7. CASE UpdateIfStatus(h)
    <3>1. CASE Goto(h, "ack") /\ UNCHANGED <<row, local, used>>
      <4>1. \A g \in Handlers : Quiet(g)
        BY <2>7, <3>1 DEF UpdateIfStatus, Goto, TypeOK, Claimed
      <4> QED
        BY <3>1, <4>1, ClaimQuiet
    <3>2. CASE /\ StatusMatches(row[Work(h)], local[h])
               /\ row' = [row EXCEPT ![Work(h)] = StartProcessing(local[h])]
               /\ local' = [local EXCEPT ![h] = StartProcessing(@)]
               /\ Returns(h, "admit")
      <4>1. row[Work(h)].status # "processing"
        BY <2>7, <3>2 DEF UpdateIfStatus, StatusMatches, ClaimInv, CanStartProcessing
      <4>2. \A g \in Handlers \ {h} :
              /\ pc'[g] = pc[g] /\ local'[g] = local[g]
              /\ pc[g] \in Claimed => Work(g) # Work(h)
        BY <3>2, <4>1 DEF ClaimInv, Returns, Goto, TypeOK
      <4>3. \A g \in Handlers : Work(g)' = Work(g) /\ Work(g) \in Deliveries
        BY <2>7, HandlerFacts DEF UpdateIfStatus, Work
      <4>4. /\ pc'[h] \in {"admit", "nak"}
            /\ local'[h] = StartProcessing(local[h])
            /\ row'[Work(h)] = local'[h]
            /\ local'[h].status = "processing"
        BY <3>2 DEF Returns, Goto, TypeOK, StartProcessing
      <4>5. \A g \in Handlers \ {h} : pc[g] \in Claimed => row'[Work(g)] = row[Work(g)]
        BY <3>2, <4>2, <4>3 DEF TypeOK
      <4>6. pc'[h] # "claim" /\ pc'[h] # "retryUpdate"
        BY <4>4
      <4>7. "retryUpdate" \in Claimed
        BY DEF Claimed
      <4> QED
        BY <4>2, <4>3, <4>4, <4>5, <4>6, <4>7 DEF ClaimInv, CanStartProcessing
    <3> QED
      BY <2>7, <3>1, <3>2 DEF UpdateIfStatus
  <2>8. ASSUME NEW r, NEW l \in Locations \ (Claimed \cup {"claim"}),
               pc[h] \in Claimed, Update(h, r, l)
        PROVE  ClaimInv'
    <3>1. pc'[h] \notin Claimed \cup {"claim"}
      BY <2>8 DEF Update, Returns, Goto, TypeOK, Claimed
    <3>2. \A g \in Handlers \ {h} : pc'[g] = pc[g] /\ local'[g] = local[g]
      BY <2>8 DEF Update, Returns, Goto, TypeOK
    <3>3. \A g \in Handlers : Work(g)' = Work(g) /\ Work(g) \in Deliveries
      BY <2>8, HandlerFacts DEF Update, Work
    <3>4. \A g \in Handlers \ {h} : pc[g] \in Claimed => row'[Work(g)] = row[Work(g)]
      BY <2>8, <3>3 DEF Update, ClaimInv, TypeOK
    <3>5. "retryUpdate" \in Claimed
      BY DEF Claimed
    <3> QED
      BY <3>1, <3>2, <3>3, <3>4, <3>5 DEF ClaimInv, CanStartProcessing
  <2>9. CASE UpdateSucceeded(h) \/ UpdateRetrying(h) \/ UpdateDLQ(h)
    <3>1. {"okUpdate", "retryUpdate", "dlqUpdate"} \subseteq Claimed
          /\ {"okAttempt", "retryAttempt", "dlqPublish"}
               \subseteq Locations \ (Claimed \cup {"claim"})
      BY DEF Claimed, Locations
    <3> QED
      BY <2>8, <2>9, <3>1 DEF UpdateSucceeded, UpdateRetrying, UpdateDLQ
  <2> QED
    BY <1>5, <2>1, <2>2, <2>3, <2>4, <2>5, <2>6, <2>7, <2>9 DEF Step
<1>6. CASE UNCHANGED vars
  BY <1>6, ClaimQuiet DEF vars
<1> QED
  BY <1>1, <1>2, <1>3, <1>4, <1>5, <1>6 DEF Next

\* The same for the history of sends.
LEMMA SentQuiet ==
  ASSUME TypeOK, SentInv, UNCHANGED <<row, accepted>>,
         \A g \in Handlers :
           \/ pc'[g] \notin Claimed
           \/ msg'[g] = msg[g] /\ pc'[g] = pc[g]
           \/ /\ msg'[g] = msg[g]
              /\ pc[g] \in Claimed \ {"okUpdate"} /\ pc'[g] \in Claimed \ {"okUpdate"}
  PROVE  SentInv'
<1>1. "okUpdate" \in Claimed
  BY DEF Claimed
<1> QED
  BY <1>1 DEF SentInv, Work

\* A provider accepts a delivery only for its owner, and an accepted delivery
\* leaves "processing" only for "succeeded".
LEMMA SentStep == IInv /\ [Next]_vars => SentInv'
<1> SUFFICES ASSUME TypeOK, ClaimInv, SentInv, [Next]_vars PROVE SentInv'
  BY DEF IInv
<1> DEFINE Quiet(g) ==
      \/ pc'[g] \notin Claimed
      \/ msg'[g] = msg[g] /\ pc'[g] = pc[g]
      \/ /\ msg'[g] = msg[g]
         /\ pc[g] \in Claimed \ {"okUpdate"} /\ pc'[g] \in Claimed \ {"okUpdate"}
<1>1. ASSUME NEW m \in Messages, Publish(m) PROVE SentInv'
  BY <1>1, SentQuiet DEF Publish, store, history
<1>2. ASSUME NEW h \in Handlers, StoreError(h) PROVE SentInv'
  <2>1. \A g \in Handlers : Quiet(g)
    BY <1>2 DEF StoreError, Goto, TypeOK, Claimed
  <2> QED
    BY <1>2, <2>1, SentQuiet DEF StoreError, store, history
<1>3. ASSUME NEW p \in Processes, Crash(p) PROVE SentInv'
  <2>1. \A g \in Handlers : Quiet(g)
    BY <1>3 DEF Crash, TypeOK, Claimed
  <2> QED
    BY <1>3, <2>1, SentQuiet DEF Crash, store, history
<1>4. ASSUME NEW c \in Durables, NEW m \in Messages, AckWait(c, m) PROVE SentInv'
  BY <1>4, SentQuiet DEF AckWait, store, history
<1>5. ASSUME NEW h \in Handlers, Step(h) PROVE SentInv'
  <2> Work(h) \in Deliveries /\ msg[h] \in Messages
    BY HandlerFacts
  <2>1. CASE Receive(h)
    <3>1. \A g \in Handlers : Quiet(g)
      BY <2>1 DEF Receive, Goto, TypeOK, Claimed
    <3> QED
      BY <2>1, <3>1, SentQuiet DEF Receive, store, history
  <2>2. CASE Ack(h) \/ Nak(h)
    <3>1. \A g \in Handlers : Quiet(g)
      BY <2>2 DEF Ack, Nak, Goto, TypeOK, Claimed
    <3> QED
      BY <2>2, <3>1, SentQuiet DEF Ack, Nak, store, history
  <2>3. CASE FindByID(h)
    <3>1. \A g \in Handlers : Quiet(g)
      BY <2>3 DEF FindByID, Entry, Goto, TypeOK, Claimed
    <3> QED
      BY <2>3, <3>1, SentQuiet DEF FindByID, store, history
  <2>4. CASE Admit(h)
    <3>1. \A g \in Handlers : Quiet(g)
      BY <2>4 DEF Admit, OnTransient, Goto, TypeOK, Claimed
    <3> QED
      BY <2>4, <3>1, SentQuiet DEF Admit, store, history
  <2>5. CASE RecordSuccess(h) \/ RecordRetry(h) \/ RecordDLQ(h)
    <3>1. \A g \in Handlers : Quiet(g)
      BY <2>5 DEF RecordSuccess, RecordRetry, RecordDLQ, RecordAttempt,
                  Returns, Goto, TypeOK, Claimed
    <3> QED
      BY <2>5, <3>1, SentQuiet DEF RecordSuccess, RecordRetry, RecordDLQ,
           RecordAttempt, history
  <2>6. CASE AuditSucceeded(h) \/ AuditRetry(h) \/ AuditDLQ(h) \/ PublishDLQ(h)
    <3>1. \A g \in Handlers : Quiet(g)
      BY <2>6 DEF AuditSucceeded, AuditRetry, RetryResult, AuditDLQ, PublishDLQ,
                  AppendAudit, Returns, Goto, TypeOK, Claimed
    <3> QED
      BY <2>6, <3>1, SentQuiet DEF AuditSucceeded, AuditRetry, AuditDLQ,
           PublishDLQ, AppendAudit, store, history
  <2>7. CASE UpdateIfStatus(h)
    <3>1. CASE Goto(h, "ack") /\ UNCHANGED <<row, local, used>>
      <4>1. \A g \in Handlers : Quiet(g)
        BY <2>7, <3>1 DEF UpdateIfStatus, Goto, TypeOK, Claimed
      <4> QED
        BY <2>7, <3>1, <4>1, SentQuiet DEF UpdateIfStatus, history
    <3>2. CASE /\ StatusMatches(row[Work(h)], local[h])
               /\ row' = [row EXCEPT ![Work(h)] = StartProcessing(local[h])]
               /\ local' = [local EXCEPT ![h] = StartProcessing(@)]
               /\ Returns(h, "admit")
      <4>1. accepted[Work(h)] = 0
        BY <2>7, <3>2 DEF UpdateIfStatus, StatusMatches, ClaimInv, SentInv,
                          CanStartProcessing
      <4>2. accepted' = accepted /\ msg' = msg
        BY <2>7 DEF UpdateIfStatus, history
      <4>3. row'[Work(h)].status = "processing"
            /\ \A d \in Deliveries \ {Work(h)} : row'[d] = row[d]
        BY <3>2, HandlerFacts DEF TypeOK, StartProcessing
      <4>4. \A g \in Handlers \ {h} : pc'[g] = pc[g]
        BY <3>2 DEF Returns, Goto, TypeOK
      <4>5. pc'[h] # "okUpdate"
        BY <3>2 DEF Returns, Goto, TypeOK
      <4> QED
        BY <4>1, <4>2, <4>3, <4>4, <4>5 DEF SentInv, Work
    <3> QED
      BY <2>7, <3>1, <3>2 DEF UpdateIfStatus
  <2>8. CASE Send(h)
    <3>1. pc[h] \in Claimed \ {"okUpdate"} /\ accepted[Work(h)] = 0
      BY <2>8 DEF Send, SentInv, Claimed
    <3>2. /\ row' = row /\ msg' = msg
          /\ \A g \in Handlers \ {h} : pc'[g] = pc[g]
      BY <2>8 DEF Send, Goto, store, TypeOK
    <3>3. row[Work(h)].status = "processing"
      BY <3>1 DEF ClaimInv
    <3>4. \A g \in Handlers \ {h} : pc[g] \in Claimed => Work(g) # Work(h)
      BY <3>1 DEF ClaimInv
    <3>5. \A g \in Handlers : Work(g) \in Deliveries
      BY HandlerFacts
    <3>6. CASE accepted' = accepted /\ pc'[h] # "okUpdate"
      BY <3>1, <3>2, <3>6 DEF SentInv, Work
    <3>7. CASE /\ accepted' = [accepted EXCEPT ![Work(h)] = @ + 1]
               /\ Goto(h, "okUpdate")
      <4>1. /\ accepted'[Work(h)] = 1
            /\ \A d \in Deliveries \ {Work(h)} : accepted'[d] = accepted[d]
        BY <3>1, <3>7 DEF TypeOK
      <4>2. pc'[h] = "okUpdate"
        BY <3>7 DEF Goto, TypeOK
      <4>3. "okUpdate" \in Claimed
        BY DEF Claimed
      <4> QED
        BY <3>2, <3>3, <3>4, <3>5, <4>1, <4>2, <4>3 DEF SentInv, Work
    <3>8. \/ accepted' = accepted /\ pc'[h] # "okUpdate"
          \/ accepted' = [accepted EXCEPT ![Work(h)] = @ + 1] /\ Goto(h, "okUpdate")
      BY <2>8 DEF Send, OnTransient, Goto, TypeOK
    <3> QED
      BY <3>6, <3>7, <3>8
  <2>9. CASE UpdateSucceeded(h) \/ UpdateRetrying(h) \/ UpdateDLQ(h)
    <3>1. PICK r \in [status : {"succeeded", "retrying", "dlq"}, retry : Nat] :
            /\ row' = [row EXCEPT ![Work(h)] = r]
            /\ r.status = "succeeded" <=> pc[h] = "okUpdate"
      <4>1. /\ MarkSucceeded(local[h]) = [status |-> "succeeded", retry |-> local[h].retry]
            /\ MarkDLQ(local[h]) = [status |-> "dlq", retry |-> local[h].retry]
            /\ local[h].retry \in Nat /\ local[h].retry + 1 \in Nat
        BY HandlerFacts, DispatchAssumption DEF MarkSucceeded, MarkDLQ
      <4> QED
        BY <2>9, <4>1 DEF UpdateSucceeded, UpdateRetrying, UpdateDLQ, Update,
                          MarkRetrying
    <3>2. pc[h] \in Claimed /\ accepted' = accepted /\ msg' = msg
      BY <2>9 DEF UpdateSucceeded, UpdateRetrying, UpdateDLQ, Update, history, Claimed
    <3>3. pc'[h] \notin Claimed /\ \A g \in Handlers \ {h} : pc'[g] = pc[g]
      BY <2>9 DEF UpdateSucceeded, UpdateRetrying, UpdateDLQ, Update, Returns,
                  Goto, TypeOK, Claimed
    <3>4. row'[Work(h)].status = r.status
          /\ \A d \in Deliveries \ {Work(h)} : row'[d] = row[d]
      BY <3>1 DEF TypeOK
    <3>5. accepted[Work(h)] = IF r.status = "succeeded" THEN 1 ELSE 0
      BY <3>1, <3>2 DEF SentInv
    <3>6. "okUpdate" \in Claimed
      BY DEF Claimed
    <3> QED
      BY <3>1, <3>2, <3>3, <3>4, <3>5, <3>6 DEF SentInv, Work
  <2> QED
    BY <1>5, <2>1, <2>2, <2>3, <2>4, <2>5, <2>6, <2>7, <2>8, <2>9 DEF Step
<1>6. CASE UNCHANGED vars
  BY <1>6, SentQuiet DEF vars
<1> QED
  BY <1>1, <1>2, <1>3, <1>4, <1>5, <1>6 DEF Next

\* The three parts together are inductive.
LEMMA Inductive == Spec => []IInv
<1>1. Init => IInv
  <2> SUFFICES ASSUME Init PROVE IInv
    OBVIOUS
  <2>1. TypeOK
    BY TypeInit
  <2>2. ClaimInv /\ SentInv
    BY DEF Init, ClaimInv, SentInv, Claimed, Queue, NewRow
  <2> QED
    BY <2>1, <2>2 DEF IInv
<1>2. IInv /\ [Next]_vars => IInv'
  <2>1. IInv => TypeOK /\ CapInv /\ ClaimInv /\ SentInv
    BY DEF IInv, CapInv, ClaimInv
  <2> QED
    BY <2>1, TypeStep, ClaimStep, SentStep DEF IInv
<1> QED
  BY <1>1, <1>2, PTL DEF Spec

\* Type correctness of the worker, with retry_count below the cap.
THEOREM TypeCorrect == Spec => []TypeOK
  BY Inductive, PTL DEF IInv

\* The compare-and-swap of UpdateIfStatus is a lock on the delivery.
THEOREM ExclusiveClaim == Spec => []ClaimExclusive
<1>1. IInv => ClaimExclusive
  BY DEF IInv, ClaimInv, ClaimExclusive
<1> QED
  BY <1>1, Inductive, PTL

\* No delivery is accepted by a provider twice.
THEOREM EffectivelyOnceHolds == Spec => []EffectivelyOnce
<1>1. IInv => EffectivelyOnce
  BY DEF IInv, SentInv, EffectivelyOnce
<1> QED
  BY <1>1, Inductive, PTL

\* The status of a delivery agrees with what its provider accepted.
THEOREM OutcomeAgreement == Spec => []OutcomeAgrees
<1>1. IInv => OutcomeAgrees
  BY DEF IInv, SentInv, OutcomeAgrees
<1> QED
  BY <1>1, Inductive, PTL

\* Recorded attempts stay recorded.
LEMMA AttemptsGrow ==
  ASSUME TypeOK, [Next]_vars
  PROVE  /\ \A d \in Deliveries : attempts[d] # <<>> => attempts'[d] # <<>>
         /\ attempts' = attempts
            \/ \E h \in Handlers : RecordSuccess(h) \/ RecordRetry(h) \/ RecordDLQ(h)
<1>1. ASSUME NEW h \in Handlers, NEW n \in Nat, NEW l, RecordAttempt(h, n, l), NEW d \in Deliveries
      PROVE  attempts[d] # <<>> => attempts'[d] # <<>>
  <2>1. \/ attempts'[d] = attempts[d]
        \/ attempts'[d] = Append(attempts[d], AttemptRow(n))
    BY <1>1 DEF RecordAttempt, TypeOK
  <2>2. attempts[d] \in Seq(AttemptRows) /\ AttemptRow(n) \in AttemptRows
    BY DEF TypeOK, AttemptRow, AttemptRows
  <2>3. Append(attempts[d], AttemptRow(n)) # <<>>
    BY <2>2
  <2> QED
    BY <2>1, <2>3
<1>2. ASSUME NEW h \in Handlers, RecordSuccess(h) \/ RecordRetry(h) \/ RecordDLQ(h),
             NEW d \in Deliveries
      PROVE  attempts[d] # <<>> => attempts'[d] # <<>>
  <2>1. local[h].retry \in Nat /\ local[h].retry + 1 \in Nat
    BY HandlerFacts, DispatchAssumption
  <2> QED
    BY <1>1, <1>2, <2>1 DEF RecordSuccess, RecordRetry, RecordDLQ
<1>3. ASSUME NEW h \in Handlers, Step(h),
             ~(RecordSuccess(h) \/ RecordRetry(h) \/ RecordDLQ(h))
      PROVE  attempts' = attempts
  BY <1>3 DEF Step, Receive, Ack, Nak, FindByID, UpdateIfStatus, Admit, Send,
       UpdateSucceeded, UpdateRetrying, UpdateDLQ, Update, AuditSucceeded,
       AuditRetry, AuditDLQ, AppendAudit, PublishDLQ, store
<1>4. (\E h \in Handlers : Step(h)) \/ attempts' = attempts
  BY DEF Next, Publish, StoreError, Crash, AckWait, store, vars
<1> QED
  BY <1>2, <1>3, <1>4

\* Only UpdateDLQ writes `dlq`, and only Admit of an unrouted channel reaches it
\* without RecordDLQ.
LEMMA AttemptStep == TypeOK /\ ClaimInv /\ AttemptInv /\ [Next]_vars => AttemptInv'
<1> SUFFICES ASSUME TypeOK, ClaimInv, AttemptInv, [Next]_vars PROVE AttemptInv'
  OBVIOUS
<1>1. \A d \in Deliveries : attempts[d] # <<>> => attempts'[d] # <<>>
  BY AttemptsGrow
<1>2. \A h \in Handlers : Work(h) \in Deliveries
  BY HandlerFacts
\* A handler arrives at dlqUpdate.
<1>3. ASSUME NEW h \in Handlers, pc'[h] = "dlqUpdate", Work(h)' \notin Unrouted
      PROVE  attempts'[Work(h)'] # <<>>
  <2> DEFINE Goal == \/ pc[h] = "dlqUpdate" /\ msg'[h] = msg[h]
                     \/ RecordDLQ(h)
  <2>1. ASSUME NEW g \in Handlers, Step(g) PROVE Goal
    <3>1. CASE Receive(g) \/ Ack(g) \/ Nak(g) \/ FindByID(g)
      BY <1>3, <3>1 DEF Receive, Ack, Nak, FindByID, Entry, Goto, TypeOK
    <3>2. CASE UpdateIfStatus(g)
      BY <1>3, <3>2 DEF UpdateIfStatus, Returns, Goto, TypeOK
    <3>3. CASE Admit(g) \/ Send(g)
      BY <1>3, <3>3 DEF Admit, Send, OnTransient, Goto, TypeOK, Work
    <3>4. CASE UpdateSucceeded(g) \/ UpdateRetrying(g) \/ UpdateDLQ(g)
      BY <1>3, <3>4 DEF UpdateSucceeded, UpdateRetrying, UpdateDLQ, Update, Returns,
           Goto, TypeOK
    <3>5. CASE RecordSuccess(g) \/ RecordRetry(g) \/ RecordDLQ(g)
      BY <1>3, <3>5 DEF RecordSuccess, RecordRetry, RecordDLQ, RecordAttempt, Returns,
           Goto, TypeOK
    <3>6. CASE AuditSucceeded(g) \/ AuditRetry(g) \/ AuditDLQ(g) \/ PublishDLQ(g)
      BY <1>3, <3>6 DEF AuditSucceeded, AuditRetry, AuditDLQ, PublishDLQ, AppendAudit,
           RetryResult, Returns, Goto, TypeOK
    <3> QED
      BY <2>1, <3>1, <3>2, <3>3, <3>4, <3>5, <3>6 DEF Step
  <2>2. ASSUME NEW g \in Handlers, StoreError(g) PROVE Goal
    BY <1>3, <2>2 DEF StoreError, Goto, TypeOK
  <2>3. ASSUME NEW p \in Processes, Crash(p) PROVE Goal
    BY <1>3, <2>3 DEF Crash, TypeOK
  <2>4. Goal
    BY <1>3, <2>1, <2>2, <2>3 DEF Next, Publish, AckWait, vars
  <2>5. CASE pc[h] = "dlqUpdate" /\ msg'[h] = msg[h]
    BY <1>1, <1>2, <1>3, <2>5 DEF AttemptInv, Work
  <2>6. CASE RecordDLQ(h)
    <3>1. Work(h)' = Work(h)
      BY <2>6 DEF RecordDLQ, RecordAttempt, Work
    <3>2. attempts'[Work(h)] = Append(attempts[Work(h)], AttemptRow(local[h].retry + 1))
      BY <1>2, <2>6 DEF RecordDLQ, RecordAttempt, TypeOK
    <3>3. attempts[Work(h)] \in Seq(AttemptRows)
      BY <1>2 DEF TypeOK
    <3> QED
      BY <3>1, <3>2, <3>3
  <2> QED
    BY <2>4, <2>5, <2>6
\* A row becomes `dlq`.
<1>4. ASSUME NEW d \in Deliveries \ Unrouted, row'[d].status = "dlq"
      PROVE  attempts'[d] # <<>>
  <2>1. CASE row[d].status = "dlq"
    BY <1>1, <2>1 DEF AttemptInv, DLQHasAttempt
  <2>2. CASE \E h \in Handlers : pc[h] = "dlqUpdate" /\ d = Work(h)
    BY <1>1, <2>2 DEF AttemptInv
  <2>3. ASSUME NEW h \in Handlers, UpdateIfStatus(h) PROVE row'[d] = row[d]
    BY <1>4, <2>3, HandlerFacts DEF UpdateIfStatus, StartProcessing, TypeOK
  <2>4. ASSUME NEW h \in Handlers, UpdateSucceeded(h) \/ UpdateRetrying(h)
        PROVE  row'[d] = row[d]
    BY <1>4, <2>4, HandlerFacts DEF UpdateSucceeded, UpdateRetrying, Update,
         MarkSucceeded, MarkRetrying, TypeOK
  <2>5. ASSUME NEW h \in Handlers, UpdateDLQ(h)
        PROVE  row'[d] = row[d] \/ (pc[h] = "dlqUpdate" /\ d = Work(h))
    <3>1. pc[h] = "dlqUpdate" /\ row' = [row EXCEPT ![Work(h)] = MarkDLQ(local[h])]
      BY <2>5 DEF UpdateDLQ, Update
    <3>2. d # Work(h) => row'[d] = row[d]
      BY <3>1 DEF TypeOK
    <3> QED
      BY <3>1, <3>2
  <2>6. \/ row' = row
        \/ \E h \in Handlers : UpdateIfStatus(h) \/ UpdateSucceeded(h)
                               \/ UpdateRetrying(h) \/ UpdateDLQ(h)
    BY DEF Next, Step, Publish, StoreError, Crash, AckWait, Receive, Ack, Nak, FindByID,
         Admit, Send, RecordSuccess, RecordRetry, RecordDLQ, RecordAttempt,
         AuditSucceeded, AuditRetry, AuditDLQ, AppendAudit, PublishDLQ, store, vars
  <2> QED
    BY <1>4, <2>1, <2>2, <2>3, <2>4, <2>5, <2>6
<1> QED
  BY <1>3, <1>4 DEF AttemptInv, DLQHasAttempt

\* A delivery in `dlq` whose channel has a provider has an attempt on record.
THEOREM DeadLetterHasAttempt == Spec => []DLQHasAttempt
<1>1. Init => AttemptInv
  BY DEF Init, AttemptInv, DLQHasAttempt, Queue, NewRow
<1>2. IInv /\ AttemptInv /\ [Next]_vars => AttemptInv'
  BY AttemptStep DEF IInv
<1>3. AttemptInv => DLQHasAttempt
  BY DEF AttemptInv
<1> QED
  BY <1>1, <1>2, <1>3, Inductive, PTL DEF Spec

\* Faults are only ever counted up.
LEMMA FaultsGrow ==
  ASSUME TypeOK, [Next]_vars, NEW k \in FaultKinds
  PROVE  /\ used[k] \in Nat /\ used'[k] \in Nat /\ used[k] <= used'[k]
         /\ Spend(k) => used'[k] > 0
<1>1. UNCHANGED used \/ \E j \in FaultKinds : used' = [used EXCEPT ![j] = @ + 1]
  <2>1. {"crash", "store", "ackwait"} \subseteq FaultKinds
    BY DEF FaultKinds
  <2>2. ASSUME NEW h \in Handlers, Step(h) PROVE <1>1
    BY <2>1, <2>2 DEF Step, Receive, Ack, Nak, FindByID, UpdateIfStatus, Admit, Send,
         UpdateSucceeded, UpdateRetrying, UpdateDLQ, Update, RecordSuccess, RecordRetry,
         RecordDLQ, RecordAttempt, AuditSucceeded, AuditRetry, AuditDLQ, AppendAudit,
         PublishDLQ, Returns, Spend
  <2> QED
    BY <2>1, <2>2 DEF Next, Publish, StoreError, Crash, AckWait, vars, Spend
<1>2. used \in [FaultKinds -> Nat]
  BY DEF TypeOK
<1>3. used[k] \in Nat /\ used'[k] \in Nat /\ used[k] <= used'[k]
  <2>1. CASE UNCHANGED used
    BY <1>2, <2>1
  <2>2. ASSUME NEW j \in FaultKinds, used' = [used EXCEPT ![j] = @ + 1]
        PROVE  used[k] \in Nat /\ used'[k] \in Nat /\ used[k] <= used'[k]
    BY <1>2, <2>2
  <2> QED
    BY <1>1, <2>1, <2>2
<1>4. ASSUME Spend(k) PROVE used'[k] > 0
  BY <1>2, <1>4 DEF Spend
<1> QED
  BY <1>3, <1>4

\* A claimant keeps its claim, closes it with an Update, or loses it to a fault.
LEMMA ClaimantMoves ==
  ASSUME TypeOK, [Next]_vars, NEW h \in Handlers, pc[h] \in Claimed
  PROVE  \/ pc'[h] \in Claimed /\ msg'[h] = msg[h]
         \/ Spend("store") \/ Spend("crash")
         \/ UpdateSucceeded(h) \/ UpdateRetrying(h) \/ UpdateDLQ(h)
<1> DEFINE Goal == \/ pc'[h] \in Claimed /\ msg'[h] = msg[h]
                   \/ Spend("store") \/ Spend("crash")
                   \/ UpdateSucceeded(h) \/ UpdateRetrying(h) \/ UpdateDLQ(h)
<1>1. ASSUME NEW g \in Handlers, Step(g) PROVE Goal
  <2>1. CASE Receive(g) \/ Ack(g) \/ Nak(g) \/ FindByID(g)
    BY <2>1 DEF Receive, Ack, Nak, FindByID, Goto, TypeOK, Claimed
  <2>2. CASE UpdateIfStatus(g)
    BY <2>2 DEF UpdateIfStatus, Returns, Goto, TypeOK, Claimed
  <2>3. CASE Admit(g) \/ Send(g)
    BY <2>3 DEF Admit, Send, OnTransient, Goto, TypeOK, Claimed
  <2>4. CASE UpdateSucceeded(g) \/ UpdateRetrying(g) \/ UpdateDLQ(g)
    BY <2>4 DEF UpdateSucceeded, UpdateRetrying, UpdateDLQ, Update, Returns, Goto, TypeOK
  <2>5. CASE RecordSuccess(g) \/ RecordRetry(g) \/ RecordDLQ(g)
    BY <2>5 DEF RecordSuccess, RecordRetry, RecordDLQ, RecordAttempt, Returns, Goto,
         TypeOK, Claimed
  <2>6. CASE AuditSucceeded(g) \/ AuditRetry(g) \/ AuditDLQ(g) \/ PublishDLQ(g)
    BY <2>6 DEF AuditSucceeded, AuditRetry, AuditDLQ, PublishDLQ, AppendAudit,
         Returns, Goto, TypeOK, Claimed
  <2> QED
    BY <1>1, <2>1, <2>2, <2>3, <2>4, <2>5, <2>6 DEF Step
<1>2. ASSUME NEW g \in Handlers, StoreError(g) PROVE Goal
  BY <1>2 DEF StoreError
<1>3. ASSUME NEW p \in Processes, Crash(p) PROVE Goal
  BY <1>3 DEF Crash
<1> QED
  BY <1>1, <1>2, <1>3 DEF Next, Publish, AckWait, vars

\* A row becomes `processing` only by a claim, and while the claimant lives and
\* its calls succeed it closes it.
LEMMA OrphanStep == TypeOK /\ ClaimInv /\ OrphanHasCause /\ [Next]_vars => OrphanHasCause'
<1> SUFFICES ASSUME TypeOK, ClaimInv, OrphanHasCause, [Next]_vars,
                    NEW d \in Deliveries, row'[d].status = "processing",
                    ~(used'["crash"] + used'["store"] > 0)
             PROVE  \E h \in Handlers : pc'[h] \in Claimed /\ Work(h)' = d
  BY DEF OrphanHasCause
<1>1. "crash" \in FaultKinds /\ "store" \in FaultKinds
  BY DEF FaultKinds
<1>2. ~Spend("crash") /\ ~Spend("store") /\ ~(used["crash"] + used["store"] > 0)
  <2>1. used'["crash"] \in Nat /\ used'["store"] \in Nat
        /\ used["crash"] \in Nat /\ used["store"] \in Nat
        /\ used["crash"] <= used'["crash"] /\ used["store"] <= used'["store"]
    BY <1>1, FaultsGrow
  <2>2. used'["crash"] = 0 /\ used'["store"] = 0
    BY <2>1
  <2>3. ~Spend("crash") /\ ~Spend("store")
    BY <1>1, <2>2, FaultsGrow
  <2> QED
    BY <2>1, <2>2, <2>3
<1>3. CASE row[d].status = "processing"
  <2>1. PICK h \in Handlers : pc[h] \in Claimed /\ Work(h) = d
    BY <1>2, <1>3 DEF OrphanHasCause
  <2>2. ~(UpdateSucceeded(h) \/ UpdateRetrying(h) \/ UpdateDLQ(h))
    <3>1. /\ MarkSucceeded(local[h]).status = "succeeded"
          /\ MarkRetrying(local[h]).status = "retrying"
          /\ MarkDLQ(local[h]).status = "dlq"
      BY HandlerFacts DEF MarkSucceeded, MarkRetrying, MarkDLQ
    <3>2. ASSUME NEW r, row' = [row EXCEPT ![Work(h)] = r] PROVE row'[d] = r
      BY <2>1, <3>2 DEF TypeOK
    <3> QED
      BY <3>1, <3>2 DEF UpdateSucceeded, UpdateRetrying, UpdateDLQ, Update
  <2>3. pc'[h] \in Claimed /\ msg'[h] = msg[h]
    BY <1>2, <2>1, <2>2, ClaimantMoves
  <2> QED
    BY <2>1, <2>3 DEF Work
<1>4. CASE row[d].status # "processing"
  <2>1. PICK h \in Handlers : UpdateIfStatus(h) /\ d = Work(h) /\ row' # row
    <3>1. ASSUME NEW h \in Handlers, NEW r, row' = [row EXCEPT ![Work(h)] = r],
                 r.status # "processing"
          PROVE  FALSE
      BY <1>4, <3>1 DEF TypeOK
    <3>2. ASSUME NEW h \in Handlers
          PROVE  ~(UpdateSucceeded(h) \/ UpdateRetrying(h) \/ UpdateDLQ(h))
      <4>1. /\ MarkSucceeded(local[h]).status = "succeeded"
            /\ MarkRetrying(local[h]).status = "retrying"
            /\ MarkDLQ(local[h]).status = "dlq"
        BY HandlerFacts DEF MarkSucceeded, MarkRetrying, MarkDLQ
      <4> QED
        BY <3>1, <4>1 DEF UpdateSucceeded, UpdateRetrying, UpdateDLQ, Update
    <3>3. row' # row
      BY <1>4
    <3>4. PICK h \in Handlers : UpdateIfStatus(h)
      BY <3>2, <3>3 DEF Next, Step, Publish, StoreError, Crash, AckWait, Receive, Ack,
           Nak, FindByID, Admit, Send, RecordSuccess, RecordRetry, RecordDLQ,
           RecordAttempt, AuditSucceeded, AuditRetry, AuditDLQ, AppendAudit, PublishDLQ,
           store, vars
    <3>5. d = Work(h)
      BY <1>4, <3>4 DEF UpdateIfStatus, TypeOK
    <3> QED
      BY <3>3, <3>4, <3>5
  <2>2. pc'[h] = "admit" /\ msg'[h] = msg[h]
    BY <1>2, <2>1 DEF UpdateIfStatus, Returns, Goto, TypeOK
  <2> QED
    BY <2>1, <2>2 DEF Work, Claimed
<1> QED
  BY <1>3, <1>4

\* A delivery is left in `processing` only by a crash or a failed store call.
THEOREM OrphansAreExplained == Spec => []OrphanHasCause
<1>1. Init => OrphanHasCause
  BY DEF Init, OrphanHasCause, Queue, NewRow
<1>2. IInv /\ OrphanHasCause /\ [Next]_vars => OrphanHasCause'
  BY OrphanStep DEF IInv
<1> QED
  BY <1>1, <1>2, Inductive, PTL DEF Spec

\* Who writes a row: the winner of a claim, or the claimant that closes it.
LEMMA RowMoves ==
  ASSUME TypeOK, ClaimInv, [Next]_vars, NEW d \in Deliveries, row'[d] # row[d]
  PROVE  /\ row[d].status \in {"queued", "retrying", "processing"}
         /\ \E h \in Handlers :
              /\ Work(h) = d /\ pc[h] # "idle" /\ msg' = msg
              /\ stream' = stream /\ acked' = acked
              /\ pc'[h] \in {"admit", "nak", "okAttempt", "retryAttempt", "dlqPublish"}
<1>1. PICK h \in Handlers : UpdateIfStatus(h) \/ UpdateSucceeded(h)
                            \/ UpdateRetrying(h) \/ UpdateDLQ(h)
  BY DEF Next, Step, Publish, StoreError, Crash, AckWait, Receive, Ack, Nak, FindByID,
       Admit, Send, RecordSuccess, RecordRetry, RecordDLQ, RecordAttempt,
       AuditSucceeded, AuditRetry, AuditDLQ, AppendAudit, PublishDLQ, store, vars
<1>2. \E r : row' = [row EXCEPT ![Work(h)] = r]
  BY <1>1 DEF UpdateIfStatus, UpdateSucceeded, UpdateRetrying, UpdateDLQ, Update
<1>3. Work(h) = d
  BY <1>2 DEF TypeOK
<1>4. CASE UpdateIfStatus(h)
  <2>1. StatusMatches(row[d], local[h]) /\ Returns(h, "admit") /\ pc[h] = "claim"
    BY <1>3, <1>4 DEF UpdateIfStatus
  <2>2. row[d].status \in {"queued", "retrying", "processing"}
    BY <2>1 DEF StatusMatches, ClaimInv, CanStartProcessing
  <2>3. pc'[h] \in {"admit", "nak"}
    BY <2>1 DEF Returns, Goto, TypeOK
  <2>4. msg' = msg /\ stream' = stream /\ acked' = acked
    BY <1>4 DEF UpdateIfStatus, jetstream
  <2> QED
    BY <1>3, <2>1, <2>2, <2>3, <2>4
<1>5. CASE UpdateSucceeded(h) \/ UpdateRetrying(h) \/ UpdateDLQ(h)
  <2>1. pc[h] \in Claimed
    BY <1>5 DEF UpdateSucceeded, UpdateRetrying, UpdateDLQ, Claimed
  <2>2. row[d].status \in {"queued", "retrying", "processing"} /\ pc[h] # "idle"
    BY <1>3, <2>1 DEF ClaimInv, Claimed
  <2>3. pc'[h] \in {"nak", "okAttempt", "retryAttempt", "dlqPublish"}
    BY <1>5 DEF UpdateSucceeded, UpdateRetrying, UpdateDLQ, Update, Returns, Goto, TypeOK
  <2>4. msg' = msg /\ stream' = stream /\ acked' = acked
    BY <1>5 DEF UpdateSucceeded, UpdateRetrying, UpdateDLQ, Update, jetstream
  <2> QED
    BY <1>3, <2>2, <2>3, <2>4
<1> QED
  BY <1>1, <1>4, <1>5

\* What another handler leaves to a handler.
LEMMA OthersStep ==
  ASSUME TypeOK, NEW h \in Handlers, NEW g \in Handlers \ {h}, Step(g)
  PROVE  UNCHANGED <<pc[h], msg[h], local[h]>>
<1>1. CASE Receive(g) \/ Ack(g) \/ Nak(g) \/ FindByID(g)
  BY <1>1 DEF Receive, Ack, Nak, FindByID, Goto, TypeOK
<1>2. CASE UpdateIfStatus(g) \/ Admit(g) \/ Send(g)
  BY <1>2 DEF UpdateIfStatus, Admit, Send, Returns, Goto, TypeOK
<1>3. CASE UpdateSucceeded(g) \/ UpdateRetrying(g) \/ UpdateDLQ(g)
  BY <1>3 DEF UpdateSucceeded, UpdateRetrying, UpdateDLQ, Update, Returns, Goto, TypeOK
<1>4. CASE RecordSuccess(g) \/ RecordRetry(g) \/ RecordDLQ(g)
  BY <1>4 DEF RecordSuccess, RecordRetry, RecordDLQ, RecordAttempt, Returns, Goto, TypeOK
<1>5. CASE AuditSucceeded(g) \/ AuditRetry(g) \/ AuditDLQ(g) \/ PublishDLQ(g)
  BY <1>5 DEF AuditSucceeded, AuditRetry, AuditDLQ, PublishDLQ, AppendAudit, Returns,
       Goto, TypeOK
<1> QED
  BY <1>1, <1>2, <1>3, <1>4, <1>5 DEF Step

\* What any step leaves to a handler: a crash may stop it.
LEMMA Undisturbed ==
  ASSUME TypeOK, NEW h \in Handlers, [Next]_vars
  PROVE  \/ UNCHANGED <<pc[h], msg[h], local[h]>>
         \/ pc'[h] = "idle"
         \/ Step(h) \/ StoreError(h)
<1> DEFINE Goal == UNCHANGED <<pc[h], msg[h], local[h]>>
<1>1. ASSUME NEW g \in Handlers \ {h}, Step(g) PROVE Goal
  BY <1>1, OthersStep
<1>2. ASSUME NEW g \in Handlers \ {h}, StoreError(g) PROVE Goal
  BY <1>2 DEF StoreError, Goto, TypeOK
<1>3. ASSUME NEW p \in Processes, Crash(p) PROVE Goal \/ pc'[h] = "idle"
  BY <1>3 DEF Crash, TypeOK
<1> QED
  BY <1>1, <1>2, <1>3 DEF Next, Publish, AckWait, vars

\* A handler is on the retry path only below the cap.
LEMMA CapStep == TypeOK /\ CapInv /\ [Next]_vars => CapInv'
<1> SUFFICES ASSUME TypeOK, CapInv, [Next]_vars, NEW h \in Handlers,
                    pc'[h] = "retryUpdate"
             PROVE  local'[h].retry + 1 < MaxAttempts
  BY DEF CapInv
<1>1. CASE UNCHANGED <<pc[h], msg[h], local[h]>>
  BY <1>1 DEF CapInv
<1>2. CASE Admit(h) \/ Send(h)
  <2>1. pc'[h] \in {"dlqUpdate", "send", "okUpdate", "dlqAttempt", OnTransient(local[h])}
        /\ local' = local
    BY <1>2 DEF Admit, Send, Goto, TypeOK
  <2>2. OnTransient(local[h]) = "retryUpdate"
    BY <2>1
  <2>3. ~(local[h].retry + 1 >= MaxAttempts)
    BY <2>2 DEF OnTransient
  <2>4. local[h].retry \in Nat
    BY HandlerFacts
  <2> QED
    BY <2>1, <2>3, <2>4, DispatchAssumption
<1>3. CASE Step(h)
  <2>1. ~(Receive(h) \/ Ack(h) \/ Nak(h) \/ FindByID(h) \/ UpdateIfStatus(h))
    BY DEF Receive, Ack, Nak, FindByID, Entry, UpdateIfStatus, Returns, Goto, TypeOK
  <2>2. ~(UpdateSucceeded(h) \/ UpdateRetrying(h) \/ UpdateDLQ(h))
    BY DEF UpdateSucceeded, UpdateRetrying, UpdateDLQ, Update, Returns, Goto, TypeOK
  <2>3. ~(RecordSuccess(h) \/ RecordRetry(h) \/ RecordDLQ(h))
    BY DEF RecordSuccess, RecordRetry, RecordDLQ, RecordAttempt, Returns, Goto, TypeOK
  <2>4. ~(AuditSucceeded(h) \/ AuditRetry(h) \/ AuditDLQ(h) \/ PublishDLQ(h))
    BY DEF AuditSucceeded, AuditRetry, RetryResult, AuditDLQ, PublishDLQ, Returns, Goto,
         TypeOK
  <2> QED
    BY <1>2, <1>3, <2>1, <2>2, <2>3, <2>4 DEF Step
<1>4. ~StoreError(h)
  BY DEF StoreError, Goto, TypeOK
<1> QED
  BY <1>1, <1>3, <1>4, Undisturbed

\* The steps that publish, receive and acknowledge.
LEMMA StreamMoves ==
  ASSUME TypeOK, [Next]_vars
  PROVE  /\ stream \subseteq stream'
         /\ acked' = acked \/ \E h \in Handlers : Ack(h)
         /\ \A h \in Handlers : Step(h) => Receive(h) \/ msg' = msg
         /\ \A m \in stream' : m \in stream \/ Publish(m)
<1>1. stream' = stream \/ \E m \in Messages : Publish(m)
  BY DEF Next, Step, StoreError, Crash, AckWait, Receive, Ack, Nak, FindByID,
       UpdateIfStatus, Admit, Send, UpdateSucceeded, UpdateRetrying, UpdateDLQ, Update,
       RecordSuccess, RecordRetry, RecordDLQ, RecordAttempt, AuditSucceeded, AuditRetry,
       AuditDLQ, AppendAudit, PublishDLQ, jetstream, vars
<1>2. acked' = acked \/ \E h \in Handlers : Ack(h)
  BY DEF Next, Step, Publish, StoreError, Crash, AckWait, Receive, Nak, FindByID,
       UpdateIfStatus, Admit, Send, UpdateSucceeded, UpdateRetrying, UpdateDLQ, Update,
       RecordSuccess, RecordRetry, RecordDLQ, RecordAttempt, AuditSucceeded, AuditRetry,
       AuditDLQ, AppendAudit, PublishDLQ, jetstream, vars
<1>3. \A h \in Handlers : Step(h) => Receive(h) \/ msg' = msg
  BY DEF Step, Ack, Nak, FindByID, UpdateIfStatus, Admit, Send, UpdateSucceeded,
       UpdateRetrying, UpdateDLQ, Update, RecordSuccess, RecordRetry, RecordDLQ,
       RecordAttempt, AuditSucceeded, AuditRetry, AuditDLQ, AppendAudit, PublishDLQ
<1> QED
  BY <1>1, <1>2, <1>3 DEF Publish

\* A durable with one process: only the handler of a message acknowledges it.
LEMMA HoldStep ==
  ASSUME \A p, q \in Processes : p = q
  PROVE  TypeOK /\ HoldInv /\ [Next]_vars => HoldInv'
<1> SUFFICES ASSUME TypeOK, HoldInv, [Next]_vars PROVE HoldInv'
  OBVIOUS
<1>1. \A h, g \in Handlers : Durable(h) = Durable(g) => h = g
  BY DEF Handlers, Durable
<1>2. ASSUME NEW c \in Durables PROVE acked'[c] \subseteq stream'
  <2>1. CASE acked' = acked
    BY <2>1, StreamMoves DEF HoldInv
  <2>2. ASSUME NEW h \in Handlers, Ack(h) PROVE acked'[c] \subseteq stream'
    <3>1. msg[h] \in stream
      BY <2>2 DEF Ack, HoldInv
    <3>2. acked'[c] \subseteq acked[c] \cup {msg[h]}
      BY <2>2 DEF Ack, TypeOK
    <3> QED
      BY <3>1, <3>2, StreamMoves DEF HoldInv
  <2> QED
    BY <2>1, <2>2, StreamMoves
<1>3. ASSUME NEW h \in Handlers, pc'[h] # "idle"
      PROVE  msg'[h] \in stream' /\ msg'[h] \notin acked'[Durable(h)]
  <2>0. Durable(h) \in Durables /\ msg[h] \in Messages
    BY HandlerFacts
  <2>1. CASE Receive(h)
    <3>1. PICK m \in Deliverable(Durable(h)) : msg' = [msg EXCEPT ![h] = m]
      BY <2>1 DEF Receive
    <3>2. msg'[h] \in stream /\ msg'[h] \notin acked[Durable(h)]
      BY <3>1 DEF Deliverable, TypeOK
    <3> QED
      BY <2>1, <3>2 DEF Receive
  <2>2. CASE ~Receive(h)
    <3>1. pc[h] # "idle" /\ msg'[h] = msg[h] /\ ~Ack(h)
      <4>1. CASE UNCHANGED <<pc[h], msg[h], local[h]>>
        BY <1>3, <4>1 DEF Ack, Goto, TypeOK
      <4>2. CASE Step(h)
        <5>1. msg' = msg
          BY <2>2, <4>2, StreamMoves
        <5>2. pc[h] # "idle"
          BY <2>2, <4>2 DEF Step, Ack, Nak, FindByID, UpdateIfStatus, Admit, Send,
               UpdateSucceeded, UpdateRetrying, UpdateDLQ, RecordSuccess, RecordRetry,
               RecordDLQ, AuditSucceeded, AuditRetry, AuditDLQ, PublishDLQ
        <5>3. ~Ack(h)
          BY <1>3 DEF Ack, Goto, TypeOK
        <5> QED
          BY <5>1, <5>2, <5>3
      <4>3. CASE StoreError(h)
        BY <4>3 DEF StoreError, StoreCalls, Ack
      <4> QED
        BY <1>3, <4>1, <4>2, <4>3, Undisturbed
    <3>2. acked'[Durable(h)] = acked[Durable(h)]
      <4>1. ASSUME NEW g \in Handlers, Ack(g) PROVE acked'[Durable(h)] = acked[Durable(h)]
        <5>1. Durable(g) # Durable(h)
          BY <1>1, <3>1, <4>1
        <5> QED
          BY <4>1, <5>1 DEF Ack, TypeOK
      <4> QED
        BY <4>1, StreamMoves
    <3> QED
      BY <3>1, <3>2, StreamMoves DEF HoldInv
  <2> QED
    BY <2>1, <2>2
<1> QED
  BY <1>2, <1>3 DEF HoldInv

\* A settled row stays settled, and Dispatch goes past okUpdate and dlqUpdate
\* only when it is.
LEMMA ClosedStep == TypeOK /\ ClaimInv /\ ClosedInv /\ [Next]_vars => ClosedInv'
<1> SUFFICES ASSUME TypeOK, ClaimInv, ClosedInv, [Next]_vars, NEW h \in Handlers,
                    pc'[h] \in {"okAttempt", "okAudit", "dlqPublish", "dlqAudit"}
             PROVE  Settled(row'[Work(h)'])
  BY DEF ClosedInv
<1>1. Work(h) \in Deliveries
  BY HandlerFacts
<1>2. \A d \in Deliveries : Settled(row[d]) => Settled(row'[d])
  BY RowMoves DEF Settled
<1>3. CASE pc[h] \in {"okAttempt", "okAudit", "dlqPublish", "dlqAudit"} /\ msg'[h] = msg[h]
  BY <1>1, <1>2, <1>3 DEF ClosedInv, Work
<1>4. CASE UpdateSucceeded(h) \/ UpdateDLQ(h)
  <2>1. Settled(MarkSucceeded(local[h])) /\ Settled(MarkDLQ(local[h]))
    BY HandlerFacts DEF MarkSucceeded, MarkDLQ, Settled
  <2>2. row'[Work(h)] \in {MarkSucceeded(local[h]), MarkDLQ(local[h])} /\ Work(h)' = Work(h)
    BY <1>1, <1>4 DEF UpdateSucceeded, UpdateDLQ, Update, Work, TypeOK
  <2> QED
    BY <2>1, <2>2
<1>5. CASE Step(h)
  <2>1. ~(Receive(h) \/ Ack(h) \/ Nak(h) \/ FindByID(h))
    BY DEF Receive, Ack, Nak, FindByID, Entry, Goto, TypeOK
  <2>2. ~(UpdateIfStatus(h) \/ Admit(h) \/ Send(h) \/ UpdateRetrying(h))
    BY DEF UpdateIfStatus, Admit, Send, OnTransient, UpdateRetrying, Update, Returns,
         Goto, TypeOK
  <2>3. CASE RecordSuccess(h) \/ RecordRetry(h) \/ RecordDLQ(h)
    BY <1>3, <2>3 DEF RecordSuccess, RecordRetry, RecordDLQ, RecordAttempt, Returns,
         Goto, TypeOK
  <2>4. CASE AuditSucceeded(h) \/ AuditRetry(h) \/ AuditDLQ(h) \/ PublishDLQ(h)
    BY <1>3, <2>4 DEF AuditSucceeded, AuditRetry, RetryResult, AuditDLQ, PublishDLQ,
         AppendAudit, Returns, Goto, TypeOK
  <2> QED
    BY <1>4, <1>5, <2>1, <2>2, <2>3, <2>4 DEF Step
<1>6. ~StoreError(h)
  BY DEF StoreError, Goto, TypeOK
<1> QED
  BY <1>3, <1>5, <1>6, Undisturbed

\* A copy that is owed stays owed while the row does not change: its handler
\* acknowledges only a settled delivery or a claim lost to another status.
LEMMA OwedKept ==
  ASSUME TypeOK, ClosedInv, [Next]_vars, NEW d \in Deliveries, NEW c \in Durables,
         NEW n \in stream, Owed(d, c, n), row'[d] = row[d], ~Settled(row[d])
  PROVE  Owed(d, c, n)'
<1>1. n \in stream' /\ n[1] = d
  BY StreamMoves DEF Owed
<1>2. n \notin acked'[c]
  <2>1. ASSUME NEW h \in Handlers, Ack(h) PROVE n \notin acked'[c]
    <3>1. Durable(h) = c => msg[h] # n
      BY <2>1 DEF Ack, Owed
    <3> QED
      BY <2>1, <3>1 DEF Ack, Owed, TypeOK
  <2> QED
    BY <2>1, StreamMoves DEF Owed
<1>3. ASSUME NEW h \in Handlers, Durable(h) = c, msg'[h] = n, pc'[h] # "idle"
      PROVE  pc'[h] # "ack" /\ (pc'[h] = "claim" => local'[h].status = row'[d].status)
  <2> DEFINE Goal == pc'[h] # "ack" /\ (pc'[h] = "claim" => local'[h].status = row'[d].status)
  <2>1. CASE UNCHANGED <<pc[h], msg[h], local[h]>>
    BY <1>3, <2>1 DEF Owed
  <2>2. CASE StoreError(h)
    BY <2>2 DEF StoreError, Goto, TypeOK
  <2>3. CASE Receive(h)
    BY <2>3 DEF Receive, Goto, TypeOK
  <2>4. CASE Step(h) /\ ~Receive(h)
    <3>1. msg[h] = n /\ Work(h) = d
      BY <1>1, <1>3, <2>4, StreamMoves DEF Work
    <3>2. CASE Ack(h) \/ Nak(h)
      BY <1>3, <3>2 DEF Ack, Nak, Goto, TypeOK
    <3>3. CASE FindByID(h)
      <4>1. Entry(row[d]) # "ack" BY DEF Entry
      <4>2. pc'[h] = Entry(row[d]) /\ local'[h] = row[d]
        BY <3>1, <3>3 DEF FindByID, Goto, TypeOK
      <4> QED
        BY <4>1, <4>2
    <3>4. CASE UpdateIfStatus(h)
      <4>1. StatusMatches(row[d], local[h])
        BY <1>3, <3>1, <3>4 DEF UpdateIfStatus, StatusMatches, Owed
      <4>2. Returns(h, "admit")
        BY <3>1, <3>4, <4>1 DEF UpdateIfStatus
      <4> QED
        BY <4>2 DEF Returns, Goto, TypeOK
    <3>5. CASE Admit(h) \/ Send(h)
      BY <3>5 DEF Admit, Send, OnTransient, Goto, TypeOK
    <3>6. CASE UpdateSucceeded(h) \/ UpdateRetrying(h) \/ UpdateDLQ(h)
      BY <3>6 DEF UpdateSucceeded, UpdateRetrying, UpdateDLQ, Update, Returns, Goto, TypeOK
    <3>7. CASE RecordSuccess(h) \/ RecordRetry(h) \/ RecordDLQ(h)
      BY <3>7 DEF RecordSuccess, RecordRetry, RecordDLQ, RecordAttempt, Returns, Goto, TypeOK
    <3>8. CASE AuditRetry(h) \/ PublishDLQ(h)
      BY <3>8 DEF AuditRetry, RetryResult, PublishDLQ, Goto, TypeOK
    <3>9. ~(AuditSucceeded(h) \/ AuditDLQ(h))
      BY <3>1 DEF AuditSucceeded, AuditDLQ, ClosedInv
    <3> QED
      BY <2>4, <3>2, <3>3, <3>4, <3>5, <3>6, <3>7, <3>8, <3>9 DEF Step
  <2> QED
    BY <1>3, <2>1, <2>2, <2>3, <2>4, Undisturbed
<1> QED
  BY <1>1, <1>2, <1>3 DEF Owed, Durable

\* Who changes the row owes its copy; a fresh message is owed by every durable.
LEMMA OwedStep ==
  ASSUME \A p, q \in Processes : p = q, Durables # {}
  PROVE  TypeOK /\ ClaimInv /\ HoldInv /\ ClosedInv /\ OwedInv /\ [Next]_vars => OwedInv'
<1> SUFFICES ASSUME TypeOK, ClaimInv, HoldInv, ClosedInv, OwedInv, [Next]_vars,
                    NEW d \in Deliveries, ~Settled(row'[d]),
                    NEW m \in stream', m[1] = d
             PROVE  \E c \in Durables, n \in stream' : Owed(d, c, n)'
  BY DEF OwedInv
<1>1. \A h, g \in Handlers : Durable(h) = Durable(g) => h = g
  BY DEF Handlers, Durable
<1>2. CASE row'[d] # row[d]
  <2>1. PICK h \in Handlers :
          /\ Work(h) = d /\ pc[h] # "idle" /\ msg' = msg
          /\ stream' = stream /\ acked' = acked
          /\ pc'[h] \in {"admit", "nak", "okAttempt", "retryAttempt", "dlqPublish"}
    BY <1>2, RowMoves
  <2>2. msg[h] \in stream' /\ msg[h] \notin acked'[Durable(h)] /\ Durable(h) \in Durables
    BY <2>1, HandlerFacts DEF HoldInv
  <2>3. \A g \in Handlers : Durable(g) = Durable(h) => pc'[g] \notin {"ack", "claim"}
    BY <1>1, <2>1
  <2>4. msg[h][1] = d
    BY <2>1 DEF Work
  <2>5. ASSUME NEW c \in Durables, c = Durable(h), NEW n \in stream', n = msg[h]
        PROVE  Owed(d, c, n)'
    BY <2>2, <2>3, <2>4, <2>5 DEF Owed, Durable
  <2> QED
    BY <2>2, <2>5
<1>3. CASE row'[d] = row[d] /\ \E m2 \in stream : m2[1] = d
  <2>1. PICK c \in Durables, n \in stream : Owed(d, c, n)
    BY <1>3 DEF OwedInv
  <2>2. Owed(d, c, n)'
    BY <1>3, <2>1, OwedKept
  <2> QED
    BY <2>1, <2>2, StreamMoves
<1>4. CASE row'[d] = row[d] /\ ~\E m2 \in stream : m2[1] = d
  <2>1. m \notin stream /\ Publish(m)
    BY <1>4, StreamMoves
  <2>2. PICK c \in Durables : TRUE
    OBVIOUS
  <2>3. m \notin acked'[c] /\ pc' = pc /\ msg' = msg
    BY <2>1 DEF Publish, HoldInv
  <2>4. \A h \in Handlers : pc[h] # "idle" => msg[h] # m
    BY <2>1 DEF HoldInv
  <2>5. Owed(d, c, m)'
    BY <2>3, <2>4 DEF Owed, Durable
  <2> QED
    BY <2>5
<1> QED
  BY <1>2, <1>3, <1>4

\* With one container, whatever it loses, repeats or forgets in a crash: while
\* a published delivery is not settled, some durable has not acknowledged it.
THEOREM NobodyAbandons ==
  ASSUME \A p, q \in Processes : p = q, Durables # {}
  PROVE  Spec => []NotAbandoned
<1> DEFINE J == HoldInv /\ ClosedInv /\ OwedInv
<1>1. Init => J
  BY DEF Init, HoldInv, ClosedInv, OwedInv
<1>2. IInv /\ J /\ [Next]_vars => J'
  BY HoldStep, ClosedStep, OwedStep DEF IInv
<1>3. J => NotAbandoned
  BY DEF OwedInv, Owed, NotAbandoned
<1> QED
  BY <1>1, <1>2, <1>3, Inductive, PTL DEF Spec

\* Every step of the worker is a step of the life cycle of one delivery, or
\* leaves every status and every send as it is.
LEMMA LifecycleStep ==
  IInv /\ [Next]_vars
    => [DeliveryLifecycle!Next]_<<[d \in Deliveries |-> row[d].status], accepted>>
<1> SUFFICES ASSUME TypeOK, ClaimInv, SentInv, [Next]_vars
             PROVE  [DeliveryLifecycle!Next]_<<[d \in Deliveries |-> row[d].status], accepted>>
  BY DEF IInv
<1> DEFINE st == [d \in Deliveries |-> row[d].status]
<1>1. ASSUME UNCHANGED <<row, accepted>>
      PROVE  UNCHANGED <<st, accepted>>
  BY <1>1
<1>2. ASSUME NEW m \in Messages, Publish(m) PROVE UNCHANGED <<row, accepted>>
  BY <1>2 DEF Publish, store, history
<1>3. ASSUME NEW h \in Handlers, StoreError(h) PROVE UNCHANGED <<row, accepted>>
  BY <1>3 DEF StoreError, store, history
<1>4. ASSUME NEW p \in Processes, Crash(p) PROVE UNCHANGED <<row, accepted>>
  BY <1>4 DEF Crash, store, history
<1>5. ASSUME NEW c \in Durables, NEW m \in Messages, AckWait(c, m)
      PROVE  UNCHANGED <<row, accepted>>
  BY <1>5 DEF AckWait, store, history
<1>6. ASSUME NEW d \in Deliveries, NEW r,
             row' = [row EXCEPT ![d] = r]
      PROVE  st' = [st EXCEPT ![d] = r.status]
  BY <1>6 DEF TypeOK
<1>7. ASSUME NEW h \in Handlers, Step(h)
      PROVE  DeliveryLifecycle!Next \/ UNCHANGED <<row, accepted>>
  <2>0. PICK e \in Deliveries : e = Work(h)
    BY HandlerFacts
  <2> Work(h) \in Deliveries
    BY HandlerFacts
  <2>1. CASE UpdateIfStatus(h)
    <3>1. CASE UNCHANGED row
      BY <2>1, <3>1 DEF UpdateIfStatus, history
    <3>2. CASE /\ StatusMatches(row[Work(h)], local[h])
               /\ row' = [row EXCEPT ![Work(h)] = StartProcessing(local[h])]
      <4>1. st[Work(h)] \in {"queued", "retrying"}
        BY <2>1, <3>2 DEF UpdateIfStatus, StatusMatches, ClaimInv, CanStartProcessing
      <4>2. st' = [st EXCEPT ![Work(h)] = "processing"]
        <5>1. StartProcessing(local[h]).status = "processing"
          BY HandlerFacts DEF StartProcessing
        <5> QED
          BY <1>6, <3>2, <5>1
      <4>3. accepted' = accepted
        BY <2>1 DEF UpdateIfStatus, history
      <4>4. DeliveryLifecycle!Claim(e)
        BY <2>0, <4>1, <4>2, <4>3 DEF DeliveryLifecycle!Claim
      <4> QED
        BY <4>4 DEF DeliveryLifecycle!Next
    <3> QED
      BY <2>1, <3>1, <3>2 DEF UpdateIfStatus
  <2>2. CASE Send(h)
    <3>1. pc[h] \in Claimed \ {"okUpdate"}
      BY <2>2 DEF Send, Claimed
    <3>2. accepted[Work(h)] = 0 /\ st[Work(h)] = "processing"
      BY <3>1 DEF SentInv, ClaimInv
    <3>3. CASE accepted' = accepted
      BY <2>2, <3>3 DEF Send, store
    <3>4. CASE accepted' = [accepted EXCEPT ![Work(h)] = @ + 1]
      <4>1. accepted' = [accepted EXCEPT ![Work(h)] = 1]
        BY <3>2, <3>4 DEF TypeOK
      <4>2. st' = st
        BY <2>2 DEF Send, store
      <4>3. DeliveryLifecycle!Accept(e)
        BY <2>0, <3>2, <4>1, <4>2 DEF DeliveryLifecycle!Accept
      <4> QED
        BY <4>3 DEF DeliveryLifecycle!Next
    <3> QED
      BY <2>2, <3>3, <3>4 DEF Send
  <2>3. CASE UpdateSucceeded(h)
    <3>1. pc[h] = "okUpdate" /\ pc[h] \in Claimed
      BY <2>3 DEF UpdateSucceeded, Claimed
    <3>2. accepted[Work(h)] = 1 /\ st[Work(h)] = "processing"
      BY <3>1 DEF SentInv, ClaimInv
    <3>3. MarkSucceeded(local[h]).status = "succeeded"
      BY HandlerFacts DEF MarkSucceeded
    <3>4. st' = [st EXCEPT ![Work(h)] = "succeeded"] /\ accepted' = accepted
      BY <1>6, <2>3, <3>3 DEF UpdateSucceeded, Update, history
    <3>5. DeliveryLifecycle!Finish(e)
      BY <2>0, <3>2, <3>4 DEF DeliveryLifecycle!Finish
    <3> QED
      BY <3>5 DEF DeliveryLifecycle!Next
  <2>4. CASE UpdateRetrying(h) \/ UpdateDLQ(h)
    <3>1. pc[h] \in Claimed \ {"okUpdate"}
      BY <2>4 DEF UpdateRetrying, UpdateDLQ, Claimed
    <3>2. accepted[Work(h)] = 0 /\ st[Work(h)] = "processing"
      BY <3>1 DEF SentInv, ClaimInv
    <3>3. /\ MarkRetrying(local[h]).status = "retrying"
          /\ MarkDLQ(local[h]).status = "dlq"
      BY HandlerFacts DEF MarkRetrying, MarkDLQ
    <3>4. \E s \in {"retrying", "dlq"} : st' = [st EXCEPT ![Work(h)] = s]
      <4>1. \/ row' = [row EXCEPT ![Work(h)] = MarkRetrying(local[h])]
            \/ row' = [row EXCEPT ![Work(h)] = MarkDLQ(local[h])]
        BY <2>4 DEF UpdateRetrying, UpdateDLQ, Update
      <4>2. \/ st' = [st EXCEPT ![Work(h)] = MarkRetrying(local[h]).status]
            \/ st' = [st EXCEPT ![Work(h)] = MarkDLQ(local[h]).status]
        BY <1>6, <4>1
      <4> QED
        BY ONLY <3>3, <4>2
    <3>5. accepted' = accepted
      BY <2>4 DEF UpdateRetrying, UpdateDLQ, Update, history
    <3>6. DeliveryLifecycle!GiveUp(e)
      BY <2>0, <3>2, <3>4, <3>5 DEF DeliveryLifecycle!GiveUp
    <3> QED
      BY <3>6 DEF DeliveryLifecycle!Next
  <2>5. CASE Receive(h) \/ Ack(h) \/ Nak(h) \/ FindByID(h) \/ Admit(h) \/ PublishDLQ(h)
    BY <2>5 DEF Receive, Ack, Nak, FindByID, Admit, PublishDLQ, store, history
  <2>6. CASE RecordSuccess(h) \/ RecordRetry(h) \/ RecordDLQ(h)
    BY <2>6 DEF RecordSuccess, RecordRetry, RecordDLQ, RecordAttempt, history
  <2>7. CASE AuditSucceeded(h) \/ AuditRetry(h) \/ AuditDLQ(h)
    BY <2>7 DEF AuditSucceeded, AuditRetry, AuditDLQ, AppendAudit, store, history
  <2> QED
    BY <1>7, <2>1, <2>2, <2>3, <2>4, <2>5, <2>6, <2>7 DEF Step
<1>8. CASE UNCHANGED vars
  BY <1>1, <1>8 DEF vars
<1> QED
  BY <1>1, <1>2, <1>3, <1>4, <1>5, <1>7, <1>8 DEF Next

\* The worker implements the abstract life cycle of a delivery.
THEOREM Refinement == Spec => ImplementsLifecycle
<1>1. Init => DeliveryLifecycle!Init
  BY DEF Init, DeliveryLifecycle!Init, Queue, NewRow
<1> QED
  BY <1>1, LifecycleStep, Inductive, PTL
  DEF Spec, ImplementsLifecycle, DeliveryLifecycle!Spec

-----------------------------------------------------------------------------
(* Replay.                                                                 *)

\* The request's copy is not stale: nobody has touched the row since FindByID.
FreshInv == \A o \in Callers : rpc[o] = "update" => CanReplay(row[target[o]])

\* The inductive invariant: that of the worker, which a replay does not disturb.
ReplayInv == ReplayTypeOK /\ ClaimInv /\ SentInv /\ FreshInv

NoFault == \A k \in FaultKinds : used[k] = 0

\* Without faults a durable counts only what is published, and what a handler
\* holds is pending and held by nobody else.
BrokerInv ==
  /\ \A c \in Durables :
       /\ pending[c] \subseteq stream /\ acked[c] \subseteq stream
       /\ \A m \in Messages \ stream : delivered[c][m] = 0
  /\ \A h \in Handlers : pc[h] # "idle" =>
       /\ msg[h] \in pending[Durable(h)]
       /\ \A g \in Handlers \ {h} :
            pc[g] # "idle" /\ Durable(g) = Durable(h) => msg[g] # msg[h]

\* A copy of d that will be claimed as long as the row is queued: the durable
\* has not handed it out yet, or its handler has not compared the status yet.
Reaches(h) == pc[h] = "find" \/ (pc[h] = "claim" /\ local[h].status = "queued")
Offer(d, c, m) ==
  /\ m \in stream /\ m[1] = d /\ m \notin acked[c]
  /\ \/ m \notin pending[c] /\ delivered[c][m] = 0
     \/ \E h \in Handlers : Durable(h) = c /\ msg[h] = m /\ Reaches(h)

Requeued(d) ==
  /\ row[d].status = "queued" /\ \E m \in stream : m[1] = d
  /\ \A o \in Callers : ~(rpc[o] = "publish" /\ target[o] = d)
OfferInv ==
  \A d \in Deliveries : Requeued(d) => \E c \in Durables, m \in stream : Offer(d, c, m)

\* The inductive invariant for any number of callers.
OfferedInv == ReplayTypeOK /\ CapInv /\ (NoFault => BrokerInv /\ OfferInv)

\* The steps of a request that write no row.
LEMMA RequestQuiet ==
  ASSUME ReplayInv, UNCHANGED <<row, local, pc, msg, accepted>>
  PROVE  ClaimInv' /\ SentInv'
<1>1. TypeOK /\ ClaimInv /\ SentInv
  BY DEF ReplayInv, ReplayTypeOK
<1> QED
  BY <1>1, ClaimQuiet, SentQuiet

\* A request's answer keeps the request and the fault counts well typed.
LEMMA AnswersType ==
  ASSUME ReplayTypeOK, NEW o \in Callers,
         NEW l \in {"idle", "update", "publish", "audit"}, Answers(o, l)
  PROVE  /\ rpc' \in [Callers -> {"idle", "update", "publish", "audit"}]
         /\ used' \in [FaultKinds -> Nat]
<1>1. TypeOK /\ "store" \in FaultKinds
  BY DEF ReplayTypeOK, FaultKinds
<1>2. used' \in [FaultKinds -> Nat]
  BY <1>1, SpendType DEF Answers, TypeOK
<1> QED
  BY <1>2 DEF Answers, ReplayTypeOK

\* The steps of the worker: its own lemmas, and no worker writes a dead letter.
LEMMA WorkerStep == ReplayInv /\ [Next]_vars /\ UNCHANGED rvars => ReplayInv'
<1> SUFFICES ASSUME ReplayInv, [Next]_vars, UNCHANGED rvars PROVE ReplayInv'
  OBVIOUS
<1>1. TypeOK /\ ClaimInv /\ SentInv /\ IInv
  BY DEF ReplayInv, ReplayTypeOK, IInv
<1>2. TypeOK' /\ ClaimInv' /\ SentInv'
  <2>1. CapInv
    BY <1>1 DEF CapInv, ClaimInv
  <2> QED
    BY <1>1, <2>1, TypeStep, ClaimStep, SentStep
<1>3. ReplayTypeOK'
  BY <1>2 DEF ReplayInv, ReplayTypeOK, rvars
<1>4. \A d \in Deliveries : CanReplay(row[d]) => row'[d] = row[d]
  BY <1>1, RowMoves DEF CanReplay
<1>5. FreshInv'
  BY <1>4 DEF ReplayInv, FreshInv, ReplayTypeOK, CanReplay, rvars
<1> QED
  BY <1>2, <1>3, <1>5 DEF ReplayInv

\* What each step of a request leaves alone, and its type.
LEMMA RequestType ==
  ASSUME ReplayTypeOK, NEW o \in Callers, ReplayStep(o) \/ ReplayStops(o)
  PROVE  /\ ReplayTypeOK'
         /\ UNCHANGED <<local, pc, msg, accepted, delivered, pending, acked>>
<1>0. TypeOK /\ target[o] \in Deliveries
  BY DEF ReplayTypeOK
<1>1. ASSUME NEW d \in Deliveries, ReplayFind(o, d) PROVE ReplayTypeOK' /\ UNCHANGED vars
  <2>1. TypeOK' /\ UNCHANGED vars
    BY <1>0, <1>1 DEF ReplayFind, vars, TypeOK
  <2> QED
    BY <1>1, <2>1, ReplayAssumption DEF ReplayFind, ReplayTypeOK
<1>2. CASE ReplayUpdate(o)
  <2>1. /\ rpc' \in [Callers -> {"idle", "update", "publish", "audit"}]
        /\ used' \in [FaultKinds -> Nat]
    BY <1>2, AnswersType DEF ReplayUpdate
  <2>2. ReplayedRow \in [status : Statuses, retry : 0..(MaxAttempts - 1)]
    BY DispatchAssumption DEF ReplayedRow, Replay, Statuses
  <2>3. TypeOK'
    BY <1>0, <1>2, <2>1, <2>2 DEF ReplayUpdate, TypeOK, jetstream, history
  <2> QED
    BY <1>2, <2>1, <2>3 DEF ReplayUpdate, ReplayTypeOK, jetstream, history
<1>3. CASE ReplayPublish(o)
  <2>1. stream' \subseteq Messages
    BY <1>0, <1>3 DEF ReplayPublish, TypeOK, Messages
  <2>2. /\ rpc' \in [Callers -> {"idle", "update", "publish", "audit"}]
        /\ used' \in [FaultKinds -> Nat]
    BY <1>3, AnswersType DEF ReplayPublish
  <2>3. TypeOK'
    BY <1>0, <1>3, <2>1, <2>2 DEF ReplayPublish, TypeOK, store, history
  <2> QED
    BY <1>3, <2>2, <2>3 DEF ReplayPublish, ReplayTypeOK, history
<1>4. CASE ReplayAudit(o)
  <2>1. audit[target[o]] \cup {"NotificationReplayed"} \subseteq Events
    BY <1>0 DEF TypeOK, Events
  <2>2. audit' \in [Deliveries -> SUBSET Events]
    BY <1>0, <1>4, <2>1 DEF ReplayAudit, TypeOK
  <2>3. TypeOK'
    BY <1>0, <1>4, <2>2 DEF ReplayAudit, TypeOK, jetstream, history
  <2> QED
    BY <1>4, <2>3 DEF ReplayAudit, ReplayTypeOK, jetstream, history
<1>5. CASE ReplayStops(o)
  <2>1. used' \in [FaultKinds -> Nat]
    BY <1>0, <1>5, SpendType DEF ReplayStops, FaultKinds
  <2>2. TypeOK'
    BY <1>0, <1>5, <2>1 DEF ReplayStops, TypeOK, store, jetstream, history
  <2> QED
    BY <1>5, <2>2 DEF ReplayStops, ReplayTypeOK, jetstream, history
<1> QED
  BY <1>1, <1>2, <1>3, <1>4, <1>5 DEF ReplayStep, vars

\* The steps of a request.  Only ReplayUpdate writes the row: of a delivery
\* nobody has claimed and no provider has accepted.
LEMMA RequestStep ==
  ASSUME \A o, q \in Callers : o = q, NEW o \in Callers
  PROVE  ReplayInv /\ (ReplayStep(o) \/ ReplayStops(o)) => ReplayInv'
<1> SUFFICES ASSUME ReplayInv, ReplayStep(o) \/ ReplayStops(o) PROVE ReplayInv'
  OBVIOUS
<1>0. TypeOK /\ ClaimInv /\ SentInv /\ FreshInv /\ ReplayTypeOK /\ target[o] \in Deliveries
  BY DEF ReplayInv, ReplayTypeOK
<1>1. ReplayTypeOK' /\ UNCHANGED <<local, pc, msg, accepted>>
  BY <1>0, RequestType
<1>2. CASE ReplayUpdate(o)
  <2> DEFINE d == target[o]
  <2>1. CanReplay(row[d]) /\ row' = [row EXCEPT ![d] = ReplayedRow]
    BY <1>0, <1>2 DEF ReplayUpdate, FreshInv
  <2>2. FreshInv'
    BY <1>0, <1>2 DEF ReplayUpdate, Answers, ReplayTypeOK, FreshInv
  <2>3. ReplayedRow = [status |-> "queued", retry |-> 0]
    BY DEF ReplayedRow, Replay
  <2>4. \A h \in Handlers : Work(h)' = Work(h) /\ Work(h) \in Deliveries
    BY <1>0, <1>1, HandlerFacts DEF Work
  <2>5. \A h \in Handlers : pc[h] \in Claimed => Work(h) # d
    BY <1>0, <2>1 DEF ClaimInv, CanReplay
  <2>6. ClaimInv'
    <3>1. \A h \in Handlers : pc[h] \in Claimed => row'[Work(h)] = row[Work(h)]
      BY <1>0, <2>1, <2>4, <2>5 DEF TypeOK
    <3> QED
      BY <1>0, <1>1, <2>4, <3>1 DEF ClaimInv, CanStartProcessing
  <2>7. SentInv'
    <3>1. accepted[d] = 0
      BY <1>0, <2>1 DEF SentInv, CanReplay
    <3>2. \A e \in Deliveries : row'[e] = IF e = d THEN ReplayedRow ELSE row[e]
      BY <1>0, <2>1 DEF TypeOK
    <3>3. \A e \in Deliveries :
            /\ row'[e].status = "succeeded" => accepted[e] = 1
            /\ row'[e].status \notin {"processing", "succeeded"} => accepted[e] = 0
      BY <1>0, <2>3, <3>1, <3>2 DEF SentInv
    <3> QED
      BY <1>0, <1>1, <2>4, <3>3 DEF SentInv
  <2> QED
    BY <1>1, <2>2, <2>6, <2>7 DEF ReplayInv
<1>3. CASE ~ReplayUpdate(o)
  <2>1. row' = row
    BY <1>3 DEF ReplayStep, ReplayFind, ReplayPublish, ReplayAudit, ReplayStops, store, vars
  <2>2. rpc'[o] = "update" => CanReplay(row[target'[o]])
    <3>1. ASSUME NEW d \in Deliveries, ReplayFind(o, d)
          PROVE  target'[o] = d /\ CanReplay(row[d])
      BY <1>0, <3>1 DEF ReplayFind, ReplayTypeOK
    <3>2. CASE ReplayPublish(o) \/ ReplayAudit(o) \/ ReplayStops(o)
      BY <1>0, <3>2 DEF ReplayPublish, ReplayAudit, ReplayStops, Answers, ReplayTypeOK
    <3> QED
      BY <1>3, <3>1, <3>2 DEF ReplayStep
  <2>3. FreshInv'
    BY <2>1, <2>2 DEF FreshInv, CanReplay
  <2> QED
    BY <1>1, <2>1, <2>3, RequestQuiet DEF ReplayInv
<1> QED
  BY <1>2, <1>3

\* A replay neither sends a delivery a second time, nor overwrites a claim, nor
\* lets the row contradict the provider, as long as requests come one at a
\* time: with two, the second one's copy may be stale.
THEOREM ReplayIsSafe ==
  ASSUME \A o, q \in Callers : o = q
  PROVE  ReplaySpec => []OneReplayIsSafe
<1>1. ReplayInit => ReplayInv
  <2> SUFFICES ASSUME ReplayInit PROVE ReplayInv
    OBVIOUS
  <2>1. TypeOK /\ ClaimInv /\ SentInv
    BY TypeInit DEF ReplayInit, Init, ClaimInv, SentInv, Claimed, Queue, NewRow
  <2>2. (CHOOSE d \in Deliveries : TRUE) \in Deliveries
    BY DispatchAssumption
  <2>3. ReplayTypeOK /\ FreshInv
    BY <2>1, <2>2, ReplayAssumption DEF ReplayInit, ReplayTypeOK, FreshInv
  <2> QED
    BY <2>1, <2>3 DEF ReplayInv
<1>2. ReplayInv /\ [ReplayNext]_allVars => ReplayInv'
  BY WorkerStep, RequestStep DEF ReplayNext, allVars
<1>3. ReplayInv => OneReplayIsSafe
  <2> SUFFICES ASSUME ReplayTypeOK, ClaimInv, SentInv PROVE OneReplayIsSafe
    BY DEF ReplayInv
  <2>1. EffectivelyOnce
    BY DEF SentInv, EffectivelyOnce
  <2>2. OutcomeAgrees
    BY DEF SentInv, OutcomeAgrees
  <2>3. ClaimExclusive
    BY DEF ClaimInv, ClaimExclusive
  <2> QED
    BY <2>1, <2>2, <2>3 DEF OneReplayIsSafe
<1> QED
  BY <1>1, <1>2, <1>3, PTL DEF ReplaySpec

-----------------------------------------------------------------------------
(* Requeued deliveries, while no call fails.                               *)

\* A step after which no fault has been counted has spent none.
LEMMA FaultFree ==
  ASSUME TypeOK, [Next]_vars, NoFault'
  PROVE  NoFault /\ \A k \in FaultKinds : ~Spend(k)
<1>1. ASSUME NEW k \in FaultKinds PROVE used[k] = 0 /\ ~Spend(k)
  <2>1. used[k] \in Nat /\ used[k] <= used'[k] /\ (Spend(k) => used'[k] > 0)
    BY FaultsGrow
  <2>2. used'[k] = 0
    BY DEF NoFault
  <2> QED
    BY <2>1, <2>2
<1> QED
  BY <1>1 DEF NoFault

\* The same for the steps of a request.
LEMMA RequestFaultFree ==
  ASSUME ReplayTypeOK, NEW o \in Callers, ReplayStep(o) \/ ReplayStops(o), NoFault'
  PROVE  /\ NoFault /\ ~Spend("store") /\ ~ReplayStops(o)
<1>0. used \in [FaultKinds -> Nat] /\ {"store", "crash"} \subseteq FaultKinds
  BY DEF ReplayTypeOK, TypeOK, FaultKinds
<1>1. ASSUME NEW k \in FaultKinds PROVE ~Spend(k)
  BY <1>0, <1>1 DEF Spend, NoFault
<1>2. used' = used
  BY <1>0, <1>1 DEF ReplayStep, ReplayFind, ReplayUpdate, ReplayPublish, ReplayAudit,
       ReplayStops, Answers, vars
<1> QED
  BY <1>0, <1>1, <1>2 DEF NoFault, ReplayStops

\* Steps that publish at most, and start no handler.
LEMMA BrokerQuiet ==
  ASSUME BrokerInv, UNCHANGED <<pending, acked, delivered, msg>>, stream \subseteq stream',
         \A h \in Handlers : pc'[h] # "idle" => pc[h] # "idle"
  PROVE  BrokerInv'
  BY DEF BrokerInv, Durable

\* The worker's steps, as the broker sees them.
LEMMA BrokerMoves ==
  ASSUME TypeOK, [Next]_vars
  PROVE  \/ \E h \in Handlers : Receive(h) \/ Ack(h) \/ Nak(h)
         \/ \E c \in Durables, m \in Messages : AckWait(c, m)
         \/ /\ UNCHANGED <<pending, acked, delivered, msg>> /\ stream \subseteq stream'
            /\ \A h \in Handlers : pc'[h] # "idle" => pc[h] # "idle"
<1> DEFINE Quiet == /\ UNCHANGED <<pending, acked, delivered, msg>> /\ stream \subseteq stream'
                    /\ \A h \in Handlers : pc'[h] # "idle" => pc[h] # "idle"
<1>1. ASSUME NEW h \in Handlers, Step(h), ~(Receive(h) \/ Ack(h) \/ Nak(h)) PROVE Quiet
  <2>1. UNCHANGED <<pending, acked, delivered, msg, stream>> /\ pc[h] # "idle"
    BY <1>1 DEF Step, FindByID, UpdateIfStatus, Admit, Send, UpdateSucceeded,
         UpdateRetrying, UpdateDLQ, Update, RecordSuccess, RecordRetry, RecordDLQ,
         RecordAttempt, AuditSucceeded, AuditRetry, AuditDLQ, AppendAudit, PublishDLQ,
         jetstream
  <2>2. \A g \in Handlers \ {h} : pc'[g] = pc[g]
    BY <1>1, OthersStep
  <2> QED
    BY <2>1, <2>2
<1>2. ASSUME NEW h \in Handlers, StoreError(h) PROVE Quiet
  BY <1>2 DEF StoreError, StoreCalls, Goto, jetstream, TypeOK
<1>3. ASSUME NEW p \in Processes, Crash(p) PROVE Quiet
  BY <1>3 DEF Crash, jetstream
<1>4. ASSUME NEW m \in Messages, Publish(m) PROVE Quiet
  BY <1>4 DEF Publish
<1>5. CASE UNCHANGED vars
  BY <1>5 DEF vars
<1> QED
  BY <1>1, <1>2, <1>3, <1>4, <1>5 DEF Next

\* Who holds a message takes it back alone: no timer fires for it.
LEMMA BrokerStep ==
  ASSUME TypeOK, BrokerInv, [Next]_vars, NoFault'
  PROVE  BrokerInv'
<1>1. ASSUME NEW h \in Handlers, Receive(h) PROVE BrokerInv'
  <2>1. PICK m \in Deliverable(Durable(h)) :
          /\ msg' = [msg EXCEPT ![h] = m]
          /\ pending' = [pending EXCEPT ![Durable(h)] = @ \cup {m}]
          /\ delivered' = [delivered EXCEPT ![Durable(h)][m] = @ + 1]
    BY <1>1 DEF Receive
  <2>2. Durable(h) \in Durables /\ m \in stream /\ m \notin pending[Durable(h)]
        /\ m \in Messages
    BY HandlerFacts DEF Deliverable, TypeOK
  <2>3. stream' = stream /\ acked' = acked /\ pc' = [pc EXCEPT ![h] = "find"]
    BY <1>1 DEF Receive, Goto
  <2>4. ASSUME NEW c \in Durables
        PROVE  /\ pending'[c] \subseteq stream' /\ acked'[c] \subseteq stream'
               /\ \A n \in Messages \ stream' : delivered'[c][n] = 0
    BY <2>1, <2>2, <2>3, <2>4 DEF BrokerInv, TypeOK
  <2>5. \A g \in Handlers \ {h} : msg'[g] = msg[g] /\ pc'[g] = pc[g]
    BY <2>1, <2>3 DEF TypeOK
  <2>6. msg'[h] = m /\ m \in pending'[Durable(h)]
    BY <2>1, <2>2 DEF TypeOK
  <2>7. \A g \in Handlers \ {h} : pc[g] # "idle" =>
          /\ msg[g] \in pending'[Durable(g)]
          /\ Durable(g) = Durable(h) => msg[g] # m
    BY <2>1, <2>2, HandlerFacts DEF BrokerInv, TypeOK
  <2>8. ASSUME NEW g \in Handlers, pc'[g] # "idle"
        PROVE  /\ msg'[g] \in pending'[Durable(g)]
               /\ \A f \in Handlers \ {g} :
                    pc'[f] # "idle" /\ Durable(f) = Durable(g) => msg'[f] # msg'[g]
    <3>1. CASE g = h
      BY <3>1, <2>5, <2>6, <2>7
    <3>2. CASE g # h
      BY <2>5, <2>6, <2>7, <2>8, <3>2 DEF BrokerInv
    <3> QED
      BY <3>1, <3>2
  <2> QED
    BY <2>4, <2>8 DEF BrokerInv, Durable
<1>2. ASSUME NEW h \in Handlers, Ack(h) \/ Nak(h) PROVE BrokerInv'
  <2>1. /\ pc[h] # "idle" /\ pc' = [pc EXCEPT ![h] = "idle"]
        /\ pending' = [pending EXCEPT ![Durable(h)] = @ \ {msg[h]}]
        /\ acked' = acked \/ acked' = [acked EXCEPT ![Durable(h)] = @ \cup {msg[h]}]
        /\ UNCHANGED <<stream, delivered, msg>>
    BY <1>2 DEF Ack, Nak, Goto
  <2>2. Durable(h) \in Durables /\ msg[h] \in stream
    BY <2>1, HandlerFacts DEF BrokerInv
  <2>3. ASSUME NEW c \in Durables
        PROVE  /\ pending'[c] \subseteq stream' /\ acked'[c] \subseteq stream'
               /\ \A n \in Messages \ stream' : delivered'[c][n] = 0
    BY <2>1, <2>2, <2>3 DEF BrokerInv, TypeOK
  <2>4. ASSUME NEW g \in Handlers, pc'[g] # "idle"
        PROVE  g # h /\ pc[g] # "idle" /\ msg[g] \in pending'[Durable(g)]
    <3>1. g # h /\ pc[g] # "idle"
      BY <2>1, <2>4 DEF TypeOK
    <3>2. msg[g] \in pending[Durable(g)] /\ Durable(g) \in Durables
      BY <3>1, HandlerFacts DEF BrokerInv
    <3>3. Durable(g) = Durable(h) => msg[g] # msg[h]
      BY <2>1, <3>1 DEF BrokerInv
    <3> QED
      BY <2>1, <3>1, <3>2, <3>3 DEF TypeOK
  <2> QED
    BY <2>1, <2>3, <2>4 DEF BrokerInv, Durable
<1>3. ASSUME NEW c \in Durables, NEW m \in Messages, AckWait(c, m) PROVE BrokerInv'
  <2>1. "ackwait" \in FaultKinds
    BY DEF FaultKinds
  <2>2. ~Held(c, m)
    BY <1>3, <2>1, FaultFree DEF AckWait
  <2>3. \A h \in Handlers : pc[h] # "idle" /\ Durable(h) = c => msg[h] # m
    BY <2>2 DEF Held, Handlers, Durable
  <2>4. /\ pending' = [pending EXCEPT ![c] = @ \ {m}]
        /\ UNCHANGED <<stream, delivered, acked, pc, msg>>
    BY <1>3 DEF AckWait
  <2>5. ASSUME NEW b \in Durables PROVE pending'[b] \subseteq pending[b]
    BY <2>4, <2>5 DEF TypeOK
  <2>6. ASSUME NEW h \in Handlers, pc[h] # "idle" PROVE msg[h] \in pending'[Durable(h)]
    <3>1. msg[h] \in pending[Durable(h)] /\ Durable(h) \in Durables
      BY <2>6, HandlerFacts DEF BrokerInv
    <3> QED
      BY <2>3, <2>4, <2>6, <3>1 DEF TypeOK
  <2> QED
    BY <2>4, <2>5, <2>6 DEF BrokerInv, Durable
<1> QED
  BY <1>1, <1>2, <1>3, BrokerMoves, BrokerQuiet

\* A worker never queues a row.
LEMMA NoWorkerQueues ==
  ASSUME TypeOK, [Next]_vars, NEW d \in Deliveries, row'[d].status = "queued"
  PROVE  row'[d] = row[d]
<1> SUFFICES ASSUME row'[d] # row[d] PROVE FALSE
  OBVIOUS
<1>1. PICK h \in Handlers : UpdateIfStatus(h) \/ UpdateSucceeded(h)
                            \/ UpdateRetrying(h) \/ UpdateDLQ(h)
  BY DEF Next, Step, Publish, StoreError, Crash, AckWait, Receive, Ack, Nak, FindByID,
       Admit, Send, RecordSuccess, RecordRetry, RecordDLQ, RecordAttempt,
       AuditSucceeded, AuditRetry, AuditDLQ, AppendAudit, PublishDLQ, store, vars
<1>2. local[h] \in [status : Statuses, retry : 0..(MaxAttempts - 1)]
  BY HandlerFacts
<1>3. \E r \in {StartProcessing(local[h]), MarkSucceeded(local[h]),
                MarkRetrying(local[h]), MarkDLQ(local[h])} :
        row' = [row EXCEPT ![Work(h)] = r]
  BY <1>1 DEF UpdateIfStatus, UpdateSucceeded, UpdateRetrying, UpdateDLQ, Update
<1>4. /\ StartProcessing(local[h]).status = "processing"
      /\ MarkSucceeded(local[h]).status = "succeeded"
      /\ MarkRetrying(local[h]).status = "retrying"
      /\ MarkDLQ(local[h]).status = "dlq"
  BY <1>2 DEF StartProcessing, MarkSucceeded, MarkRetrying, MarkDLQ
<1>5. PICK r : row' = [row EXCEPT ![Work(h)] = r] /\ r.status # "queued"
  BY ONLY <1>3, <1>4
<1> QED
  BY <1>5 DEF TypeOK

\* While the row stays queued, an offer is taken up or left alone.
LEMMA OfferKept ==
  ASSUME TypeOK, BrokerInv, [Next]_vars, NoFault', NEW d \in Deliveries,
         NEW c \in Durables, NEW m \in stream, Offer(d, c, m),
         row[d].status = "queued", row'[d] = row[d]
  PROVE  Offer(d, c, m)'
<1>0. m \in Messages /\ m[1] = d /\ m \notin acked[c]
  BY DEF Offer, TypeOK
<1>1. m \in stream'
  BY StreamMoves
<1>2. ASSUME NEW h \in Handlers, Ack(h) \/ Nak(h), Durable(h) = c PROVE msg[h] # m
  <2>1. pc[h] \in {"ack", "nak"} /\ ~Reaches(h)
    BY <1>2 DEF Ack, Nak, Reaches
  <2>2. \A g \in Handlers : Reaches(g) => pc[g] # "idle" /\ g # h
    BY <2>1 DEF Reaches
  <2> QED
    BY <1>2, <2>1, <2>2 DEF Offer, BrokerInv
<1>3. m \notin acked'[c]
  <2>1. ASSUME NEW h \in Handlers, Ack(h) PROVE m \notin acked'[c]
    BY <1>0, <1>2, <2>1 DEF Ack, TypeOK
  <2> QED
    BY <1>0, <2>1, StreamMoves
<1>4. CASE m \notin pending[c] /\ delivered[c][m] = 0
  <2>1. ASSUME NEW h \in Handlers, Receive(h), msg'[h] = m, Durable(h) = c
        PROVE  Offer(d, c, m)'
    <3>1. pc'[h] = "find"
      BY <2>1 DEF Receive, Goto, TypeOK
    <3> QED
      BY <1>0, <1>1, <1>3, <2>1, <3>1 DEF Offer, Reaches, Durable
  <2>2. ASSUME NEW h \in Handlers, Receive(h), ~(msg'[h] = m /\ Durable(h) = c)
        PROVE  m \notin pending'[c] /\ delivered'[c][m] = 0
    <3>1. PICK n \in Deliverable(Durable(h)) :
            /\ msg' = [msg EXCEPT ![h] = n]
            /\ pending' = [pending EXCEPT ![Durable(h)] = @ \cup {n}]
            /\ delivered' = [delivered EXCEPT ![Durable(h)][n] = @ + 1]
      BY <2>2 DEF Receive
    <3>2. ~(n = m /\ Durable(h) = c)
      BY <2>2, <3>1 DEF TypeOK
    <3>3. n \in Messages /\ Durable(h) \in Durables
      BY HandlerFacts DEF Deliverable, TypeOK
    <3> QED
      BY <1>0, <1>4, <3>1, <3>2, <3>3 DEF TypeOK
  <2>3. ASSUME NEW h \in Handlers, Ack(h) \/ Nak(h)
        PROVE  m \notin pending'[c] /\ delivered'[c][m] = 0
    BY <1>4, <2>3 DEF Ack, Nak, TypeOK
  <2>4. ASSUME NEW b \in Durables, NEW n \in Messages, AckWait(b, n)
        PROVE  m \notin pending'[c] /\ delivered'[c][m] = 0
    BY <1>4, <2>4 DEF AckWait, TypeOK
  <2>5. CASE m \notin pending'[c] /\ delivered'[c][m] = 0
    BY <1>0, <1>1, <1>3, <2>5 DEF Offer
  <2> QED
    BY <1>4, <2>1, <2>2, <2>3, <2>4, <2>5, BrokerMoves
<1>5. ASSUME NEW h \in Handlers, Durable(h) = c, msg[h] = m, Reaches(h)
      PROVE  Offer(d, c, m)'
  <2>1. {"store", "crash"} \subseteq FaultKinds /\ ~Spend("store") /\ ~Spend("crash")
    BY FaultFree DEF FaultKinds
  <2>2. CASE UNCHANGED <<pc[h], msg[h], local[h]>>
    BY <1>0, <1>1, <1>3, <1>5, <2>2 DEF Offer, Reaches, Durable
  <2>3. CASE FindByID(h)
    <3>1. Work(h) = d /\ Entry(row[d]) = "claim"
      BY <1>0, <1>5 DEF Work, Entry, Settled, CanStartProcessing
    <3>2. pc'[h] = "claim" /\ local'[h] = row[d] /\ msg'[h] = m
      BY <1>5, <2>3, <3>1 DEF FindByID, Goto, TypeOK
    <3> QED
      BY <1>0, <1>1, <1>3, <1>5, <3>2 DEF Offer, Reaches, Durable
  <2>4. ~UpdateIfStatus(h)
    <3> SUFFICES ASSUME UpdateIfStatus(h) PROVE FALSE
      OBVIOUS
    <3>1. Work(h) = d /\ local[h].status = "queued"
      BY <1>0, <1>5 DEF Work, UpdateIfStatus, Reaches
    <3>2. row' = [row EXCEPT ![d] = StartProcessing(local[h])]
      BY <3>1 DEF UpdateIfStatus, StatusMatches
    <3>3. row'[d].status = "processing"
      BY <3>2, HandlerFacts DEF TypeOK, StartProcessing
    <3> QED
      BY <3>3
  <2>5. ASSUME Step(h) PROVE FindByID(h) \/ UpdateIfStatus(h)
    BY <1>5, <2>5 DEF Reaches, Step, Receive, Ack, Nak, Admit, Send, UpdateSucceeded,
         UpdateRetrying, UpdateDLQ, RecordSuccess, RecordRetry, RecordDLQ,
         AuditSucceeded, AuditRetry, AuditDLQ, PublishDLQ
  <2>6. \/ UNCHANGED <<pc[h], msg[h], local[h]>> \/ Step(h)
    <3>1. ASSUME NEW g \in Handlers \ {h}, Step(g) PROVE <2>6
      BY <3>1, OthersStep
    <3> QED
      BY <2>1, <3>1 DEF Next, StoreError, Crash, Publish, AckWait, vars
  <2> QED
    BY <2>2, <2>3, <2>4, <2>5, <2>6
<1> QED
  BY <1>4, <1>5 DEF Offer

\* A message that was not on the stream is an offer of every durable.
LEMMA FreshOffer ==
  ASSUME BrokerInv, NEW d, NEW c \in Durables, NEW m \in Messages \ stream, m[1] = d,
         m \in stream', UNCHANGED <<pending, acked, delivered>>
  PROVE  Offer(d, c, m)'
  BY DEF BrokerInv, Offer

\* A worker's step: it publishes, takes up the offer, or leaves it.
LEMMA WorkerOffers ==
  ASSUME Durables # {}, ReplayTypeOK, CapInv, BrokerInv, OfferInv, NoFault',
         [Next]_vars, UNCHANGED rvars
  PROVE  OfferInv'
<1> SUFFICES ASSUME NEW d \in Deliveries, Requeued(d)'
             PROVE  \E c \in Durables, m \in stream' : Offer(d, c, m)'
  BY DEF OfferInv
<1>0. TypeOK /\ row'[d] = row[d] /\ row[d].status = "queued"
  BY NoWorkerQueues DEF Requeued, ReplayTypeOK
<1>1. CASE \E m \in stream : m[1] = d
  <2>1. PICK c \in Durables, m \in stream : Offer(d, c, m)
    BY <1>0, <1>1 DEF OfferInv, Requeued, rvars
  <2> QED
    BY <1>0, <2>1, OfferKept, StreamMoves
<1>2. CASE ~\E m \in stream : m[1] = d
  <2>1. PICK m \in stream' : m[1] = d /\ m \notin stream
    BY <1>2 DEF Requeued
  <2>2. Publish(m)
    BY <1>0, <2>1, StreamMoves
  <2>3. m \in Messages /\ UNCHANGED <<pending, acked, delivered>>
    <3>1. stream' \subseteq Messages
      BY <1>0, TypeStep DEF TypeOK
    <3> QED
      BY <2>1, <2>2, <3>1 DEF Publish
  <2>4. PICK c \in Durables : TRUE
    OBVIOUS
  <2> QED
    BY <2>1, <2>3, <2>4, FreshOffer
<1> QED
  BY <1>1, <1>2

\* A request's step: it requeues and owes a message, or publishes it.
LEMMA RequestOffers ==
  ASSUME Durables # {}, ReplayTypeOK, BrokerInv, OfferInv, NoFault',
         NEW o \in Callers, ReplayStep(o)
  PROVE  OfferInv'
<1> SUFFICES ASSUME NEW d \in Deliveries, Requeued(d)'
             PROVE  \E c \in Durables, m \in stream' : Offer(d, c, m)'
  BY DEF OfferInv
<1>0. /\ UNCHANGED <<local, pc, msg, delivered, pending, acked>>
      /\ ~Spend("store") /\ TypeOK /\ target[o] \in Deliveries
  BY RequestType, RequestFaultFree DEF ReplayTypeOK
<1>1. CASE ReplayPublish(o)
  <2>1. PICK i \in 1..MaxPublish :
          /\ <<target[o], i>> \notin stream
          /\ stream' = stream \cup {<<target[o], i>>}
    BY <1>1 DEF ReplayPublish
  <2>2. CASE target[o] = d
    <3>1. PICK c \in Durables : TRUE
      OBVIOUS
    <3>2. <<d, i>> \in Messages \ stream /\ <<d, i>> \in stream'
      BY <2>1, <2>2 DEF Messages
    <3>3. Offer(d, c, <<d, i>>)'
      BY <1>0, <3>2, FreshOffer
    <3> QED
      BY <3>2, <3>3
  <2>3. CASE target[o] # d
    <3>1. row' = row /\ target' = target /\ \A p \in Callers \ {o} : rpc'[p] = rpc[p]
      BY <1>1 DEF ReplayPublish, Answers, ReplayTypeOK, store
    <3>2. Requeued(d)
      BY <2>1, <2>3, <3>1 DEF Requeued
    <3>3. PICK c \in Durables, m \in stream : Offer(d, c, m)
      BY <3>2 DEF OfferInv
    <3>4. Offer(d, c, m)'
      BY <1>0, <2>1, <3>3 DEF Offer, Reaches, Durable
    <3> QED
      BY <2>1, <3>3, <3>4
  <2> QED
    BY <2>2, <2>3
<1>2. CASE ~ReplayPublish(o)
  <2>1. stream' = stream
    BY <1>2 DEF ReplayStep, ReplayFind, ReplayUpdate, ReplayAudit, jetstream, vars
  <2>2. ASSUME NEW e \in Deliveries, ReplayFind(o, e) PROVE Requeued(d)
    BY <2>2 DEF ReplayFind, Requeued, ReplayTypeOK, vars
  <2>3. ASSUME ReplayUpdate(o) PROVE Requeued(d)
    <3>1. rpc' = [rpc EXCEPT ![o] = "publish"] /\ target' = target
      BY <1>0, <2>3 DEF ReplayUpdate, Answers
    <3>2. target[o] # d
      BY <3>1 DEF Requeued, ReplayTypeOK
    <3>3. row'[d] = row[d]
      BY <1>0, <2>3, <3>2 DEF ReplayUpdate, TypeOK
    <3> QED
      BY <2>1, <3>1, <3>2, <3>3 DEF Requeued, ReplayTypeOK
  <2>4. ASSUME ReplayAudit(o) PROVE Requeued(d)
    BY <2>1, <2>4 DEF ReplayAudit, Requeued, ReplayTypeOK
  <2>5. Requeued(d)
    BY <1>2, <2>2, <2>3, <2>4 DEF ReplayStep
  <2>6. PICK c \in Durables, m \in stream : Offer(d, c, m)
    BY <2>5 DEF OfferInv
  <2>7. Offer(d, c, m)'
    BY <1>0, <2>1, <2>6 DEF Offer, Reaches, Durable
  <2> QED
    BY <2>1, <2>6, <2>7
<1> QED
  BY <1>1, <1>2

\* While no call fails, no interleaving of replays with workers strands a
\* delivery: a queued row has a copy that a durable will hand out or has handed
\* to a handler, or a request that is about to publish one.
THEOREM RequeuedIsOffered ==
  ASSUME Durables # {}
  PROVE  ReplaySpec => []QueuedIsOffered
<1>1. ReplayInit => OfferedInv
  <2> SUFFICES ASSUME ReplayInit PROVE OfferedInv
    OBVIOUS
  <2>1. (CHOOSE d \in Deliveries : TRUE) \in Deliveries
    BY DispatchAssumption
  <2>2. ReplayTypeOK
    BY <2>1, TypeInit, ReplayAssumption DEF ReplayInit, ReplayTypeOK
  <2>3. CapInv /\ BrokerInv /\ OfferInv
    BY DEF ReplayInit, Init, CapInv, BrokerInv, OfferInv, Requeued
  <2> QED
    BY <2>2, <2>3 DEF OfferedInv
<1>2. OfferedInv /\ [ReplayNext]_allVars => OfferedInv'
  <2> SUFFICES ASSUME ReplayTypeOK, CapInv, NoFault => BrokerInv /\ OfferInv,
                      [ReplayNext]_allVars
               PROVE  OfferedInv'
    BY DEF OfferedInv
  <2>0. TypeOK
    BY DEF ReplayTypeOK
  <2>1. CASE [Next]_vars /\ UNCHANGED rvars
    <3>1. ReplayTypeOK' /\ CapInv'
      BY <2>0, <2>1, TypeStep, CapStep DEF ReplayTypeOK, rvars
    <3>2. ASSUME NoFault' PROVE BrokerInv' /\ OfferInv'
      <4>1. NoFault
        BY <2>0, <2>1, <3>2, FaultFree
      <4> QED
        BY <2>0, <2>1, <3>2, <4>1, BrokerStep, WorkerOffers
    <3> QED
      BY <3>1, <3>2 DEF OfferedInv
  <2>2. ASSUME NEW o \in Callers, ReplayStep(o) \/ ReplayStops(o) PROVE OfferedInv'
    <3>1. ReplayTypeOK' /\ UNCHANGED <<local, pc, msg, delivered, pending, acked>>
      BY <2>2, RequestType
    <3>2. CapInv'
      BY <3>1 DEF CapInv
    <3>3. ASSUME NoFault' PROVE BrokerInv' /\ OfferInv'
      <4>1. NoFault /\ ReplayStep(o)
        BY <2>2, <3>3, RequestFaultFree
      <4>2. stream \subseteq stream'
        BY <4>1 DEF ReplayStep, ReplayFind, ReplayUpdate, ReplayPublish, ReplayAudit,
             jetstream, vars
      <4> QED
        BY <3>1, <3>3, <4>1, <4>2, BrokerQuiet, RequestOffers
    <3> QED
      BY <3>1, <3>2, <3>3 DEF OfferedInv
  <2> QED
    BY <2>1, <2>2 DEF ReplayNext, allVars
<1>3. OfferedInv => QueuedIsOffered
  <2> SUFFICES ASSUME TypeOK, BrokerInv, OfferInv, NEW d \in Deliveries, Requeued(d)
               PROVE  \E c \in Durables, m \in stream :
                        m[1] = d /\ m \in Deliverable(c) \cup pending[c]
    BY DEF OfferedInv, ReplayTypeOK, QueuedIsOffered, Requeued, NoFault
  <2>1. PICK c \in Durables, m \in stream : Offer(d, c, m)
    BY DEF OfferInv
  <2>2. CASE m \notin pending[c] /\ delivered[c][m] = 0
    BY <2>1, <2>2, DispatchAssumption DEF Offer, Deliverable
  <2>3. ASSUME NEW h \in Handlers, Durable(h) = c, msg[h] = m, Reaches(h)
        PROVE  m \in pending[c]
    BY <2>3 DEF Reaches, BrokerInv
  <2> QED
    BY <2>1, <2>2, <2>3 DEF Offer
<1> QED
  BY <1>1, <1>2, <1>3, PTL DEF ReplaySpec
=============================================================================
