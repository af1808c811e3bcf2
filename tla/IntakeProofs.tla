---------------------------- MODULE IntakeProofs ----------------------------
(***************************************************************************)
(* The way of a notification to the stream.                                *)
(*                                                                         *)
(* Ingest, for any number of keys, concurrent requests, retries and        *)
(* failing calls: a key has one delivery, every client is told that one,   *)
(* and an error has a cause.                                               *)
(*                                                                         *)
(* Outbox and scheduler, for any number of deliveries, publishers, batches *)
(* and faults: a row is marked published only when its delivery is on the  *)
(* stream, every message beyond the first has a cause, and the scheduler   *)
(* retires a row only when it is in the outbox; one scheduler inserts it   *)
(* once.                                                                   *)
(***************************************************************************)
EXTENDS Ingest, Scheduler, FiniteSetTheorems, WellFoundedInduction, TLAPS

-----------------------------------------------------------------------------
(* Ingest.                                                                 *)

\* deliveries and idempotency_keys register each other, and a committed
\* delivery has its outbox or its scheduled row.
KeyInv ==
  /\ \A r \in rows : keyOf[r.key] = r.id
  /\ \A k \in Keys : keyOf[k] # NoId => \E r \in rows : r.id = keyOf[k] /\ r.key = k
  /\ \A r \in rows : r.id \in (IF r.status = "queued" THEN boxed ELSE planned)

\* A request that lost the race knows that a winner is registered.
LoserInv == \A c \in Clients : cpc[c] = "again" => keyOf[Key(c)] # NoId

\* What was answered is what the key is registered for.
AnswerInv ==
  \A a \in answers :
    IF a.kind = "error" THEN faults > 0 \/ a.key \in expired
                        ELSE a.id # NoId /\ keyOf[a.key] = a.id

\* The inductive invariant.
IngestInv == TypeOK /\ KeyInv /\ LoserInv /\ AnswerInv

\* The type invariant holds initially and is kept by every step.
LEMMA IngestTypeInit == Init => TypeOK
<1> SUFFICES ASSUME Init PROVE TypeOK
  OBVIOUS
<1>1. (CHOOSE k \in Keys : TRUE) \in Keys
  BY IngestAssumption
<1> QED
  BY <1>1, IngestAssumption DEF Init, TypeOK, Requests

\* An answer is well typed and leaves the client idle.
LEMMA AnswerType ==
  ASSUME TypeOK, NEW c \in Clients, NEW id \in Ids \cup {NoId},
         NEW kind \in {"accepted", "duplicate", "error"}, Answer(c, id, kind)
  PROVE  /\ answers' \subseteq Answers
         /\ cpc' \in [Clients -> {"idle", "lookup", "insert", "again"}]
         /\ answers' = answers \cup {[key |-> Key(c), id |-> id, kind |-> kind]}
         /\ Key(c) \in Keys
<1>1. Key(c) \in Keys
  BY DEF TypeOK, Key, Requests
<1> QED
  BY <1>1 DEF TypeOK, Answer, Answers

\* Each statement of a request keeps the types.
LEMMA IngestTypeStep == TypeOK /\ [Next]_vars => TypeOK'
<1> SUFFICES ASSUME TypeOK, [Next]_vars PROVE TypeOK'
  OBVIOUS
<1> USE IngestAssumption
<1>1. ASSUME NEW c \in Clients, Request(c) PROVE TypeOK'
  <2>1. PICK r \in Requests : req' = [req EXCEPT ![c] = r]
    BY <1>1 DEF Request
  <2>2. requests' \in 0..MaxRequests
    BY <1>1 DEF Request, TypeOK
  <2> QED
    BY <1>1, <2>1, <2>2 DEF TypeOK, Request, Goto, tables
<1>2. ASSUME NEW c \in Clients, FastPath(c) PROVE TypeOK'
  <2>1. Key(c) \in Keys /\ keyOf[Key(c)] \in Ids \cup {NoId}
    BY DEF TypeOK, Key, Requests
  <2>2. CASE Answer(c, keyOf[Key(c)], "duplicate")
    BY <1>2, <2>1, <2>2, AnswerType DEF TypeOK, FastPath, tables
  <2>3. CASE Goto(c, "insert")
    BY <1>2, <2>3 DEF TypeOK, FastPath, Goto, tables
  <2> QED
    BY <1>2, <2>2, <2>3 DEF FastPath
<1>3. ASSUME NEW c \in Clients, RollBack(c) PROVE TypeOK'
  BY <1>3 DEF TypeOK, RollBack, Goto, tables
<1>4. ASSUME NEW c \in Clients, FindWinner(c) PROVE TypeOK'
  <2>1. Key(c) \in Keys /\ keyOf[Key(c)] \in Ids \cup {NoId}
    BY DEF TypeOK, Key, Requests
  <2>2. \/ Answer(c, keyOf[Key(c)], "duplicate")
        \/ Answer(c, NoId, "error")
    BY <1>4 DEF FindWinner
  <2> QED
    BY <1>4, <2>1, <2>2, AnswerType DEF TypeOK, FindWinner, tables
<1>5. ASSUME NEW c \in Clients, StoreError(c) PROVE TypeOK'
  <2>1. faults' \in 0..MaxFaults
    BY <1>5 DEF StoreError, TypeOK
  <2> QED
    BY <1>5, <2>1, AnswerType DEF TypeOK, StoreError, tables
<1>6. ASSUME NEW c \in Clients, NEW id \in Ids, Commit(c, id) PROVE TypeOK'
  <2>1. faults' \in 0..MaxFaults
    BY <1>6 DEF Commit, TypeOK
  <2>2. Answer(c, id, "accepted") \/ Answer(c, NoId, "error")
    BY <1>6 DEF Commit
  <2>3. /\ answers' \subseteq Answers
        /\ cpc' \in [Clients -> {"idle", "lookup", "insert", "again"}]
    BY <2>2, AnswerType
  <2>4. NewDelivery(id, c) \in DeliveryRows
    BY DEF TypeOK, NewDelivery, Key, Requests, DeliveryRows, NewRow, Queue, Statuses
  <2>5. boxed' \subseteq Ids /\ planned' \subseteq Ids /\ received' \subseteq Ids
    BY <1>6 DEF TypeOK, Commit
  <2> QED
    BY <1>6, <2>1, <2>3, <2>4, <2>5 DEF TypeOK, Commit
<1>7. ASSUME NEW k \in Keys, Expire(k) PROVE TypeOK'
  BY <1>7 DEF TypeOK, Expire, tables
<1>8. CASE UNCHANGED vars
  BY <1>8 DEF TypeOK, vars
<1> QED
  BY <1>1, <1>2, <1>3, <1>4, <1>5, <1>6, <1>7, <1>8 DEF Next

\* Only a commit writes the tables, and only for a key nothing is registered
\* for: the row it adds and the key it registers name each other.
LEMMA KeyStep == TypeOK /\ KeyInv /\ [Next]_vars => KeyInv'
<1> SUFFICES ASSUME TypeOK, KeyInv, [Next]_vars PROVE KeyInv'
  OBVIOUS
<1>1. ASSUME UNCHANGED tables PROVE KeyInv'
  BY <1>1 DEF KeyInv, tables
<1>2. ASSUME NEW c \in Clients, NEW id \in Ids, Commit(c, id) PROVE KeyInv'
  <2>1. Key(c) \in Keys /\ keyOf[Key(c)] = NoId
    BY <1>2 DEF TypeOK, Commit, Conflict, Key, Requests
  <2>2. /\ keyOf'[Key(c)] = id
        /\ \A k \in Keys \ {Key(c)} : keyOf'[k] = keyOf[k]
    BY <1>2, <2>1 DEF TypeOK, Commit
  <2>3. \A r \in rows : r.key # Key(c) /\ r.key \in Keys /\ r.id \in Ids
    BY <2>1, IngestAssumption DEF TypeOK, KeyInv, DeliveryRows
  <2>4. rows' = rows \cup {NewDelivery(id, c)}
    BY <1>2 DEF Commit
  <2>5. /\ NewDelivery(id, c).id = id /\ NewDelivery(id, c).key = Key(c)
        /\ NewDelivery(id, c).status = IF req[c].later THEN "pending" ELSE "queued"
    BY DEF NewDelivery, NewRow, Queue
  <2>6. \A r \in rows' : keyOf'[r.key] = r.id
    BY <2>2, <2>3, <2>4, <2>5 DEF KeyInv
  <2>7. \A k \in Keys : keyOf'[k] # NoId =>
          \E r \in rows' : r.id = keyOf'[k] /\ r.key = k
    <3> TAKE k \in Keys
    <3>1. CASE k = Key(c)
      BY <2>2, <2>4, <2>5, <3>1
    <3>2. CASE k # Key(c)
      BY <2>2, <2>4, <3>2 DEF KeyInv
    <3> QED
      BY <3>1, <3>2
  <2>8. \A r \in rows' : r.id \in (IF r.status = "queued" THEN boxed' ELSE planned')
    <3>1. boxed \subseteq boxed' /\ planned \subseteq planned'
          /\ id \in (IF req[c].later THEN planned' ELSE boxed')
      BY <1>2 DEF Commit
    <3> QED
      BY <2>4, <2>5, <3>1 DEF KeyInv
  <2> QED
    BY <2>6, <2>7, <2>8 DEF KeyInv
<1>3. \A c \in Clients :
        Request(c) \/ FastPath(c) \/ RollBack(c) \/ FindWinner(c) \/ StoreError(c)
        => UNCHANGED tables
  BY DEF Request, FastPath, RollBack, FindWinner, StoreError
<1>4. \A k \in Keys : Expire(k) => UNCHANGED tables
  BY DEF Expire
<1>5. UNCHANGED vars => UNCHANGED tables
  BY DEF vars, tables
<1> QED
  BY <1>1, <1>2, <1>3, <1>4, <1>5 DEF Next

\* A registered key stays registered for its delivery, and keys that have
\* expired stay expired.
LEMMA Registered ==
  ASSUME TypeOK, [Next]_vars
  PROVE  /\ \A k \in Keys : keyOf[k] # NoId => keyOf'[k] = keyOf[k]
         /\ expired \subseteq expired'
         /\ faults \in Nat /\ faults' \in Nat /\ faults <= faults'
<1>1. TypeOK'
  BY IngestTypeStep
<1>2. faults \in Nat /\ faults' \in Nat
  BY <1>1, IngestAssumption DEF TypeOK
<1>3. \A c \in Clients :
        Request(c) \/ FastPath(c) \/ RollBack(c) \/ FindWinner(c) \/ StoreError(c)
        => UNCHANGED <<tables, expired>> /\ faults <= faults'
  BY <1>2 DEF Request, FastPath, RollBack, FindWinner, StoreError
<1>4. \A k \in Keys : Expire(k)
        => UNCHANGED <<tables, faults>> /\ expired \subseteq expired'
  BY DEF Expire
<1>5. ASSUME NEW c \in Clients, NEW id \in Ids, Commit(c, id)
      PROVE  /\ \A k \in Keys : keyOf[k] # NoId => keyOf'[k] = keyOf[k]
             /\ UNCHANGED expired /\ faults <= faults'
  <2>1. keyOf[Key(c)] = NoId
    BY <1>5 DEF Commit, Conflict
  <2> QED
    BY <1>2, <1>5, <2>1 DEF TypeOK, Commit
<1>6. UNCHANGED vars => UNCHANGED <<tables, expired, faults>>
  BY DEF vars, tables
<1> QED
  BY <1>2, <1>3, <1>4, <1>5, <1>6 DEF Next, tables

\* A request reaches the second lookup only through a conflict.
LEMMA LoserStep == TypeOK /\ LoserInv /\ [Next]_vars => LoserInv'
<1> SUFFICES ASSUME TypeOK, LoserInv, [Next]_vars,
                    NEW c \in Clients, cpc'[c] = "again"
             PROVE  keyOf'[Key(c)'] # NoId
  BY DEF LoserInv
<1>1. Key(c) \in Keys
  BY DEF TypeOK, Key, Requests
<1>2. \/ cpc[c] = "again" /\ req'[c] = req[c]
      \/ RollBack(c)
  <2>1. ASSUME NEW b \in Clients, Request(b) PROVE <1>2!1
    BY <2>1 DEF TypeOK, Request, Goto
  <2>2. ASSUME NEW b \in Clients, FastPath(b) PROVE <1>2!1
    BY <2>2 DEF TypeOK, FastPath, Goto, Answer
  <2>3. ASSUME NEW b \in Clients, RollBack(b) PROVE <1>2!1 \/ b = c
    BY <2>3 DEF TypeOK, RollBack, Goto
  <2>4. ASSUME NEW b \in Clients, FindWinner(b) \/ StoreError(b) PROVE <1>2!1
    BY <2>4 DEF TypeOK, FindWinner, StoreError, Answer
  <2>5. ASSUME NEW b \in Clients, NEW id \in Ids, Commit(b, id) PROVE <1>2!1
    BY <2>5 DEF TypeOK, Commit, Answer
  <2>6. ASSUME NEW k \in Keys, Expire(k) PROVE <1>2!1
    BY <2>6 DEF Expire
  <2>7. CASE UNCHANGED vars
    BY <2>7 DEF vars
  <2> QED
    BY <2>1, <2>2, <2>3, <2>4, <2>5, <2>6, <2>7 DEF Next
<1>3. CASE cpc[c] = "again" /\ req'[c] = req[c]
  BY <1>1, <1>3, Registered DEF LoserInv, Key
<1>4. CASE RollBack(c)
  BY <1>1, <1>4, Registered DEF RollBack, Conflict, Key, TypeOK
<1> QED
  BY <1>2, <1>3, <1>4

\* An answer other than an error names the delivery its key is registered
\* for; an error follows a failed call or an expired key.
LEMMA AnswerStep == IngestInv /\ [Next]_vars => AnswerInv'
<1> SUFFICES ASSUME TypeOK, LoserInv, AnswerInv, [Next]_vars PROVE AnswerInv'
  BY DEF IngestInv
<1> DEFINE Holds(a) == IF a.kind = "error" THEN faults' > 0 \/ a.key \in expired'
                                           ELSE a.id # NoId /\ keyOf'[a.key] = a.id
<1>1. \A a \in answers : Holds(a)
  <2>1. \A a \in answers : a.key \in Keys
    BY DEF TypeOK, Answers
  <2> QED
    BY <2>1, Registered DEF AnswerInv
<1>2. ASSUME NEW a, answers' = answers \cup {a}, Holds(a) PROVE AnswerInv'
  BY <1>1, <1>2 DEF AnswerInv
<1>3. ASSUME UNCHANGED answers PROVE AnswerInv'
  BY <1>1, <1>3 DEF AnswerInv
<1>4. ASSUME NEW c \in Clients, Request(c) \/ RollBack(c) PROVE AnswerInv'
  BY <1>3, <1>4 DEF Request, RollBack, Goto
<1>5. ASSUME NEW c \in Clients, FastPath(c) PROVE AnswerInv'
  <2>1. CASE Goto(c, "insert")
    BY <1>3, <2>1 DEF Goto
  <2>2. CASE Found(Key(c)) /\ Answer(c, keyOf[Key(c)], "duplicate")
    <3> DEFINE a == [key |-> Key(c), id |-> keyOf[Key(c)], kind |-> "duplicate"]
    <3>1. Holds(a)
      BY <1>5, <2>2 DEF FastPath, Found, tables
    <3> QED
      BY <1>2, <2>2, <3>1 DEF Answer
  <2> QED
    BY <1>5, <2>1, <2>2 DEF FastPath
<1>6. ASSUME NEW c \in Clients, FindWinner(c) PROVE AnswerInv'
  <2>1. keyOf[Key(c)] # NoId
    BY <1>6 DEF FindWinner, LoserInv
  <2>2. CASE Found(Key(c))
    <3> DEFINE a == [key |-> Key(c), id |-> keyOf[Key(c)], kind |-> "duplicate"]
    <3>1. Holds(a)
      BY <1>6, <2>1 DEF FindWinner, tables
    <3> QED
      BY <1>2, <1>6, <2>2, <3>1 DEF FindWinner, Answer
  <2>3. CASE ~Found(Key(c))
    <3> DEFINE a == [key |-> Key(c), id |-> NoId, kind |-> "error"]
    <3>1. Holds(a)
      BY <1>6, <2>1, <2>3 DEF FindWinner, Found
    <3> QED
      BY <1>2, <1>6, <2>3, <3>1 DEF FindWinner, Answer
  <2> QED
    BY <2>2, <2>3
<1>7. ASSUME NEW c \in Clients, faults' = faults + 1, Answer(c, NoId, "error")
      PROVE  AnswerInv'
  <2> DEFINE a == [key |-> Key(c), id |-> NoId, kind |-> "error"]
  <2>1. faults' > 0
    BY <1>7, Registered
  <2> QED
    BY <1>2, <1>7, <2>1 DEF Answer
<1>8. ASSUME NEW c \in Clients, StoreError(c) PROVE AnswerInv'
  BY <1>7, <1>8 DEF StoreError
<1>9. ASSUME NEW c \in Clients, NEW id \in Ids, Commit(c, id) PROVE AnswerInv'
  <2>1. CASE Answer(c, id, "accepted")
    <3> DEFINE a == [key |-> Key(c), id |-> id, kind |-> "accepted"]
    <3>1. Holds(a)
      BY <1>9, IngestAssumption DEF Commit, TypeOK, Key, Requests
    <3> QED
      BY <1>2, <2>1, <3>1 DEF Answer
  <2> QED
    BY <1>7, <1>9, <2>1 DEF Commit
<1>10. ASSUME NEW k \in Keys, Expire(k) PROVE AnswerInv'
  BY <1>3, <1>10 DEF Expire
<1>11. CASE UNCHANGED vars
  BY <1>3, <1>11 DEF vars
<1> QED
  BY <1>4, <1>5, <1>6, <1>8, <1>9, <1>10, <1>11 DEF Next

\* The four parts together are inductive.
LEMMA IngestInductive == Spec => []IngestInv
<1>1. Init => IngestInv
  <2> SUFFICES ASSUME Init PROVE IngestInv
    OBVIOUS
  <2>1. TypeOK
    BY IngestTypeInit
  <2>2. KeyInv /\ LoserInv /\ AnswerInv
    BY DEF Init, KeyInv, LoserInv, AnswerInv
  <2> QED
    BY <2>1, <2>2 DEF IngestInv
<1>2. IngestInv /\ [Next]_vars => IngestInv'
  BY IngestTypeStep, KeyStep, LoserStep, AnswerStep DEF IngestInv
<1> QED
  BY <1>1, <1>2, PTL DEF Spec

\* Type correctness of the ingest path.
THEOREM IngestTypeCorrect == Spec => []TypeOK
  BY IngestInductive, PTL DEF IngestInv

\* Concurrent and repeated requests create one delivery per key between them.
THEOREM OneDelivery == Spec => []OneDeliveryPerKey
<1>1. IngestInv => OneDeliveryPerKey
  BY DEF IngestInv, KeyInv, OneDeliveryPerKey
<1> QED
  BY <1>1, IngestInductive, PTL

\* Every client is told the id of the one committed delivery of its key, which
\* the outbox or the scheduler has.
THEOREM AnswersAgree == Spec => []SameAnswer
<1>1. IngestInv => SameAnswer
  <2> SUFFICES ASSUME IngestInv, NEW a \in answers, a.kind # "error"
               PROVE  /\ \E r \in rows :
                           /\ r.id = a.id /\ r.key = a.key
                           /\ r.id \in (IF r.status = "queued" THEN boxed ELSE planned)
                      /\ \A b \in answers : b.kind # "error" /\ b.key = a.key
                            /\ a.key \notin expired => b.id = a.id
    BY DEF SameAnswer
  <2>1. a.key \in Keys /\ a.id # NoId /\ keyOf[a.key] = a.id
    BY DEF IngestInv, AnswerInv, TypeOK, Answers
  <2>2. \E r \in rows :
          /\ r.id = a.id /\ r.key = a.key
          /\ r.id \in (IF r.status = "queued" THEN boxed ELSE planned)
    BY <2>1 DEF IngestInv, KeyInv
  <2>3. \A b \in answers : b.kind # "error" /\ b.key = a.key => b.id = a.id
    BY <2>1 DEF IngestInv, AnswerInv
  <2> QED
    BY <2>2, <2>3
<1> QED
  BY <1>1, IngestInductive, PTL

\* Losing the race for a key is never answered with an error of its own.
THEOREM ErrorsAreExplained == Spec => []ErrorHasCause
<1>1. IngestInv => ErrorHasCause
  BY DEF IngestInv, AnswerInv, ErrorHasCause
<1> QED
  BY <1>1, IngestInductive, PTL

-----------------------------------------------------------------------------
(* Outbox and scheduler.                                                   *)

\* What a publisher has seen when it is about to mark its row.
PublishInv ==
  /\ PublishedIsSent
  /\ \A p \in Publishers :
       /\ ppc[p] = "mark" => sent[DeliveryOf(p)] > 0
       /\ ppc[p] = "dup" => HasPublished(DeliveryOf(p))

\* The publishers about to send a message of d, and those that have sent one
\* and not yet marked its row.
Publishing(d) == {p \in Publishers : ppc[p] = "publish" /\ DeliveryOf(p) = d}
Marking(d) == {p \in Publishers : ppc[p] = "mark" /\ DeliveryOf(p) = d}

Faults == used["broker"] + used["store"] + used["crash"]

\* Until a row of d is marked, every message of d has a publisher that is about
\* to mark it, or a fault; from then on nobody starts to send another.
Caused(d) ==
  /\ ~HasPublished(d) => sent[d] <= Cardinality(Marking(d)) + Faults
  /\ HasPublished(d) =>
       sent[d] + Cardinality(Publishing(d)) <= Cardinality(Publishers) + Faults

CauseInv == \A d \in Deliveries : Caused(d)

\* A scheduler past EnqueueDue has inserted the row it retires.
RetireInv ==
  /\ RetiredHasRow
  /\ \A s \in Schedulers : spc[s] \in {"mark", "audit"} => RowsOf(Id(s)) # {}

\* With one scheduler: a pending delivery has no outbox row, nor has the one
\* the scheduler is about to insert.
RowInv ==
  /\ \A i, j \in DOMAIN box : box[i].delivery = box[j].delivery => i = j
  /\ \A d \in ScheduledSet : status[d] = "pending" => RowsOf(d) = {}
  /\ \A s \in Schedulers :
       /\ spc[s] = "update" => status[Id(s)] = "pending"
       /\ spc[s] = "enqueue" => status[Id(s)] # "pending" /\ RowsOf(Id(s)) = {}

\* A nonempty set of naturals has a least element, which Min returns.
LEMMA MinIsMember ==
  ASSUME NEW S, S \subseteq Nat, S # {}
  PROVE  Min(S) \in S /\ \A j \in S : Min(S) <= j
<1>1. PICK x \in S : \A y \in S : ~(<<y, x>> \in OpToRel(<, Nat))
  BY NatLessThanWellFounded, WFMin
<1>2. \A y \in S : x <= y
  <2> TAKE y \in S
  <2>1. x \in Nat /\ y \in Nat
    OBVIOUS
  <2>2. ~(y < x)
    BY <1>1, <2>1 DEF OpToRel
  <2> QED
    BY <2>1, <2>2
<1> QED
  BY <1>2 DEF Min

\* LIMIT keeps at least one row of a nonempty set.
LEMMA FirstOfIsNonempty ==
  ASSUME NEW S, S \subseteq Nat, S # {}, NEW n \in Nat \ {0}
  PROVE  FirstOf(S, n) # {} /\ FirstOf(S, n) \subseteq S
<1>1. PICK m \in S : \A j \in S : m <= j
  BY MinIsMember
<1>2. {j \in S : j <= m} = {m}
  <2>1. \A j \in S : j <= m => j = m
    BY <1>1
  <2>2. m <= m
    BY <1>1
  <2> QED
    BY <2>1, <2>2
<1>3. Cardinality({j \in S : j <= m}) <= n
  BY <1>2, FS_Singleton
<1> QED
  BY <1>3 DEF FirstOf

-----------------------------------------------------------------------------
(* Types.                                                                  *)

\* A publisher in a flush is at a row of its batch.
LEMMA PublisherAt ==
  ASSUME OutboxTypeOK, NEW p \in Publishers, ppc[p] # "idle"
  PROVE  /\ Current(p) \in batch[p] /\ Current(p) \in DOMAIN box
         /\ box[Current(p)] \in BoxRows /\ DeliveryOf(p) \in Deliveries
<1>1. batch[p] # {} /\ batch[p] \subseteq DOMAIN box
  BY DEF OutboxTypeOK
<1>2. DOMAIN box \subseteq Nat
  BY DEF OutboxTypeOK
<1>3. Current(p) \in batch[p]
  BY <1>1, <1>2, MinIsMember DEF Current
<1>4. box[Current(p)] \in BoxRows
  BY <1>1, <1>3 DEF OutboxTypeOK
<1> QED
  BY <1>1, <1>3, <1>4 DEF DeliveryOf, BoxRows

\* The two columns a publisher writes.
LEMMA RowUpdate ==
  ASSUME NEW r \in BoxRows
  PROVE  /\ [r EXCEPT !.attempts = @ + 1] \in BoxRows
         /\ [r EXCEPT !.published = TRUE] \in BoxRows
         /\ [r EXCEPT !.attempts = @ + 1].delivery = r.delivery
         /\ [r EXCEPT !.attempts = @ + 1].published = r.published
         /\ [r EXCEPT !.published = TRUE].delivery = r.delivery
         /\ [r EXCEPT !.published = TRUE].published = TRUE
<1>1. r.attempts + 1 \in Nat
  BY DEF BoxRows
<1>2. ASSUME NEW n \in Nat PROVE [r EXCEPT !.attempts = n] \in BoxRows
  BY Zenon DEF BoxRows
<1>3. [r EXCEPT !.published = TRUE] \in BoxRows
  BY DEF BoxRows
<1>4. ASSUME NEW n \in Nat
      PROVE  /\ [r EXCEPT !.attempts = n].delivery = r.delivery
             /\ [r EXCEPT !.attempts = n].published = r.published
  BY Zenon DEF BoxRows
<1>5. /\ [r EXCEPT !.published = TRUE].delivery = r.delivery
      /\ [r EXCEPT !.published = TRUE].published = TRUE
  BY Zenon DEF BoxRows
<1> QED
  BY <1>1, <1>2, <1>3, <1>4, <1>5

\* An UPDATE of one row, and the INSERT of a new one.
LEMMA BoxUpdate ==
  ASSUME NEW b \in Seq(BoxRows), NEW i \in DOMAIN b, NEW r \in BoxRows
  PROVE  /\ [b EXCEPT ![i] = r] \in Seq(BoxRows)
         /\ DOMAIN [b EXCEPT ![i] = r] = DOMAIN b
  OBVIOUS

\* An INSERT leaves the rows there are alone.
LEMMA BoxInsert ==
  ASSUME NEW b \in Seq(BoxRows), NEW d \in Deliveries
  PROVE  /\ Append(b, NewBoxRow(d)) \in Seq(BoxRows)
         /\ DOMAIN b \subseteq DOMAIN Append(b, NewBoxRow(d))
         /\ DOMAIN Append(b, NewBoxRow(d)) = DOMAIN b \cup {Len(b) + 1}
         /\ Len(b) + 1 \notin DOMAIN b
         /\ \A i \in DOMAIN b : Append(b, NewBoxRow(d))[i] = b[i]
         /\ Append(b, NewBoxRow(d))[Len(b) + 1] = NewBoxRow(d)
<1>1. NewBoxRow(d) \in BoxRows
  BY DEF NewBoxRow, BoxRows
<1> QED
  BY <1>1

\* A fault is counted.
LEMMA SpendType ==
  ASSUME used \in [FaultKinds -> Nat], NEW k \in FaultKinds, Spend(k)
  PROVE  used' \in [FaultKinds -> Nat]
  BY DEF Spend

\* Continue keeps "idle" and the empty batch together.
LEMMA ContinueType ==
  ASSUME OutboxTypeOK, NEW p \in Publishers, ppc[p] # "idle", Continue(p)
  PROVE  /\ ppc' \in [Publishers -> {"idle", "check", "dup", "publish", "fail", "mark"}]
         /\ batch' \in [Publishers -> SUBSET DOMAIN box]
         /\ \A q \in Publishers : ppc'[q] = "idle" <=> batch'[q] = {}
<1>1. Current(p) \in batch[p]
  BY PublisherAt
<1>2. /\ batch'[p] = batch[p] \ {Current(p)}
      /\ ppc'[p] = IF batch[p] = {Current(p)} THEN "idle" ELSE "check"
      /\ \A q \in Publishers \ {p} : batch'[q] = batch[q] /\ ppc'[q] = ppc[q]
  BY DEF OutboxTypeOK, Continue
<1>3. ppc'[p] = "idle" <=> batch'[p] = {}
  BY <1>1, <1>2
<1> QED
  BY <1>2, <1>3 DEF OutboxTypeOK, Continue

\* Each step of ingest and of a publisher keeps the types.
LEMMA OutboxTypeStep == OutboxTypeOK /\ OutboxNext => OutboxTypeOK'
<1> SUFFICES ASSUME OutboxTypeOK, OutboxNext PROVE OutboxTypeOK'
  OBVIOUS
<1> USE OutboxAssumption
<1>1. ASSUME NEW d \in Deliveries, Enqueue(d) PROVE OutboxTypeOK'
  <2>1. box' \in Seq(BoxRows) /\ DOMAIN box \subseteq DOMAIN box'
    BY <1>1, BoxInsert DEF Enqueue, OutboxTypeOK
  <2> QED
    BY <1>1, <2>1 DEF Enqueue, OutboxTypeOK
<1>2. ASSUME NEW p \in Publishers, FetchPending(p) PROVE OutboxTypeOK'
  <2>1. PendingIds \subseteq Nat /\ PendingIds # {} /\ PendingIds \subseteq DOMAIN box
    BY <1>2 DEF FetchPending, PendingIds, OutboxTypeOK
  <2>2. FirstOf(PendingIds, Batch) # {} /\ FirstOf(PendingIds, Batch) \subseteq DOMAIN box
    BY <2>1, FirstOfIsNonempty
  <2> QED
    BY <1>2, <2>2 DEF FetchPending, OutboxTypeOK
<1>3. ASSUME NEW p \in Publishers, HasPublishedForDelivery(p) PROVE OutboxTypeOK'
  BY <1>3 DEF HasPublishedForDelivery, OutboxTypeOK
<1>4. ASSUME NEW p \in Publishers, Publish(p) PROVE OutboxTypeOK'
  <2>1. DeliveryOf(p) \in Deliveries
    BY <1>4, PublisherAt DEF Publish
  <2>2. sent' \in [Deliveries -> Nat]
    <3>1. sent' = sent \/ sent' = [sent EXCEPT ![DeliveryOf(p)] = @ + 1]
      BY <1>4 DEF Publish
    <3> QED
      BY <2>1, <3>1 DEF OutboxTypeOK
  <2>3. used' \in [FaultKinds -> Nat]
    BY <1>4, SpendType DEF Publish, OutboxTypeOK, FaultKinds
  <2>4. \E l \in {"mark", "fail"} : ppc' = [ppc EXCEPT ![p] = l]
    BY <1>4 DEF Publish, OnPublishError
  <2>5. /\ ppc' \in [Publishers -> {"idle", "check", "dup", "publish", "fail", "mark"}]
        /\ \A q \in Publishers : ppc'[q] = "idle" <=> batch[q] = {}
    BY <1>4, <2>4 DEF Publish, OutboxTypeOK
  <2> QED
    BY <1>4, <2>2, <2>3, <2>5 DEF Publish, OutboxTypeOK
<1>5. ASSUME NEW p \in Publishers, MarkFailed(p) \/ MarkPublished(p) PROVE OutboxTypeOK'
  <2>1. Current(p) \in DOMAIN box /\ box[Current(p)] \in BoxRows
    BY <1>5, PublisherAt DEF MarkFailed, MarkPublished
  <2>2. PICK r \in BoxRows : box' = [box EXCEPT ![Current(p)] = r]
    <3>1. /\ [box[Current(p)] EXCEPT !.attempts = @ + 1] \in BoxRows
          /\ [box[Current(p)] EXCEPT !.published = TRUE] \in BoxRows
      BY <2>1, RowUpdate
    <3> QED
      BY <1>5, <3>1 DEF MarkFailed, MarkPublished
  <2>3. box' \in Seq(BoxRows) /\ DOMAIN box' = DOMAIN box
    BY <2>1, <2>2, BoxUpdate DEF OutboxTypeOK
  <2>4. ppc[p] # "idle" /\ Continue(p)
    BY <1>5 DEF MarkFailed, MarkPublished
  <2> QED
    BY <1>5, <2>3, <2>4, ContinueType DEF MarkFailed, MarkPublished, OutboxTypeOK
<1>6. ASSUME NEW p \in Publishers, FlushError(p) PROVE OutboxTypeOK'
  BY <1>6, ContinueType, SpendType DEF FlushError, OutboxTypeOK, FaultKinds
<1>7. ASSUME NEW p \in Publishers, PublisherCrash(p) PROVE OutboxTypeOK'
  BY <1>7, SpendType DEF PublisherCrash, OutboxTypeOK, FaultKinds
<1> QED
  BY <1>1, <1>2, <1>3, <1>4, <1>5, <1>6, <1>7 DEF OutboxNext, Flush

\* A scheduler in a tick is at a row of its batch, whose delivery was ingested
\* for later.
LEMMA SchedulerAt ==
  ASSUME SchedulerTypeOK, NEW s \in Schedulers, spc[s] # "idle"
  PROVE  /\ AtRow(s) \in due[s]
         /\ Id(s) \in ScheduledSet /\ Id(s) \in Deliveries \ Immediate
<1>1. due[s] # {} /\ due[s] \subseteq 1..now /\ now \in 0..Len(Scheduled)
  BY DEF SchedulerTypeOK
<1>2. due[s] \subseteq Nat /\ due[s] \subseteq DOMAIN Scheduled
  BY <1>1, SchedulerAssumption
<1>3. AtRow(s) \in due[s]
  BY <1>1, <1>2, MinIsMember DEF AtRow
<1> QED
  BY <1>2, <1>3, SchedulerAssumption DEF Id, ScheduledSet

\* The scheduler's variables with their types, and its three ways to move on.
LocalType ==
  /\ spc \in [Schedulers -> {"idle", "find", "update", "enqueue", "mark", "audit"}]
  /\ due \in [Schedulers -> SUBSET (1..now)]
  /\ \A s \in Schedulers : spc[s] = "idle" <=> due[s] = {}

\* On to the next due row, or to the end of the tick.
LEMMA NextDueType ==
  ASSUME SchedulerTypeOK, NEW s \in Schedulers, spc[s] # "idle", NextDue(s), now' = now
  PROVE  LocalType'
<1>1. AtRow(s) \in due[s]
  BY SchedulerAt
<1>2. /\ due'[s] = due[s] \ {AtRow(s)}
      /\ spc'[s] = IF due[s] = {AtRow(s)} THEN "idle" ELSE "find"
      /\ \A q \in Schedulers \ {s} : due'[q] = due[q] /\ spc'[q] = spc[q]
  BY DEF SchedulerTypeOK, NextDue
<1>3. spc'[s] = "idle" <=> due'[s] = {}
  BY <1>1, <1>2
<1> QED
  BY <1>2, <1>3 DEF SchedulerTypeOK, NextDue, LocalType

\* A statement's reply arrives, or the tick ends.
LEMMA DoneType ==
  ASSUME SchedulerTypeOK, NEW s \in Schedulers, spc[s] # "idle", now' = now,
         NEW l \in {"find", "update", "enqueue", "mark", "audit"}, Done(s, l)
  PROVE  LocalType' /\ used' \in [FaultKinds -> Nat]
<1>1. CASE spc' = [spc EXCEPT ![s] = l] /\ UNCHANGED <<due, used>>
  BY <1>1 DEF SchedulerTypeOK, OutboxTypeOK, LocalType
<1>2. CASE Abort(s)
  BY <1>2, SpendType DEF Abort, SchedulerTypeOK, OutboxTypeOK, FaultKinds, LocalType
<1> QED
  BY <1>1, <1>2 DEF Done

\* Each step of a scheduler keeps the types.
LEMMA SchedulerTypeStep ==
  SchedulerTypeOK /\ [SchedulerNext]_allVars => SchedulerTypeOK'
<1> SUFFICES ASSUME SchedulerTypeOK, [SchedulerNext]_allVars PROVE SchedulerTypeOK'
  OBVIOUS
<1>1. CASE OutboxNext /\ UNCHANGED svars
  BY <1>1, OutboxTypeStep DEF SchedulerTypeOK, svars
<1>2. CASE ComesDue
  <2>1. now' \in 0..Len(Scheduled) /\ 1..now \subseteq 1..now'
    BY <1>2, SchedulerAssumption DEF ComesDue, SchedulerTypeOK
  <2>2. due' \in [Schedulers -> SUBSET (1..now')]
    BY <1>2, <2>1 DEF ComesDue, SchedulerTypeOK
  <2> QED
    BY <1>2, <2>1, <2>2 DEF ComesDue, SchedulerTypeOK, OutboxTypeOK, ovars
<1>3. ASSUME NEW s \in Schedulers, FetchDue(s) PROVE SchedulerTypeOK'
  <2>1. DueIds \subseteq 1..now /\ DueIds # {} /\ 1..now \subseteq Nat
    BY <1>3 DEF FetchDue, DueIds, SchedulerTypeOK
  <2>2. FirstOf(DueIds, DueBatch) # {} /\ FirstOf(DueIds, DueBatch) \subseteq 1..now
    <3>1. DueIds \subseteq Nat
      BY <2>1
    <3> QED
      BY <2>1, <3>1, FirstOfIsNonempty, SchedulerAssumption
  <2> QED
    BY <1>3, <2>2 DEF FetchDue, SchedulerTypeOK, OutboxTypeOK, ovars
<1>4. ASSUME NEW s \in Schedulers, FindAndQueue(s) PROVE SchedulerTypeOK'
  <2>1. LocalType'
    <3>1. CASE spc' = [spc EXCEPT ![s] = "update"] /\ UNCHANGED due
      BY <1>4, <3>1 DEF FindAndQueue, SchedulerTypeOK, LocalType
    <3>2. CASE NextDue(s)
      BY <1>4, <3>2, NextDueType DEF FindAndQueue
    <3> QED
      BY <1>4, <3>1, <3>2 DEF FindAndQueue
  <2> QED
    BY <1>4, <2>1 DEF FindAndQueue, SchedulerTypeOK, OutboxTypeOK, ovars, LocalType
<1>5. ASSUME NEW s \in Schedulers, UpdateQueued(s) PROVE SchedulerTypeOK'
  <2>1. LocalType' /\ used' \in [FaultKinds -> Nat]
    BY <1>5, DoneType DEF UpdateQueued
  <2>2. status' \in [Deliveries -> Statuses]
    BY <1>5 DEF UpdateQueued, SchedulerTypeOK, Statuses
  <2> QED
    BY <1>5, <2>1, <2>2 DEF UpdateQueued, SchedulerTypeOK, OutboxTypeOK, LocalType
<1>6. ASSUME NEW s \in Schedulers, EnqueueDue(s) PROVE SchedulerTypeOK'
  <2>1. LocalType' /\ used' \in [FaultKinds -> Nat]
    BY <1>6, DoneType DEF EnqueueDue
  <2>2. box' \in Seq(BoxRows) /\ DOMAIN box \subseteq DOMAIN box'
    BY <1>6, SchedulerAt, BoxInsert DEF EnqueueDue, SchedulerTypeOK, OutboxTypeOK
  <2>3. batch' \in [Publishers -> SUBSET DOMAIN box']
    BY <1>6, <2>2 DEF EnqueueDue, SchedulerTypeOK, OutboxTypeOK
  <2> QED
    BY <1>6, <2>1, <2>2, <2>3 DEF EnqueueDue, SchedulerTypeOK, OutboxTypeOK, LocalType
<1>7. ASSUME NEW s \in Schedulers, MarkProcessed(s) PROVE SchedulerTypeOK'
  <2>1. LocalType' /\ used' \in [FaultKinds -> Nat]
    BY <1>7, DoneType DEF MarkProcessed
  <2>2. processed' \subseteq ScheduledSet
    BY <1>7, SchedulerAt DEF MarkProcessed, SchedulerTypeOK
  <2> QED
    BY <1>7, <2>1, <2>2 DEF MarkProcessed, SchedulerTypeOK, OutboxTypeOK, LocalType
<1>8. ASSUME NEW s \in Schedulers, AuditQueued(s) PROVE SchedulerTypeOK'
  <2>1. LocalType'
    BY <1>8, NextDueType DEF AuditQueued
  <2>2. queuedEvents' \subseteq Deliveries /\ used' \in [FaultKinds -> Nat]
    BY <1>8, SchedulerAt, SpendType
    DEF AuditQueued, SchedulerTypeOK, OutboxTypeOK, FaultKinds
  <2> QED
    BY <1>8, <2>1, <2>2 DEF AuditQueued, SchedulerTypeOK, OutboxTypeOK, LocalType
<1>9. ASSUME NEW s \in Schedulers, FindError(s) PROVE SchedulerTypeOK'
  <2>1. LocalType' /\ used' \in [FaultKinds -> Nat]
    BY <1>9, NextDueType, SpendType
    DEF FindError, SchedulerTypeOK, OutboxTypeOK, FaultKinds
  <2> QED
    BY <1>9, <2>1 DEF FindError, SchedulerTypeOK, OutboxTypeOK, LocalType
<1>10. ASSUME NEW s \in Schedulers, TickError(s) PROVE SchedulerTypeOK'
  BY <1>10, SpendType
  DEF TickError, Abort, SchedulerTypeOK, OutboxTypeOK, FaultKinds
<1>11. ASSUME NEW d \in Deliveries, WorkerSettles(d) PROVE SchedulerTypeOK'
  BY <1>11 DEF WorkerSettles, SchedulerTypeOK, OutboxTypeOK, ovars, Statuses
<1>12. CASE UNCHANGED allVars
  BY <1>12 DEF allVars, ovars, svars, SchedulerTypeOK, OutboxTypeOK
<1> QED
  BY <1>1, <1>2, <1>3, <1>4, <1>5, <1>6, <1>7, <1>8, <1>9, <1>10, <1>11, <1>12
  DEF SchedulerNext, ProcessDue

\* Empty tables are well typed.
LEMMA SchedulerTypeInit == SchedulerInit => SchedulerTypeOK
<1> SUFFICES ASSUME SchedulerInit PROVE SchedulerTypeOK
  OBVIOUS
<1>1. OutboxTypeOK
  BY DEF SchedulerInit, OutboxInit, OutboxTypeOK
<1>2. 0 \in 0..Len(Scheduled)
  BY SchedulerAssumption
<1> QED
  BY <1>1, <1>2 DEF SchedulerInit, SchedulerTypeOK, Statuses

-----------------------------------------------------------------------------
(* What a step does to the outbox.                                         *)

\* Seen from the outbox a step does nothing, inserts a row, or is a publisher's.
Idle == UNCHANGED <<box, sent, ppc, batch>> /\ Faults' = Faults
Inserts(d) ==
  /\ box' = Append(box, NewBoxRow(d))
  /\ UNCHANGED <<sent, ppc, batch>> /\ Faults' = Faults
  /\ Enqueue(d) \/ \E s \in Schedulers : EnqueueDue(s) /\ d = Id(s)
Publisher(p) == Flush(p) \/ FlushError(p) \/ PublisherCrash(p)

\* A step leaves table and stream alone, inserts a row, or is a publisher's.
LEMMA OutboxView ==
  ASSUME SchedulerTypeOK, [SchedulerNext]_allVars
  PROVE  \/ Idle
         \/ \E d \in Deliveries : Inserts(d)
         \/ \E p \in Publishers : Publisher(p)
<1> USE DEF Idle, Inserts, Publisher
<1>1. ASSUME UNCHANGED used PROVE Faults' = Faults
  BY <1>1 DEF Faults
<1>2. ASSUME Spend("scheduler") PROVE Faults' = Faults
  BY <1>2 DEF Faults, Spend, SchedulerTypeOK, OutboxTypeOK, FaultKinds
<1>3. CASE OutboxNext /\ UNCHANGED svars
  BY <1>1, <1>3 DEF OutboxNext, Enqueue
<1>4. CASE ComesDue
  BY <1>1, <1>4 DEF ComesDue, ovars
<1>5. ASSUME NEW s \in Schedulers, FetchDue(s) \/ FindAndQueue(s) PROVE Idle
  BY <1>1, <1>5 DEF FetchDue, FindAndQueue, ovars
<1>6. ASSUME NEW s \in Schedulers, UpdateQueued(s) \/ MarkProcessed(s) PROVE Idle
  BY <1>1, <1>2, <1>6 DEF UpdateQueued, MarkProcessed, Done, Abort
<1>7. ASSUME NEW s \in Schedulers, EnqueueDue(s) PROVE \E d \in Deliveries : Inserts(d)
  <2>1. Id(s) \in Deliveries
    BY <1>7, SchedulerAt DEF EnqueueDue
  <2>2. Faults' = Faults
    BY <1>1, <1>2, <1>7 DEF EnqueueDue, Done, Abort
  <2> QED
    BY <1>7, <2>1, <2>2 DEF EnqueueDue
<1>8. ASSUME NEW s \in Schedulers, AuditQueued(s) \/ FindError(s) \/ TickError(s)
      PROVE  Idle
  BY <1>1, <1>2, <1>8 DEF AuditQueued, FindError, TickError, Abort
<1>9. ASSUME NEW d \in Deliveries, WorkerSettles(d) PROVE Idle
  BY <1>1, <1>9 DEF WorkerSettles, ovars
<1>10. CASE UNCHANGED allVars
  BY <1>1, <1>10 DEF allVars, ovars
<1> QED
  BY <1>3, <1>4, <1>5, <1>6, <1>7, <1>8, <1>9, <1>10 DEF SchedulerNext, ProcessDue

\* Rows are never removed, never change their delivery and never become
\* unpublished; the stream only grows.
Grows ==
  /\ DOMAIN box \subseteq DOMAIN box'
  /\ \A i \in DOMAIN box : box'[i].delivery = box[i].delivery
                           /\ (box[i].published => box'[i].published)
  /\ \A d \in Deliveries : sent[d] \in Nat /\ sent'[d] \in Nat /\ sent[d] <= sent'[d]

\* Every step is such a step, and only an INSERT adds a row.
LEMMA OutboxGrows ==
  ASSUME SchedulerTypeOK, [SchedulerNext]_allVars
  PROVE  /\ Grows
         /\ DOMAIN box' = DOMAIN box \/ \E d \in Deliveries : Inserts(d)
<1> USE DEF Grows, SchedulerTypeOK, OutboxTypeOK
<1> DEFINE Kept == DOMAIN box' = DOMAIN box
<1>1. CASE Idle
  BY <1>1 DEF Idle
<1>2. ASSUME NEW d \in Deliveries, Inserts(d) PROVE Grows
  BY <1>2, BoxInsert DEF Inserts
<1>3. ASSUME NEW p \in Publishers, FetchPending(p) \/ HasPublishedForDelivery(p)
        \/ FlushError(p) \/ PublisherCrash(p)
      PROVE  Grows /\ Kept
  BY <1>3 DEF FetchPending, HasPublishedForDelivery, FlushError, PublisherCrash
<1>4. ASSUME NEW p \in Publishers, Publish(p) PROVE Grows /\ Kept
  <2>1. sent' = sent \/ sent' = [sent EXCEPT ![DeliveryOf(p)] = @ + 1]
    BY <1>4 DEF Publish
  <2>2. \A d \in Deliveries : sent[d] \in Nat /\ sent'[d] \in Nat /\ sent[d] <= sent'[d]
    <3>1. PICK e \in Deliveries : e = DeliveryOf(p)
      BY <1>4, PublisherAt DEF Publish
    <3>2. sent \in [Deliveries -> Nat] /\ sent' \in {sent, [sent EXCEPT ![e] = @ + 1]}
      BY <2>1, <3>1
    <3> QED
      BY ONLY <3>2
  <2>3. box' = box
    BY <1>4 DEF Publish
  <2> QED
    BY <2>2, <2>3
<1>5. ASSUME NEW p \in Publishers, MarkFailed(p) \/ MarkPublished(p) PROVE Grows /\ Kept
  <2>1. Current(p) \in DOMAIN box /\ box[Current(p)] \in BoxRows
    BY <1>5, PublisherAt DEF MarkFailed, MarkPublished
  <2>2. PICK r : /\ box' = [box EXCEPT ![Current(p)] = r]
                 /\ r.delivery = box[Current(p)].delivery
                 /\ r.published \in {box[Current(p)].published, TRUE}
    <3>1. MarkFailed(p) => box' = [box EXCEPT ![Current(p)] =
                                     [box[Current(p)] EXCEPT !.attempts = @ + 1]]
      BY DEF MarkFailed
    <3>2. MarkPublished(p) => box' = [box EXCEPT ![Current(p)] =
                                        [box[Current(p)] EXCEPT !.published = TRUE]]
      BY DEF MarkPublished
    <3>3. PICK c \in BoxRows : c = box[Current(p)]
      BY <2>1
    <3>4. CASE MarkFailed(p)
      <4> DEFINE r == [c EXCEPT !.attempts = @ + 1]
      <4>1. r.delivery = c.delivery /\ r.published = c.published
        BY RowUpdate
      <4> HIDE DEF r
      <4>2. box' = [box EXCEPT ![Current(p)] = r]
        BY <3>1, <3>3, <3>4 DEF r
      <4> QED
        BY <3>3, <4>1, <4>2
    <3>5. CASE MarkPublished(p)
      <4> DEFINE r == [c EXCEPT !.published = TRUE]
      <4>1. r.delivery = c.delivery /\ r.published = TRUE
        BY RowUpdate
      <4> HIDE DEF r
      <4>2. box' = [box EXCEPT ![Current(p)] = r]
        BY <3>2, <3>3, <3>5 DEF r
      <4> QED
        BY <3>3, <4>1, <4>2
    <3> QED
      BY <1>5, <3>4, <3>5
  <2>3. sent' = sent
    BY <1>5 DEF MarkFailed, MarkPublished
  <2>4. /\ DOMAIN box' = DOMAIN box
        /\ box'[Current(p)] = r
        /\ \A i \in DOMAIN box \ {Current(p)} : box'[i] = box[i]
    BY <2>1, <2>2
  <2>5. \A i \in DOMAIN box : box'[i].delivery = box[i].delivery
                               /\ (box[i].published => box'[i].published)
    BY <2>2, <2>4
  <2> QED
    BY <2>3, <2>4, <2>5
<1> QED
  BY <1>1, <1>2, <1>3, <1>4, <1>5, OutboxView DEF Publisher, Flush

\* So what a delivery has, and which delivery a publisher is at, stays.
LEMMA GrowsKeeps ==
  ASSUME SchedulerTypeOK, Grows
  PROVE  /\ \A d : RowsOf(d) \subseteq RowsOf(d)'
         /\ \A d : HasPublished(d) => HasPublished(d)'
         /\ \A p \in Publishers : ppc[p] # "idle" /\ batch'[p] = batch[p]
              => DeliveryOf(p)' = DeliveryOf(p)
<1>1. \A d : RowsOf(d) \subseteq RowsOf(d)'
  BY DEF Grows, RowsOf
<1>2. \A d : HasPublished(d) => HasPublished(d)'
  BY <1>1 DEF Grows, HasPublished, RowsOf
<1>3. ASSUME NEW p \in Publishers, ppc[p] # "idle", batch'[p] = batch[p]
      PROVE  DeliveryOf(p)' = DeliveryOf(p)
  <2>1. Current(p) \in DOMAIN box /\ Current(p)' = Current(p)
    BY <1>3, PublisherAt DEF SchedulerTypeOK, Current
  <2> QED
    BY <2>1 DEF Grows, DeliveryOf
<1> QED
  BY <1>1, <1>2, <1>3

-----------------------------------------------------------------------------
(* Published rows.                                                         *)

\* How a publisher gets to the point of sending or marking.
LEMMA PublisherMoves ==
  ASSUME SchedulerTypeOK, [SchedulerNext]_allVars, NEW q \in Publishers,
         ppc'[q] \in {"publish", "mark", "dup"}
  PROVE  /\ batch'[q] = batch[q] /\ ppc[q] # "idle"
         /\ \/ ppc'[q] = ppc[q]
            \/ Publish(q) /\ ppc'[q] = "mark"
               /\ sent' = [sent EXCEPT ![DeliveryOf(q)] = @ + 1]
            \/ HasPublishedForDelivery(q) /\ ppc'[q] # "mark"
<1> DEFINE Goal == /\ batch'[q] = batch[q] /\ ppc[q] # "idle"
                   /\ \/ ppc'[q] = ppc[q]
                      \/ Publish(q) /\ ppc'[q] = "mark"
                         /\ sent' = [sent EXCEPT ![DeliveryOf(q)] = @ + 1]
                      \/ HasPublishedForDelivery(q) /\ ppc'[q] # "mark"
<1>1. CASE Idle \/ \E d \in Deliveries : Inserts(d)
  BY <1>1 DEF Idle, Inserts
<1>2. ASSUME NEW p \in Publishers, FetchPending(p) PROVE Goal
  BY <1>2 DEF FetchPending, SchedulerTypeOK, OutboxTypeOK
<1>3. ASSUME NEW p \in Publishers, HasPublishedForDelivery(p) PROVE Goal
  BY <1>3 DEF HasPublishedForDelivery, SchedulerTypeOK, OutboxTypeOK
<1>4. ASSUME NEW p \in Publishers, Publish(p) PROVE Goal
  BY <1>4 DEF Publish, OnPublishError, SchedulerTypeOK, OutboxTypeOK
<1>5. ASSUME NEW p \in Publishers, Continue(p) \/ PublisherCrash(p) PROVE Goal
  <2>1. ppc'[p] \in {"idle", "check"} /\ \A r \in Publishers \ {p} : ppc'[r] = ppc[r]
                                                                     /\ batch'[r] = batch[r]
    BY <1>5 DEF Continue, PublisherCrash, SchedulerTypeOK, OutboxTypeOK
  <2> QED
    BY <2>1 DEF SchedulerTypeOK, OutboxTypeOK
<1> QED
  BY <1>1, <1>2, <1>3, <1>4, <1>5, OutboxView
  DEF Publisher, Flush, MarkFailed, MarkPublished, FlushError

\* MarkPublished is reached only with a message of the delivery on the stream.
LEMMA PublishStep ==
  SchedulerTypeOK /\ PublishInv /\ [SchedulerNext]_allVars => PublishInv'
<1> SUFFICES ASSUME SchedulerTypeOK, PublishInv, [SchedulerNext]_allVars
             PROVE  PublishInv'
  OBVIOUS
<1>1. Grows
  BY OutboxGrows
<1>2. \A p \in Publishers : ppc[p] # "idle" =>
        /\ Current(p) \in DOMAIN box /\ DeliveryOf(p) \in Deliveries
  BY PublisherAt DEF SchedulerTypeOK
<1>3. ASSUME NEW p \in Publishers, ppc[p] \in {"mark", "dup"}
      PROVE  sent[DeliveryOf(p)] > 0
  BY <1>3 DEF PublishInv, PublishedIsSent, HasPublished, RowsOf
<1>4. ASSUME NEW i \in DOMAIN box', box'[i].published
      PROVE  i \in DOMAIN box /\ sent[box[i].delivery] > 0
  <2>1. CASE box' = box
    BY <1>4, <2>1 DEF PublishInv, PublishedIsSent
  <2>2. ASSUME NEW d \in Deliveries, Inserts(d)
        PROVE  i \in DOMAIN box /\ sent[box[i].delivery] > 0
    <3>1. NewBoxRow(d).published = FALSE
      BY DEF NewBoxRow
    <3>2. i \in DOMAIN box /\ box[i].published
      BY <1>4, <2>2, <3>1, BoxInsert DEF Inserts, SchedulerTypeOK, OutboxTypeOK
    <3> QED
      BY <3>2 DEF PublishInv, PublishedIsSent
  <2>3. ASSUME NEW p \in Publishers, MarkFailed(p)
        PROVE  i \in DOMAIN box /\ sent[box[i].delivery] > 0
    <3>1. PICK j \in DOMAIN box : j = Current(p) /\ box[j] \in BoxRows
      BY <2>3, PublisherAt DEF MarkFailed, SchedulerTypeOK
    <3>2. box' = [box EXCEPT ![j] = [box[j] EXCEPT !.attempts = @ + 1]]
      BY <2>3, <3>1 DEF MarkFailed
    <3>3. i \in DOMAIN box /\ box[i].published
      BY <1>4, <3>1, <3>2, RowUpdate DEF SchedulerTypeOK, OutboxTypeOK
    <3> QED
      BY <3>3 DEF PublishInv, PublishedIsSent
  <2>4. ASSUME NEW p \in Publishers, MarkPublished(p)
        PROVE  i \in DOMAIN box /\ sent[box[i].delivery] > 0
    <3>1. PICK j \in DOMAIN box : j = Current(p)
      BY <1>2, <2>4 DEF MarkPublished
    <3>2. /\ DOMAIN box' = DOMAIN box
          /\ i # j => box'[i] = box[i]
      BY <2>4, <3>1 DEF MarkPublished, SchedulerTypeOK, OutboxTypeOK
    <3>3. CASE i = j
      BY <1>3, <2>4, <3>1, <3>3 DEF MarkPublished, DeliveryOf
    <3>4. CASE i # j
      BY <1>4, <3>2, <3>4 DEF PublishInv, PublishedIsSent
    <3> QED
      BY <3>3, <3>4
  <2>5. ASSUME NEW p \in Publishers, FetchPending(p) \/ HasPublishedForDelivery(p)
          \/ Publish(p) \/ FlushError(p) \/ PublisherCrash(p)
        PROVE  box' = box
    BY <2>5 DEF FetchPending, HasPublishedForDelivery, Publish, FlushError, PublisherCrash
  <2> QED
    BY <2>1, <2>2, <2>3, <2>4, <2>5, OutboxView DEF Idle, Publisher, Flush
<1>5. PublishedIsSent'
  <2> SUFFICES ASSUME NEW i \in DOMAIN box', box'[i].published
               PROVE  sent'[box'[i].delivery] > 0
    BY DEF PublishedIsSent
  <2>1. i \in DOMAIN box /\ sent[box[i].delivery] > 0
    BY <1>4
  <2>2. box'[i].delivery = box[i].delivery /\ box[i].delivery \in Deliveries
    <3>1. box'[i].delivery = box[i].delivery
      BY <1>1, <2>1 DEF Grows
    <3>2. box[i] \in BoxRows
      BY <2>1 DEF SchedulerTypeOK, OutboxTypeOK
    <3> QED
      BY <3>1, <3>2 DEF BoxRows
  <2> QED
    BY <1>1, <2>1, <2>2 DEF Grows
<1>6. ASSUME NEW p \in Publishers, ppc'[p] = "mark" PROVE sent'[DeliveryOf(p)'] > 0
  <2>1. ppc[p] # "idle" /\ batch'[p] = batch[p]
    BY <1>6, PublisherMoves
  <2>2. DeliveryOf(p)' = DeliveryOf(p) /\ DeliveryOf(p) \in Deliveries
    BY <1>1, <1>2, <2>1, GrowsKeeps
  <2>3. CASE ppc[p] = "mark"
    BY <1>1, <2>2, <2>3 DEF Grows, PublishInv
  <2>4. CASE sent' = [sent EXCEPT ![DeliveryOf(p)] = @ + 1]
    BY <2>2, <2>4 DEF SchedulerTypeOK, OutboxTypeOK
  <2> QED
    BY <1>6, <2>3, <2>4, PublisherMoves
<1>7. ASSUME NEW p \in Publishers, ppc'[p] = "dup" PROVE HasPublished(DeliveryOf(p))'
  <2>1. ppc[p] # "idle" /\ batch'[p] = batch[p]
    BY <1>7, PublisherMoves
  <2>2. DeliveryOf(p)' = DeliveryOf(p)
    BY <1>1, <2>1, GrowsKeeps
  <2>3. HasPublished(DeliveryOf(p))
    <3>1. CASE ppc[p] = "dup"
      BY <3>1 DEF PublishInv
    <3>2. CASE HasPublishedForDelivery(p)
      BY <1>7, <3>2 DEF HasPublishedForDelivery, SchedulerTypeOK, OutboxTypeOK
    <3> QED
      BY <1>7, <3>1, <3>2, PublisherMoves
  <2>4. PICK d : d = DeliveryOf(p)
    OBVIOUS
  <2>5. HasPublished(d)'
    BY <1>1, <2>3, <2>4, GrowsKeeps
  <2> QED
    BY <2>2, <2>4, <2>5 DEF HasPublished, RowsOf
<1> QED
  BY <1>5, <1>6, <1>7 DEF PublishInv

-----------------------------------------------------------------------------
(* The outbox rows of scheduled deliveries.                                *)

\* How a scheduler gets past FindByID.
LEMMA SchedulerMoves ==
  ASSUME SchedulerTypeOK, [SchedulerNext]_allVars, NEW s \in Schedulers,
         spc'[s] \in {"update", "enqueue", "mark", "audit"}
  PROVE  /\ due'[s] = due[s] /\ spc[s] # "idle" /\ Id(s)' = Id(s)
         /\ \/ spc'[s] = spc[s]
            \/ FindAndQueue(s) /\ spc'[s] = "update" /\ Queueable(Id(s))
            \/ UpdateQueued(s) /\ spc'[s] = "enqueue"
            \/ EnqueueDue(s) /\ spc'[s] = "mark"
            \/ MarkProcessed(s) /\ spc'[s] = "audit"
<1> USE DEF SchedulerTypeOK
<1> DEFINE Goal ==
      /\ due'[s] = due[s] /\ spc[s] # "idle"
      /\ \/ spc'[s] = spc[s]
         \/ FindAndQueue(s) /\ spc'[s] = "update" /\ Queueable(Id(s))
         \/ UpdateQueued(s) /\ spc'[s] = "enqueue"
         \/ EnqueueDue(s) /\ spc'[s] = "mark"
         \/ MarkProcessed(s) /\ spc'[s] = "audit"
<1>1. ASSUME UNCHANGED <<spc, due>> PROVE Goal
  BY <1>1
<1>2. ASSUME NEW t \in Schedulers, NextDue(t) \/ Abort(t) PROVE Goal
  <2>1. spc'[t] \in {"idle", "find"}
        /\ \A r \in Schedulers \ {t} : spc'[r] = spc[r] /\ due'[r] = due[r]
    BY <1>2 DEF NextDue, Abort
  <2> QED
    BY <2>1
<1>3. ASSUME NEW t \in Schedulers, FetchDue(t) PROVE Goal
  BY <1>3 DEF FetchDue
<1>4. ASSUME NEW t \in Schedulers, FindAndQueue(t) PROVE Goal
  <2>1. CASE /\ Queueable(Id(t)) /\ spc' = [spc EXCEPT ![t] = "update"]
             /\ UNCHANGED due
    BY <1>4, <2>1 DEF FindAndQueue
  <2> QED
    BY <1>2, <1>4, <2>1 DEF FindAndQueue
<1>5. ASSUME NEW t \in Schedulers, NEW l, spc[t] # "idle",
             spc' = [spc EXCEPT ![t] = l] /\ UNCHANGED due,
             \/ UpdateQueued(t) /\ l = "enqueue"
             \/ EnqueueDue(t) /\ l = "mark"
             \/ MarkProcessed(t) /\ l = "audit"
      PROVE  Goal
  BY <1>5
<1>6. ASSUME NEW t \in Schedulers, UpdateQueued(t) \/ EnqueueDue(t) \/ MarkProcessed(t)
      PROVE  Goal
  BY <1>2, <1>5, <1>6 DEF UpdateQueued, EnqueueDue, MarkProcessed, Done
<1>7. ASSUME NEW t \in Schedulers, AuditQueued(t) \/ FindError(t) \/ TickError(t)
      PROVE  Goal
  BY <1>2, <1>7 DEF AuditQueued, FindError, TickError
<1>8. Goal
  BY <1>1, <1>3, <1>4, <1>6, <1>7
  DEF SchedulerNext, ProcessDue, ComesDue, WorkerSettles, svars, allVars
<1> QED
  BY <1>8 DEF Id, AtRow

\* MarkProcessed comes after EnqueueDue, and outbox rows stay.
LEMMA RetireStep ==
  SchedulerTypeOK /\ RetireInv /\ [SchedulerNext]_allVars => RetireInv'
<1> SUFFICES ASSUME SchedulerTypeOK, RetireInv, [SchedulerNext]_allVars
             PROVE  RetireInv'
  OBVIOUS
<1>1. \A d : RowsOf(d) # {} => RowsOf(d)' # {}
  BY OutboxGrows, GrowsKeeps
<1>2. ASSUME NEW d \in processed' PROVE RowsOf(d) # {}
  <2>1. d \in processed \/ \E s \in Schedulers : MarkProcessed(s) /\ d = Id(s)
    BY <1>2 DEF SchedulerNext, ProcessDue, ComesDue, FetchDue, FindAndQueue,
         UpdateQueued, EnqueueDue, MarkProcessed, AuditQueued, FindError, TickError,
         WorkerSettles, svars, allVars
  <2> QED
    BY <2>1 DEF MarkProcessed, RetireInv, RetiredHasRow
<1>3. RetiredHasRow'
  BY <1>1, <1>2 DEF RetiredHasRow
<1>4. ASSUME NEW s \in Schedulers, spc'[s] \in {"mark", "audit"}
      PROVE  RowsOf(Id(s))' # {}
  <2>1. PICK d \in Deliveries : d = Id(s) /\ d = Id(s)'
    BY <1>4, SchedulerMoves, SchedulerAt
  <2>2. CASE spc[s] \in {"mark", "audit"}
    <3>1. RowsOf(d)' # {}
      BY <1>1, <2>1, <2>2 DEF RetireInv
    <3> QED
      BY <2>1, <3>1 DEF RowsOf
  <2>3. CASE EnqueueDue(s)
    <3>1. box' = Append(box, NewBoxRow(d))
      BY <2>1, <2>3 DEF EnqueueDue
    <3>2. Len(box) + 1 \in DOMAIN box' /\ box'[Len(box) + 1].delivery = d
      BY <3>1, BoxInsert DEF SchedulerTypeOK, OutboxTypeOK, NewBoxRow
    <3> QED
      BY <2>1, <3>2 DEF RowsOf
  <2> QED
    BY <1>4, <2>2, <2>3, SchedulerMoves DEF MarkProcessed
<1> QED
  BY <1>3, <1>4 DEF RetireInv

\* One scheduler inserts a row only for a delivery that has none: it found it
\* `pending`, and nobody else moves it out of `pending`.
LEMMA RowStep ==
  ASSUME \A s, t \in Schedulers : s = t
  PROVE  SchedulerTypeOK /\ RowInv /\ [SchedulerNext]_allVars => RowInv'
<1> SUFFICES ASSUME SchedulerTypeOK, RowInv, [SchedulerNext]_allVars PROVE RowInv'
  OBVIOUS
<1>1. Grows /\ (DOMAIN box' = DOMAIN box \/ \E d \in Deliveries : Inserts(d))
  BY OutboxGrows
<1>2. \A d \in ScheduledSet : d \in Deliveries \ Immediate
  BY SchedulerAssumption DEF ScheduledSet
<1>3. ASSUME NEW d \in Deliveries, Inserts(d)
      PROVE  /\ RowsOf(d) = {}
             /\ \A e : e # d => RowsOf(e)' = RowsOf(e)
             /\ d \in ScheduledSet => \E s \in Schedulers : EnqueueDue(s) /\ d = Id(s)
  <2>1. RowsOf(d) = {}
    BY <1>3 DEF Inserts, Enqueue, EnqueueDue, RowInv
  <2>2. NewBoxRow(d).delivery = d
    BY DEF NewBoxRow
  <2>3. \A e : e # d => RowsOf(e)' = RowsOf(e)
    BY <1>3, <2>2, BoxInsert DEF Inserts, RowsOf, SchedulerTypeOK, OutboxTypeOK
  <2> QED
    BY <1>2, <1>3, <2>1, <2>3 DEF Inserts, Enqueue
<1>4. ASSUME DOMAIN box' = DOMAIN box PROVE \A e : RowsOf(e)' = RowsOf(e)
  BY <1>1, <1>4 DEF Grows, RowsOf
<1>5. \A i, j \in DOMAIN box' : box'[i].delivery = box'[j].delivery => i = j
  <2>1. CASE DOMAIN box' = DOMAIN box
    BY <1>1, <2>1 DEF Grows, RowInv
  <2>2. ASSUME NEW d \in Deliveries, Inserts(d) PROVE <1>5
    <3>1. \A i \in DOMAIN box : box[i].delivery # d
      BY <1>3, <2>2 DEF RowsOf
    <3>2. /\ DOMAIN box' = DOMAIN box \cup {Len(box) + 1}
          /\ \A i \in DOMAIN box : box'[i] = box[i]
          /\ box'[Len(box) + 1].delivery = d
      BY <2>2, BoxInsert DEF Inserts, NewBoxRow, SchedulerTypeOK, OutboxTypeOK
    <3> QED
      BY <3>1, <3>2 DEF RowInv
  <2> QED
    BY <1>1, <2>1, <2>2
\* Who changes a status.
<1>6. ASSUME NEW d \in Deliveries, status'[d] # status[d]
      PROVE  /\ status'[d] # "pending"
             /\ \/ \E s \in Schedulers : UpdateQueued(s) /\ d = Id(s)
                \/ WorkerSettles(d)
  <2>1. ASSUME NEW s \in Schedulers, UpdateQueued(s) PROVE d = Id(s) /\ status'[d] = "queued"
    BY <1>6, <2>1 DEF UpdateQueued, SchedulerTypeOK
  <2>2. ASSUME NEW e \in Deliveries, WorkerSettles(e) PROVE d = e /\ status'[d] = "succeeded"
    BY <1>6, <2>2 DEF WorkerSettles, SchedulerTypeOK
  <2>3. \/ \E s \in Schedulers : UpdateQueued(s)
        \/ \E e \in Deliveries : WorkerSettles(e)
    BY <1>6 DEF SchedulerNext, ProcessDue, ComesDue, FetchDue, FindAndQueue,
         EnqueueDue, MarkProcessed, AuditQueued, FindError, TickError, svars, allVars
  <2> QED
    BY <2>1, <2>2, <2>3
<1>7. ASSUME NEW d \in ScheduledSet, status'[d] = "pending" PROVE RowsOf(d)' = {}
  <2>1. status[d] = "pending" /\ RowsOf(d) = {}
    BY <1>2, <1>6, <1>7 DEF RowInv
  <2>2. \A s \in Schedulers : EnqueueDue(s) => d # Id(s)
    BY <2>1 DEF EnqueueDue, RowInv
  <2> QED
    BY <1>1, <1>3, <1>4, <2>1, <2>2
<1>8. ASSUME NEW s \in Schedulers, spc'[s] = "update" PROVE status'[Id(s)'] = "pending"
  <2>1. PICK d \in Deliveries : d = Id(s) /\ d = Id(s)'
    BY <1>8, SchedulerMoves, SchedulerAt
  <2>2. status[d] = "pending"
    BY <1>8, <2>1, SchedulerMoves DEF RowInv, Queueable, CanQueue
  <2>3. \A t \in Schedulers : ~UpdateQueued(t)
    <3> SUFFICES ASSUME UpdateQueued(s) PROVE FALSE
      OBVIOUS
    <3>1. spc'[s] \in {"enqueue", "idle"}
      BY DEF UpdateQueued, Done, Abort, SchedulerTypeOK
    <3> QED
      BY <1>8, <3>1
  <2> QED
    BY <1>6, <2>1, <2>2, <2>3 DEF WorkerSettles
<1>9. ASSUME NEW s \in Schedulers, spc'[s] = "enqueue"
      PROVE  status'[Id(s)'] # "pending" /\ RowsOf(Id(s))' = {}
  <2>1. PICK d \in ScheduledSet : d = Id(s) /\ d = Id(s)'
    BY <1>9, SchedulerMoves, SchedulerAt
  <2>2. RowsOf(d) = {}
    <3>1. CASE spc[s] = "enqueue"
      BY <2>1, <3>1 DEF RowInv
    <3>2. CASE UpdateQueued(s)
      BY <2>1, <3>2 DEF UpdateQueued, RowInv
    <3> QED
      BY <1>9, <3>1, <3>2, SchedulerMoves
  <2>3. status'[d] # "pending"
    <3>1. CASE spc[s] = "enqueue"
      BY <1>2, <1>6, <2>1, <3>1 DEF RowInv
    <3>2. CASE UpdateQueued(s)
      BY <1>2, <2>1, <3>2 DEF UpdateQueued, SchedulerTypeOK
    <3> QED
      BY <1>9, <3>1, <3>2, SchedulerMoves
  <2>4. \A t \in Schedulers : ~EnqueueDue(t)
    <3> SUFFICES ASSUME EnqueueDue(s) PROVE FALSE
      OBVIOUS
    <3>1. spc'[s] \in {"mark", "idle"}
      BY DEF EnqueueDue, Done, Abort, SchedulerTypeOK
    <3> QED
      BY <1>9, <3>1
  <2>5. RowsOf(d)' = {}
    BY <1>1, <1>3, <1>4, <2>2, <2>4
  <2> QED
    BY <2>1, <2>3, <2>5 DEF RowsOf
<1> QED
  BY <1>5, <1>7, <1>8, <1>9 DEF RowInv

-----------------------------------------------------------------------------
(* Every message beyond the first has a cause.                             *)

\* Counting publishers.
LEMMA Counting ==
  ASSUME NEW M \in SUBSET Publishers, NEW P \in SUBSET Publishers
  PROVE  /\ Cardinality(M) \in Nat /\ Cardinality(M) <= Cardinality(Publishers)
         /\ Cardinality(Publishers) \in Nat
         /\ \A p : p \notin M => Cardinality(M \cup {p}) = Cardinality(M) + 1
         /\ \A p : p \in M => Cardinality(M \ {p}) = Cardinality(M) - 1
         /\ M \cap P = {} =>
              Cardinality(M) + Cardinality(P) <= Cardinality(Publishers)
<1>1. IsFiniteSet(M) /\ IsFiniteSet(P) /\ IsFiniteSet(Publishers)
  BY FS_Subset, OutboxAssumption
<1>2. /\ Cardinality(M) \in Nat /\ Cardinality(P) \in Nat /\ Cardinality(Publishers) \in Nat
      /\ Cardinality(M) <= Cardinality(Publishers)
  BY <1>1, FS_CardinalityType, FS_Subset
<1>3. \A p : p \notin M => Cardinality(M \cup {p}) = Cardinality(M) + 1
  BY <1>1, FS_AddElement
<1>4. \A p : p \in M => Cardinality(M \ {p}) = Cardinality(M) - 1
  BY <1>1, FS_RemoveElement
<1>5. ASSUME M \cap P = {}
      PROVE  Cardinality(M) + Cardinality(P) <= Cardinality(Publishers)
  <2>1. Cardinality(M \cup P) = Cardinality(M) + Cardinality(P) - Cardinality({})
    BY <1>1, <1>5, FS_Union
  <2>2. Cardinality({}) = 0
    BY FS_EmptySet
  <2>3. Cardinality(M \cup P) <= Cardinality(Publishers)
    <3>1. M \cup P \in SUBSET Publishers
      OBVIOUS
    <3> QED
      BY <1>1, <3>1, FS_Subset
  <2> QED
    BY <1>2, <2>1, <2>2, <2>3
<1> QED
  BY <1>2, <1>3, <1>4, <1>5

\* A step of publisher p leaves the others where they are.
LEMMA OthersStay ==
  ASSUME SchedulerTypeOK, Grows, NEW p \in Publishers, NEW d,
         \A q \in Publishers \ {p} : ppc'[q] = ppc[q] /\ batch'[q] = batch[q]
  PROVE  /\ Marking(d)' \ {p} = Marking(d) \ {p}
         /\ Publishing(d)' \ {p} = Publishing(d) \ {p}
         /\ p \in Marking(d)' <=> ppc'[p] = "mark" /\ DeliveryOf(p)' = d
         /\ p \in Publishing(d)' <=> ppc'[p] = "publish" /\ DeliveryOf(p)' = d
<1>1. \A q \in Publishers \ {p} : ppc[q] # "idle" => DeliveryOf(q)' = DeliveryOf(q)
  BY GrowsKeeps
<1> QED
  BY <1>1 DEF Marking, Publishing

\* The faults of the publishers are counted.
LEMMA FaultCount ==
  ASSUME SchedulerTypeOK
  PROVE  /\ Faults \in Nat
         /\ UNCHANGED used => Faults' = Faults
         /\ \A k \in {"broker", "store", "crash"} : Spend(k) => Faults' = Faults + 1
<1>1. used \in [FaultKinds -> Nat]
  BY DEF SchedulerTypeOK, OutboxTypeOK
<1> QED
  BY <1>1 DEF Faults, Spend, FaultKinds

\* Before the first row of d is marked its messages are counted by who is about
\* to mark it; the first mark turns that into a bound on who may still send.
LEMMA CauseStep ==
  SchedulerTypeOK /\ PublishInv /\ CauseInv /\ [SchedulerNext]_allVars => CauseInv'
<1> SUFFICES ASSUME SchedulerTypeOK, PublishInv, CauseInv, [SchedulerNext]_allVars,
                    NEW d \in Deliveries
             PROVE  Caused(d)'
  BY DEF CauseInv
<1>1. Grows /\ SchedulerTypeOK'
  BY OutboxGrows, SchedulerTypeStep
<1>2. PICK M \in SUBSET Publishers, P \in SUBSET Publishers :
        M = Marking(d) /\ P = Publishing(d) /\ M \cap P = {}
  <2>1. Marking(d) \in SUBSET Publishers /\ Publishing(d) \in SUBSET Publishers
    BY DEF Marking, Publishing
  <2>2. Marking(d) \cap Publishing(d) = {}
    BY DEF Marking, Publishing
  <2> QED
    BY <2>1, <2>2
<1>3. PICK N \in SUBSET Publishers, Q \in SUBSET Publishers :
        N = Marking(d)' /\ Q = Publishing(d)'
  BY DEF Marking, Publishing
<1>4. /\ sent[d] \in Nat /\ sent'[d] \in Nat /\ Faults \in Nat /\ Faults' \in Nat
      /\ Cardinality(M) \in Nat /\ Cardinality(P) \in Nat
      /\ Cardinality(N) \in Nat /\ Cardinality(Q) \in Nat
      /\ Cardinality(Publishers) \in Nat
  <2>1. sent[d] \in Nat /\ sent'[d] \in Nat
    BY <1>1 DEF Grows
  <2>2. used' \in [FaultKinds -> Nat]
    BY <1>1 DEF SchedulerTypeOK, OutboxTypeOK
  <2>3. Faults \in Nat /\ Faults' \in Nat
    BY <2>2, FaultCount DEF Faults, FaultKinds
  <2> QED
    BY <2>1, <2>3, Counting
<1>5. /\ ~HasPublished(d) => sent[d] <= Cardinality(M) + Faults
      /\ HasPublished(d) => sent[d] + Cardinality(P) <= Cardinality(Publishers) + Faults
  BY <1>2 DEF CauseInv, Caused
<1>6. ASSUME /\ ~HasPublished(d)' => sent'[d] <= Cardinality(N) + Faults'
             /\ HasPublished(d)' =>
                  sent'[d] + Cardinality(Q) <= Cardinality(Publishers) + Faults'
      PROVE  Caused(d)'
  BY <1>3, <1>6 DEF Caused
<1>7. ASSUME box' = box PROVE (HasPublished(d)' <=> HasPublished(d))
  BY <1>7 DEF HasPublished, RowsOf
<1>8. CASE Idle
  <2>1. N = M /\ Q = P
    BY <1>2, <1>3, <1>8 DEF Idle, Marking, Publishing, DeliveryOf, Current
  <2> QED
    BY <1>5, <1>6, <1>7, <1>8, <2>1 DEF Idle
<1>9. ASSUME NEW e \in Deliveries, Inserts(e) PROVE Caused(d)'
  <2>1. N = M /\ Q = P
    BY <1>1, <1>2, <1>3, <1>9, GrowsKeeps DEF Inserts, Marking, Publishing
  <2>2. (HasPublished(d)' <=> HasPublished(d))
    <3>1. NewBoxRow(e).published = FALSE
      BY DEF NewBoxRow
    <3>2. HasPublished(d)' => HasPublished(d)
      BY <1>9, <3>1, BoxInsert
      DEF Inserts, HasPublished, RowsOf, SchedulerTypeOK, OutboxTypeOK
    <3> QED
      BY <1>1, <3>2, GrowsKeeps
  <2> QED
    BY <1>5, <1>6, <1>9, <2>1, <2>2 DEF Inserts
<1>10. ASSUME NEW p \in Publishers, Publisher(p) PROVE Caused(d)'
  <2>1. \A q \in Publishers \ {p} : ppc'[q] = ppc[q] /\ batch'[q] = batch[q]
    BY <1>10 DEF Publisher, Flush, FetchPending, HasPublishedForDelivery, Publish,
         MarkFailed, MarkPublished, FlushError, PublisherCrash, Continue,
         SchedulerTypeOK, OutboxTypeOK
  <2>2. /\ N \ {p} = M \ {p} /\ Q \ {p} = P \ {p}
        /\ p \in N <=> ppc'[p] = "mark" /\ DeliveryOf(p)' = d
        /\ p \in Q <=> ppc'[p] = "publish" /\ DeliveryOf(p)' = d
    BY <1>1, <1>2, <1>3, <2>1, OthersStay
  <2>3. /\ p \in M <=> ppc[p] = "mark" /\ DeliveryOf(p) = d
        /\ p \in P <=> ppc[p] = "publish" /\ DeliveryOf(p) = d
    BY <1>2 DEF Marking, Publishing
  <2>4. CASE FetchPending(p)
    <3>1. ppc'[p] = "check" /\ ppc[p] = "idle"
      BY <2>4 DEF FetchPending, SchedulerTypeOK, OutboxTypeOK
    <3>2. N = M /\ Q = P
      BY <2>2, <2>3, <3>1
    <3> QED
      BY <1>5, <1>6, <1>7, <2>4, <3>2, FaultCount DEF FetchPending
  <2>5. CASE HasPublishedForDelivery(p)
    <3>1. /\ ppc[p] = "check" /\ box' = box /\ sent' = sent /\ Faults' = Faults
          /\ ppc'[p] = IF HasPublished(DeliveryOf(p)) THEN "dup" ELSE "publish"
          /\ DeliveryOf(p)' = DeliveryOf(p)
      BY <2>5, FaultCount
      DEF HasPublishedForDelivery, SchedulerTypeOK, OutboxTypeOK, DeliveryOf, Current
    <3>2. N = M
      BY <2>2, <2>3, <3>1
    <3>3. HasPublished(d) => Q = P
      BY <2>2, <2>3, <3>1
    <3> QED
      BY <1>5, <1>6, <1>7, <3>1, <3>2, <3>3
  <2>6. CASE Publish(p)
    <3>1. /\ ppc[p] = "publish" /\ box' = box
          /\ DeliveryOf(p)' = DeliveryOf(p) /\ DeliveryOf(p) \in Deliveries
      BY <2>6, PublisherAt DEF Publish, SchedulerTypeOK, DeliveryOf, Current
    <3>2. \/ /\ sent' = [sent EXCEPT ![DeliveryOf(p)] = @ + 1]
             /\ ppc'[p] = "mark" /\ Faults' = Faults
          \/ /\ sent' \in {sent, [sent EXCEPT ![DeliveryOf(p)] = @ + 1]}
             /\ ppc'[p] = "fail" /\ Faults' = Faults + 1
      BY <2>6, FaultCount DEF Publish, OnPublishError, SchedulerTypeOK, OutboxTypeOK
    <3>3. CASE DeliveryOf(p) # d
      <4>1. N = M /\ Q = P
        BY <2>2, <2>3, <3>1, <3>3
      <4>2. sent'[d] = sent[d]
        BY <3>1, <3>2, <3>3 DEF SchedulerTypeOK, OutboxTypeOK
      <4>3. Faults <= Faults'
        BY <1>4, <3>2
      <4> QED
        BY <1>4, <1>5, <1>6, <1>7, <3>1, <4>1, <4>2, <4>3
    <3>4. CASE DeliveryOf(p) = d
      <4>1. p \in P /\ p \notin M /\ Q = P \ {p}
        BY <1>2, <2>2, <2>3, <3>1, <3>2, <3>4
      <4>2. Cardinality(Q) = Cardinality(P) - 1
        BY <4>1, Counting
      <4>3. sent'[d] <= sent[d] + 1
        BY <1>4, <3>2, <3>4 DEF SchedulerTypeOK, OutboxTypeOK
      <4>4. CASE ppc'[p] = "mark" /\ Faults' = Faults
        <5>1. N = M \cup {p}
          BY <2>2, <3>1, <3>4, <4>1, <4>4
        <5>2. Cardinality(N) = Cardinality(M) + 1
          BY <4>1, <5>1, Counting
        <5> QED
          BY <1>4, <1>5, <1>6, <1>7, <3>1, <4>2, <4>3, <4>4, <5>2
      <4>5. CASE ppc'[p] = "fail" /\ Faults' = Faults + 1
        <5>1. N = M
          BY <2>2, <4>1, <4>5
        <5> QED
          BY <1>4, <1>5, <1>6, <1>7, <3>1, <4>2, <4>3, <4>5, <5>1
      <4> QED
        BY <3>2, <4>4, <4>5
    <3> QED
      BY <3>3, <3>4
  <2>7. CASE MarkFailed(p)
    <3>1. ppc[p] = "fail" /\ ppc'[p] \in {"idle", "check"} /\ sent' = sent
      BY <2>7 DEF MarkFailed, Continue, SchedulerTypeOK, OutboxTypeOK
    <3>2. N = M /\ Q = P
      BY <2>2, <2>3, <3>1
    <3>3. (HasPublished(d)' <=> HasPublished(d))
      <4>1. PICK j \in DOMAIN box : j = Current(p) /\ box[j] \in BoxRows
        BY <3>1, PublisherAt DEF SchedulerTypeOK
      <4>2. box' = [box EXCEPT ![j] = [box[j] EXCEPT !.attempts = @ + 1]]
        BY <2>7, <4>1 DEF MarkFailed
      <4>3. /\ DOMAIN box' = DOMAIN box
            /\ \A i \in DOMAIN box : box'[i].delivery = box[i].delivery
                                     /\ box'[i].published = box[i].published
        BY <4>1, <4>2, RowUpdate DEF SchedulerTypeOK, OutboxTypeOK
      <4> QED
        BY <4>3 DEF HasPublished, RowsOf
    <3>4. Faults' = Faults
      BY <2>7, FaultCount DEF MarkFailed
    <3> QED
      BY <1>5, <1>6, <3>1, <3>2, <3>3, <3>4
  <2>8. CASE MarkPublished(p)
    <3>1. /\ ppc[p] \in {"mark", "dup"} /\ ppc'[p] \in {"idle", "check"} /\ sent' = sent
          /\ Faults' = Faults
      BY <2>8, FaultCount DEF MarkPublished, Continue, SchedulerTypeOK, OutboxTypeOK
    <3>2. N = M \ {p} /\ Q = P
      BY <2>2, <2>3, <3>1
    <3>3. CASE DeliveryOf(p) # d
      <4>1. N = M
        BY <2>3, <3>2, <3>3
      <4>2. HasPublished(d)' => HasPublished(d)
        <5>1. PICK j \in DOMAIN box : j = Current(p)
          BY <3>1, PublisherAt DEF SchedulerTypeOK
        <5>2. DOMAIN box' = DOMAIN box /\ \A i \in DOMAIN box \ {j} : box'[i] = box[i]
          BY <2>8, <5>1 DEF MarkPublished, SchedulerTypeOK, OutboxTypeOK
        <5>3. box'[j].delivery # d
          BY <1>1, <3>3, <5>1 DEF Grows, DeliveryOf
        <5> QED
          BY <5>2, <5>3 DEF HasPublished, RowsOf
      <4>3. (HasPublished(d)' <=> HasPublished(d))
        BY <1>1, <4>2, GrowsKeeps
      <4> QED
        BY <1>5, <1>6, <3>1, <3>2, <4>1, <4>3
    <3>4. CASE DeliveryOf(p) = d /\ HasPublished(d)
      <4>1. HasPublished(d)'
        BY <1>1, <3>4, GrowsKeeps
      <4> QED
        BY <1>5, <1>6, <3>1, <3>2, <3>4, <4>1
    <3>5. CASE DeliveryOf(p) = d /\ ~HasPublished(d)
      <4>1. ppc[p] = "mark"
        BY <3>1, <3>5 DEF PublishInv
      <4>2. HasPublished(d)'
        <5>1. PICK j \in DOMAIN box : j = Current(p) /\ box[j] \in BoxRows
          BY <3>1, PublisherAt DEF SchedulerTypeOK
        <5>2. box' = [box EXCEPT ![j] = [box[j] EXCEPT !.published = TRUE]]
          BY <2>8, <5>1 DEF MarkPublished
        <5>3. j \in DOMAIN box' /\ box'[j].delivery = d /\ box'[j].published = TRUE
          BY <3>5, <5>1, <5>2, RowUpdate DEF DeliveryOf, SchedulerTypeOK, OutboxTypeOK
        <5> QED
          BY <5>3 DEF HasPublished, RowsOf
      <4>3. Cardinality(M) + Cardinality(P) <= Cardinality(Publishers)
        BY <1>2, Counting
      <4> QED
        BY <1>4, <1>5, <1>6, <3>1, <3>2, <3>5, <4>2, <4>3
    <3> QED
      BY <3>3, <3>4, <3>5
  <2>9. CASE FlushError(p) \/ PublisherCrash(p)
    <3>1. /\ ppc'[p] \in {"idle", "check"} /\ sent' = sent /\ box' = box
          /\ Faults' = Faults + 1
      BY <2>9, FaultCount
      DEF FlushError, PublisherCrash, Continue, SchedulerTypeOK, OutboxTypeOK
    <3>2. N = M \ {p} /\ Q = P \ {p}
      BY <2>2, <3>1
    <3>3. Cardinality(M) <= Cardinality(N) + 1 /\ Cardinality(Q) <= Cardinality(P)
      <4>1. p \notin M => N = M
        BY <3>2
      <4>2. p \notin P => Q = P
        BY <3>2
      <4>3. p \in M => Cardinality(N) = Cardinality(M) - 1
        BY <3>2, Counting
      <4>4. p \in P => Cardinality(Q) = Cardinality(P) - 1
        BY <3>2, Counting
      <4> QED
        BY <1>4, <4>1, <4>2, <4>3, <4>4
    <3> QED
      BY <1>4, <1>5, <1>6, <1>7, <3>1, <3>3
  <2> QED
    BY <1>10, <2>4, <2>5, <2>6, <2>7, <2>8, <2>9 DEF Publisher, Flush
<1> QED
  BY <1>8, <1>9, <1>10, OutboxView

-----------------------------------------------------------------------------
(* Theorems.                                                               *)

\* What holds for any number of schedulers, and what one of them adds.
SchedulerInv == SchedulerTypeOK /\ PublishInv /\ CauseInv /\ RetireInv

\* At the start there are no rows.
LEMMA InitRows ==
  ASSUME SchedulerInit
  PROVE  /\ DOMAIN box = {} /\ \A d : RowsOf(d) = {} /\ ~HasPublished(d)
<1>1. DOMAIN box = {}
  BY DEF SchedulerInit, OutboxInit
<1> QED
  BY <1>1 DEF RowsOf, HasPublished

\* The invariant holds for every choice of publishers, schedulers and faults.
LEMMA SchedulerInductive == SchedulerSpec => []SchedulerInv
<1>1. SchedulerInit => SchedulerInv
  <2> SUFFICES ASSUME SchedulerInit PROVE SchedulerInv
    OBVIOUS
  <2>1. SchedulerTypeOK
    BY SchedulerTypeInit
  <2>2. PublishInv
    BY InitRows DEF SchedulerInit, OutboxInit, PublishInv, PublishedIsSent
  <2>3. CauseInv
    <3> SUFFICES ASSUME NEW d \in Deliveries PROVE sent[d] <= Cardinality(Marking(d)) + Faults
      BY InitRows DEF CauseInv, Caused
    <3>1. Marking(d) \in SUBSET Publishers
      BY DEF Marking
    <3>2. Cardinality(Marking(d)) \in Nat /\ Faults \in Nat
      BY <2>1, <3>1, Counting, FaultCount
    <3>3. sent[d] = 0
      BY DEF SchedulerInit, OutboxInit
    <3> QED
      BY <3>2, <3>3
  <2>4. RetireInv
    BY DEF SchedulerInit, RetireInv, RetiredHasRow
  <2> QED
    BY <2>1, <2>2, <2>3, <2>4 DEF SchedulerInv
<1>2. SchedulerInv /\ [SchedulerNext]_allVars => SchedulerInv'
  BY SchedulerTypeStep, PublishStep, CauseStep, RetireStep DEF SchedulerInv
<1> QED
  BY <1>1, <1>2, PTL DEF SchedulerSpec

\* Type correctness of the scheduler and of the publishers.
THEOREM SchedulerTypeCorrect == SchedulerSpec => []SchedulerTypeOK
  BY SchedulerInductive, PTL DEF SchedulerInv

\* A row is marked published only when its delivery is on the stream.
THEOREM NothingIsDropped == SchedulerSpec => []PublishedIsSent
<1>1. SchedulerInv => PublishedIsSent
  BY DEF SchedulerInv, PublishInv
<1> QED
  BY <1>1, SchedulerInductive, PTL

\* A delivery is published at most once per publisher and fault.
THEOREM DuplicatesAreBounded == SchedulerSpec => []DuplicatesHaveACause
<1>1. SchedulerInv => DuplicatesHaveACause
  <2> SUFFICES ASSUME SchedulerInv, NEW d \in Deliveries
               PROVE  sent[d] <= Cardinality(Publishers) + Faults
    <3>1. Cardinality(Publishers) \in Nat
      BY Counting
    <3>2. SchedulerInv => used \in [FaultKinds -> Nat]
      BY DEF SchedulerInv, SchedulerTypeOK, OutboxTypeOK
    <3> QED
      BY <3>1, <3>2 DEF DuplicatesHaveACause, Faults, FaultKinds
  <2>1. PICK M \in SUBSET Publishers, P \in SUBSET Publishers :
          M = Marking(d) /\ P = Publishing(d)
    BY DEF Marking, Publishing
  <2>2. /\ Cardinality(M) \in Nat /\ Cardinality(P) \in Nat
        /\ Cardinality(Publishers) \in Nat /\ Cardinality(M) <= Cardinality(Publishers)
        /\ Faults \in Nat /\ sent[d] \in Nat
    BY Counting, FaultCount DEF SchedulerInv, SchedulerTypeOK, OutboxTypeOK
  <2>3. /\ ~HasPublished(d) => sent[d] <= Cardinality(M) + Faults
        /\ HasPublished(d) => sent[d] + Cardinality(P) <= Cardinality(Publishers) + Faults
    BY <2>1 DEF SchedulerInv, CauseInv, Caused
  <2> QED
    BY <2>2, <2>3
<1> QED
  BY <1>1, SchedulerInductive, PTL

\* A scheduled row is retired only when its delivery is in the outbox.
THEOREM RetiredIsEnqueued == SchedulerSpec => []RetiredHasRow
<1>1. SchedulerInv => RetiredHasRow
  BY DEF SchedulerInv, RetireInv
<1> QED
  BY <1>1, SchedulerInductive, PTL

\* With one scheduler process a delivery never has two outbox rows.
THEOREM OneSchedulerOneRow ==
  ASSUME \A s, t \in Schedulers : s = t
  PROVE  SchedulerSpec => []OneRowPerDelivery
<1>1. SchedulerInit => RowInv
  BY InitRows DEF SchedulerInit, RowInv
<1>2. SchedulerTypeOK /\ RowInv /\ [SchedulerNext]_allVars => RowInv'
  BY RowStep
<1>3. RowInv => OneRowPerDelivery
  <2> SUFFICES ASSUME RowInv, NEW d \in Deliveries PROVE Cardinality(RowsOf(d)) <= 1
    BY DEF OneRowPerDelivery
  <2>1. CASE RowsOf(d) = {}
    BY <2>1, FS_EmptySet
  <2>2. ASSUME NEW i \in RowsOf(d) PROVE Cardinality(RowsOf(d)) <= 1
    <3>1. RowsOf(d) = {i}
      BY <2>2 DEF RowInv, RowsOf
    <3>2. Cardinality({i}) = 1
      BY FS_Singleton
    <3> QED
      BY <3>1, <3>2
  <2> QED
    BY <2>1, <2>2
<1> QED
  BY <1>1, <1>2, <1>3, SchedulerTypeCorrect, PTL DEF SchedulerSpec
=============================================================================
