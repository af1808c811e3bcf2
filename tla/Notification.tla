---------------------------- MODULE Notification ----------------------------
(***************************************************************************)
(* The delivery aggregate of internal/domain/notification: its statuses    *)
(* and its transition methods, as operators on the part of a `deliveries`  *)
(* row that the code reads back and decides on.  A method that returns an  *)
(* error in the code is a guard here (CanX) next to its effect (X).        *)
(***************************************************************************)
EXTENDS Naturals

Statuses ==
  {"pending", "queued", "processing", "retrying", "succeeded",
   "failed", "dlq", "cancelled", "rejected"}

\* status and retry_count: the two columns Update and UpdateIfStatus write
\* that a later decision depends on (last_error and updated_at are not read).
Rows == [status : Statuses, retry : Nat]

NewRow == [status |-> "pending", retry |-> 0]

CanQueue(r) == r.status = "pending"
Queue(r) == [r EXCEPT !.status = "queued"]

\* Mutant: a redelivery may also resume a delivery that is being processed.
CanStartProcessing_Resumes(r) ==
  r.status \in {"queued", "retrying", "processing"}

CanStartProcessing(r) == r.status \in {"queued", "retrying"}
StartProcessing(r) == [r EXCEPT !.status = "processing"]

MarkSucceeded(r) == [r EXCEPT !.status = "succeeded"]

MarkRetrying(r) == [status |-> "retrying", retry |-> r.retry + 1]

MarkDLQ(r) == [r EXCEPT !.status = "dlq"]

\* Mutant: a delivery that hangs in `processing` may be replayed too.
CanReplay_Stuck(r) == r.status \in {"dlq", "failed", "processing"}

CanReplay(r) == r.status \in {"dlq", "failed"}
Replay(r) == [status |-> "queued", retry |-> 0]

\* The statuses a delivery ends in: the worker acknowledges without working.
Settled(r) == r.status \in {"succeeded", "dlq"}
=============================================================================
