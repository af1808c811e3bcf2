----------------------------- MODULE Lifecycle ------------------------------
(***************************************************************************)
(* What the worker promises of one delivery, whatever the number of        *)
(* workers, redeliveries and crashes: it is claimed from `queued` or       *)
(* `retrying`, at most one claim is open at a time, a provider accepts it  *)
(* at most once, an accepted delivery can only become `succeeded`, and     *)
(* `succeeded` and `dlq` are final.                                        *)
(***************************************************************************)
EXTENDS Naturals

CONSTANT Deliveries

VARIABLES
  status,  \* the status column of each delivery
  sent     \* how often a provider accepted it

Init ==
  /\ status = [d \in Deliveries |-> "queued"]
  /\ sent = [d \in Deliveries |-> 0]

Claim(d) ==
  /\ status[d] \in {"queued", "retrying"}
  /\ status' = [status EXCEPT ![d] = "processing"]
  /\ UNCHANGED sent

Accept(d) ==
  /\ status[d] = "processing" /\ sent[d] = 0
  /\ sent' = [sent EXCEPT ![d] = 1]
  /\ UNCHANGED status

Finish(d) ==
  /\ status[d] = "processing" /\ sent[d] = 1
  /\ status' = [status EXCEPT ![d] = "succeeded"]
  /\ UNCHANGED sent

GiveUp(d) ==
  /\ status[d] = "processing" /\ sent[d] = 0
  /\ \E s \in {"retrying", "dlq"} : status' = [status EXCEPT ![d] = s]
  /\ UNCHANGED sent

Next == \E d \in Deliveries : Claim(d) \/ Accept(d) \/ Finish(d) \/ GiveUp(d)

Spec == Init /\ [][Next]_<<status, sent>>
=============================================================================
