--------------------------- MODULE CircuitBreaker ---------------------------
(***************************************************************************)
(* pkg/circuitbreaker: one breaker, shared by the handlers of a worker     *)
(* process that send on its channel.  Its three methods are atomic (b.mu), *)
(* but a call to the provider lies between Allow and the Record that       *)
(* reports it, so results arrive late and out of order.                    *)
(*                                                                         *)
(* Time is kept relative to now: the age of each recorded failure and of   *)
(* the last opening, counted up to the constant it is compared with.       *)
(***************************************************************************)
EXTENDS Naturals, Sequences, FiniteSets

CONSTANTS
  Callers,    \* handlers of the process
  Threshold,  \* CIRCUIT_BREAKER_THRESHOLD
  Window,     \* CIRCUIT_BREAKER_WINDOW, in ticks
  Cooldown    \* CIRCUIT_BREAKER_COOLDOWN, in ticks

ASSUME BreakerAssumption ==
  /\ Threshold \in Nat \ {0}
  /\ Window \in Nat \ {0}
  /\ Cooldown \in Nat \ {0}

VARIABLES
  state,      \* stateClosed, stateOpen, stateHalfOpen
  failures,   \* ages of b.failures, oldest first
  openAge,    \* now - b.openedAt
  calling,    \* the callers between Allow and Record
  proved      \* history: a success was reported since the last opening

vars == <<state, failures, openAge, calling, proved>>

\* The failures list stays short: those that open the breaker, and at most
\* one more per caller for every time it was let through within the window.
MaxFailures == Threshold + Cardinality(Callers) * (Window \div Cooldown + 1)

TypeOK ==
  /\ state \in {"closed", "open", "halfOpen"}
  /\ failures \in Seq(0..Window) /\ Len(failures) <= MaxFailures
  /\ openAge \in 0..Cooldown
  /\ calling \subseteq Callers
  /\ proved \in BOOLEAN

Init ==
  /\ state = "closed"
  /\ failures = <<>>
  /\ openAge = Cooldown
  /\ calling = {}
  /\ proved = TRUE

Older(age, limit) == IF age < limit THEN age + 1 ELSE limit

Tick ==
  /\ failures' = [i \in DOMAIN failures |-> Older(failures[i], Window)]
  /\ openAge' = Older(openAge, Cooldown)
  /\ UNCHANGED <<state, calling, proved>>

\* Mutant: one tick early.
Cooled_Early(age) == age + 1 >= Cooldown

Cooled(age) == age >= Cooldown

\* Allow returns nil; an open breaker that has cooled becomes half-open.
Allow(c) ==
  /\ c \notin calling
  /\ \/ state = "open" /\ Cooled(openAge) /\ state' = "halfOpen"
     \/ state # "open" /\ UNCHANGED state
  /\ calling' = calling \cup {c}
  /\ UNCHANGED <<failures, openAge, proved>>

\* Mutant: a refused call restarts the cooldown.
Refuse_Restarts(c) ==
  /\ c \notin calling
  /\ state = "open" /\ ~Cooled(openAge)
  /\ openAge' = 0
  /\ UNCHANGED <<state, failures, calling, proved>>

\* Allow returns ErrCircuitOpen: the caller fails its attempt without a call.
Refuse(c) ==
  /\ c \notin calling
  /\ state = "open" /\ ~Cooled(openAge)
  /\ UNCHANGED vars

RecordSuccess(c) ==
  /\ c \in calling
  /\ state' = "closed"
  /\ failures' = <<>>
  /\ calling' = calling \ {c}
  /\ proved' = TRUE
  /\ UNCHANGED openAge

InWindow(age) == age < Window

\* The failures after the cutoff, and the one that happens now.
Recent == Append(SelectSeq(failures, InWindow), 0)

Trips(recent) == state = "halfOpen" \/ Len(recent) >= Threshold

RecordFailure(c) ==
  /\ c \in calling
  /\ failures' = Recent
  /\ calling' = calling \ {c}
  /\ IF Trips(Recent)
     THEN state' = "open" /\ openAge' = 0 /\ proved' = FALSE
     ELSE UNCHANGED <<state, openAge, proved>>

Next ==
  \/ Tick
  \/ \E c \in Callers :
       Allow(c) \/ Refuse(c) \/ RecordSuccess(c) \/ RecordFailure(c)

Spec == Init /\ [][Next]_vars

\* Time passes, messages keep arriving (JetStream redelivers what the breaker
\* refused) and a provider call returns.
Fairness ==
  /\ WF_vars(Tick)
  /\ \A c \in Callers :
       WF_vars(Allow(c)) /\ WF_vars(RecordSuccess(c) \/ RecordFailure(c))

FairSpec == Spec /\ Fairness

-----------------------------------------------------------------------------
(* Properties.                                                             *)

\* Before the cooldown is over the breaker lets calls through again only if
\* some call reported a success after it opened (a late one closes it).
CooldownKept == state # "open" /\ openAge < Cooldown => proved

\* Every opening is followed by a time when calls are let through: neither the
\* failures that arrive while it is open nor the probes that fail wedge it.
OpenIsLeft == state = "open" ~> state # "open"
=============================================================================
