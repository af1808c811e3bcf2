--------------------------- MODULE BreakerProofs ----------------------------
(***************************************************************************)
(* For any threshold, window, cooldown and number of callers: the breaker  *)
(* keeps its cooldown, whatever the order in which results are reported.   *)
(***************************************************************************)
EXTENDS CircuitBreaker, TLAPS

\* The inductive invariant: the age stays below the constant it is compared
\* with, and the cooldown is kept.  Of the failures list nothing is needed: how
\* many of them lie in the window only decides whether a report trips.
IInv ==
  /\ state \in {"closed", "open", "halfOpen"}
  /\ openAge \in 0..Cooldown
  /\ proved \in BOOLEAN
  /\ CooldownKept

\* Each method of the breaker, and the passing of time, keeps it.
LEMMA Step == IInv /\ [Next]_vars => IInv'
<1> SUFFICES ASSUME IInv, [Next]_vars PROVE IInv'
  OBVIOUS
<1> USE BreakerAssumption
<1>1. CASE Tick
  <2>1. /\ openAge' \in 0..Cooldown
        /\ openAge' < Cooldown => openAge < Cooldown
    BY <1>1 DEF Tick, Older, IInv
  <2> QED
    BY <1>1, <2>1 DEF Tick, IInv, CooldownKept
<1>2. ASSUME NEW c \in Callers, Allow(c) PROVE IInv'
  BY <1>2 DEF Allow, Cooled, IInv, CooldownKept
<1>3. ASSUME NEW c \in Callers, Refuse(c) PROVE IInv'
  BY <1>3 DEF Refuse, vars, IInv, CooldownKept
<1>4. ASSUME NEW c \in Callers, RecordSuccess(c) PROVE IInv'
  BY <1>4 DEF RecordSuccess, IInv, CooldownKept
<1>5. ASSUME NEW c \in Callers, RecordFailure(c) PROVE IInv'
  <2>1. \/ state' = "open" /\ openAge' = 0 /\ proved' = FALSE
        \/ UNCHANGED <<state, openAge, proved>>
    <3>1. CASE Trips(Recent)
      BY <1>5, <3>1 DEF RecordFailure
    <3>2. CASE ~Trips(Recent)
      BY <1>5, <3>2 DEF RecordFailure
    <3> QED
      BY <3>1, <3>2
  <2>2. CASE state' = "open" /\ openAge' = 0 /\ proved' = FALSE
    <3>1. 0 \in 0..Cooldown
      OBVIOUS
    <3> QED
      BY <2>2, <3>1 DEF IInv, CooldownKept
  <2>3. CASE UNCHANGED <<state, openAge, proved>>
    BY <2>3 DEF IInv, CooldownKept
  <2> QED
    BY <2>1, <2>2, <2>3
<1>6. CASE UNCHANGED vars
  BY <1>6 DEF vars, IInv, CooldownKept
<1> QED
  BY <1>1, <1>2, <1>3, <1>4, <1>5, <1>6 DEF Next

\* An open breaker lets calls through before its cooldown is over only after a
\* call has reported a success.
THEOREM CooldownHolds == Spec => []CooldownKept
<1>1. Init => IInv
  BY BreakerAssumption DEF Init, IInv, CooldownKept
<1>2. IInv => CooldownKept
  BY DEF IInv
<1> QED
  BY <1>1, <1>2, Step, PTL DEF Spec
=============================================================================
