-------------------------- MODULE MCCircuitBreaker --------------------------
(***************************************************************************)
(* CircuitBreaker with three handlers.                                     *)
(***************************************************************************)
EXTENDS CircuitBreaker, TLC

CONSTANTS h1, h2, h3
=============================================================================
