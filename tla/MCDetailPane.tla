---------------------------- MODULE MCDetailPane ----------------------------
(***************************************************************************)
(* DetailPane with one delivery and one id that no delivery has.           *)
(***************************************************************************)
EXTENDS DetailPane, TLC

CONSTANTS d1, u1
=============================================================================
