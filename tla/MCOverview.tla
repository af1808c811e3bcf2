----------------------------- MODULE MCOverview -----------------------------
(***************************************************************************)
(* Overview with a window of two rows.                                     *)
(***************************************************************************)
EXTENDS Overview
=============================================================================
