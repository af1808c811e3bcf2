------------------------------ MODULE MCIngest ------------------------------
(***************************************************************************)
(* Ingest with two keys and three concurrent requests.                     *)
(***************************************************************************)
EXTENDS Ingest, TLC

CONSTANTS k1, k2, i1, i2, i3, i4, c1, c2, c3

MCSymmetry == Permutations({i1, i2, i3, i4}) \cup Permutations({c1, c2, c3})
=============================================================================
