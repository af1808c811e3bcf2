------------------------------ MODULE MCUiKit -------------------------------
(***************************************************************************)
(* UiKit with up to three slides; all else is finite.                      *)
(***************************************************************************)
EXTENDS UiKit
=============================================================================
