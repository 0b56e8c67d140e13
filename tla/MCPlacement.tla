---------------------------- MODULE MCPlacement -----------------------------
(***************************************************************************)
(* Instances of ServerSelect for model checking.                           *)
(***************************************************************************)
EXTENDS ServerSelect
=============================================================================
