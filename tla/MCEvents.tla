------------------------------- MODULE MCEvents -------------------------------
(***************************************************************************)
(* Instances of Events for TLC: two events of one program and two systems, *)
(* both of which may be subscribed to both.                                *)
(***************************************************************************)
EXTENDS Events
=============================================================================
