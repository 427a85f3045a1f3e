----------------------------- MODULE MCPrograms -----------------------------
(***************************************************************************)
(* Programs with three scenes and three programs, of which two can be      *)
(* detached: a scene that is active, one being activated by the handlers   *)
(* of another and one being destroyed; a program in a frame while one is   *)
(* detached and one is being joined.                                       *)
(***************************************************************************)
EXTENDS Programs
=============================================================================
