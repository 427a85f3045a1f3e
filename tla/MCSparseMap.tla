----------------------------- MODULE MCSparseMap -----------------------------
(***************************************************************************)
(* Instance of SparseMap for TLC: up to four keys, the last beyond the     *)
(* initial sparse_ vector, and two values.                                 *)
(***************************************************************************)
EXTENDS SparseMap
=============================================================================
