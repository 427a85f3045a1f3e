---------------------------- MODULE MCByteQueue ----------------------------
(***************************************************************************)
(* Instance of ByteQueue for TLC: a ring of two elements that may grow to  *)
(* eight, and two messages to tell apart.                                  *)
(***************************************************************************)
EXTENDS ByteQueue
=============================================================================
