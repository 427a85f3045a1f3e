------------------------------ MODULE MCBarrier ------------------------------
(***************************************************************************)
(* Instance of Barrier for TLC: up to four tickets.  OrderSpan, 256 in the *)
(* code, is scaled down with them to the least value at which no two       *)
(* tickets share an order.                                                 *)
(***************************************************************************)
EXTENDS Barrier
=============================================================================
