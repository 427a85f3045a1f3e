--------------------------- MODULE MCCoroScheduler ---------------------------
(***************************************************************************)
(* CoroScheduler with three coroutines, of which the second may await the  *)
(* first, and two workers: so a worker that runs an await is not the only  *)
(* one, and awaits do not wait for each other.                             *)
(***************************************************************************)
EXTENDS CoroScheduler

CONSTANTS c1, c2, c3

SecondOnFirst == {<<c2, c1>>}
=============================================================================
