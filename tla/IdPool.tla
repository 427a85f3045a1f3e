------------------------------- MODULE IdPool -------------------------------
(***************************************************************************)
(* What the entity registry promises: an id names one live entity at a     *)
(* time, so there are as many ids in use as there are entities.  Ids of    *)
(* destroyed entities are handed out again.                                *)
(***************************************************************************)
EXTENDS Integers

CONSTANT Ids

VARIABLES
  live,   \* the ids of the entities that exist
  count   \* how many entities exist

Init == live = {} /\ count = 0

Create == \E e \in Ids \ live : live' = live \cup {e} /\ count' = count + 1

Destroy == \E e \in live : live' = live \ {e} /\ count' = count - 1

Next == Create \/ Destroy

Spec == Init /\ [][Next]_<<live, count>>
=============================================================================
