-------------------------------- MODULE World --------------------------------
(***************************************************************************)
(* What a scene promises to the systems that use it: entities are created  *)
(* and given components at once; an entity disappears, with everything it  *)
(* has, and a component leaves an entity, only after that was asked for    *)
(* during the life of that very entity.                                    *)
(***************************************************************************)
CONSTANTS Ids, Components

VARIABLES
  live,      \* the entities that exist
  has,       \* the components of each of them
  doomed,    \* those whose destruction has been asked for
  leaving    \* the pairs <<entity, component>> whose removal has been asked for

worldVars == <<live, has, doomed, leaving>>

OfOthers(e) == {x \in leaving : x[1] # e}

Init ==
  /\ live = {}
  /\ has = [e \in Ids |-> {}]
  /\ doomed = {}
  /\ leaving = {}

Create(e, cs) ==
  /\ e \notin live
  /\ live' = live \cup {e}
  /\ has' = [has EXCEPT ![e] = cs]
  /\ UNCHANGED <<doomed, leaving>>

Add(e, c) ==
  /\ e \in live /\ c \notin has[e]
  /\ has' = [has EXCEPT ![e] = @ \cup {c}]
  /\ UNCHANGED <<live, doomed, leaving>>

AskRemove(e, c) ==
  /\ e \in live /\ c \in has[e]
  /\ leaving' = leaving \cup {<<e, c>>}
  /\ UNCHANGED <<live, has, doomed>>

AskDestroy(e) ==
  /\ e \in live
  /\ doomed' = doomed \cup {e}
  /\ UNCHANGED <<live, has, leaving>>

Remove(e, c) ==
  /\ <<e, c>> \in leaving
  /\ has' = [has EXCEPT ![e] = @ \ {c}]
  /\ leaving' = leaving \ {<<e, c>>}
  /\ UNCHANGED <<live, doomed>>

Destroy(e) ==
  /\ e \in doomed
  /\ live' = live \ {e}
  /\ has' = [has EXCEPT ![e] = {}]
  /\ doomed' = doomed \ {e}
  /\ leaving' = OfOthers(e)

Next ==
  \E e \in Ids :
    \/ \E cs \in SUBSET Components : Create(e, cs)
    \/ \E c \in Components : Add(e, c) \/ AskRemove(e, c) \/ Remove(e, c)
    \/ AskDestroy(e) \/ Destroy(e)

Spec == Init /\ [][Next]_worldVars
=============================================================================
