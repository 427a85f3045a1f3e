---------------------------- MODULE MCGameState ----------------------------
(***************************************************************************)
(* Instances of GameState for TLC: two ids, each given twice, and two      *)
(* components.  A sparse_ vector starts with one entry, so that it grows.  *)
(***************************************************************************)
EXTENDS GameState

CONSTANTS position, sprite

MCComponents == {position, sprite}

\* Entities are created with nothing, with one component, or with both.
MCAttributes == {<<>>, <<position>>, <<position, sprite>>}

\* Entities are created with one component; others are added.
MCOneAttribute == {<<position>>}
=============================================================================
