------------------------------- MODULE Scenes -------------------------------
(***************************************************************************)
(* The scenes of PrivateUniverse (src/src/private_universe.cpp): which ones*)
(* there are, the active one, and the working one, on which the API works. *)
(*                                                                         *)
(* Handlers may call the API again.  A call that runs handlers is a record *)
(* on the stack calls: the handlers run, and make calls of their own, while*)
(* it is on top; its return from them is a step.  Every scene has handlers *)
(* for its three events, and entities with handlers for their end.         *)
(***************************************************************************)
EXTENDS Naturals, Sequences, SequencesExt

CONSTANTS
  Scenes,
  Global,      \* baseline_, the scene that is there from the start
  None,        \* nullptr
  MaxCalls     \* bound: calls in progress at a time

ASSUME ScenesAssumption == Global \in Scenes /\ None \notin Scenes /\ MaxCalls \in Nat

VARIABLES
  live,        \* scenes created and not destroyed
  active, working,
  calls        \* the innermost last

sceneVars == <<live, active, working, calls>>

Top == Last(calls)
Push(r) == calls' = Append(calls, r)
Stage(s) == calls # <<>> /\ Top.stage = s
GoOn(s) == calls' = Append(Front(calls), [Top EXCEPT !.stage = s])

\* Scenes that a call in progress will use again: handlers must not destroy them.
InUse == {calls[i].scene : i \in DOMAIN calls} \cup {calls[i].old : i \in DOMAIN calls}

SceneInit ==
  /\ live = {Global}
  /\ active = Global /\ working = Global
  /\ calls = <<>>

scene_create(s) ==
  /\ s \notin live
  /\ live' = live \cup {s}
  /\ UNCHANGED <<active, working, calls>>

scene_set(s) ==
  /\ s \in live
  /\ working' = s
  /\ UNCHANGED <<live, active, calls>>

scene_reset ==
  /\ working' = active
  /\ UNCHANGED <<live, active, calls>>

\* ondeactivate of the active scene; nothing happens if it is the same scene.
scene_activate(s) ==
  /\ s \in live /\ s # active
  /\ Len(calls) < MaxCalls
  /\ Push([stage |-> "ondeactivate", scene |-> s, old |-> active])
  /\ UNCHANGED <<live, active, working>>

\* Then the scene that was asked for becomes the active one, whatever the
\* handlers have activated in the meantime.
Deactivated ==
  /\ Stage("ondeactivate")
  /\ active' = Top.scene /\ working' = Top.scene
  /\ GoOn("onactivate")
  /\ UNCHANGED live

\* The scene to work on after the handlers of onactivate: scene_destroy sets it
\* once more.
Activated ==
  /\ Stage("onactivate")
  /\ working' = IF Top.old = Top.scene THEN Global ELSE working
  /\ calls' = Front(calls)
  /\ UNCHANGED <<live, active>>

scene_destroy(s) ==
  /\ s \in live \ (InUse \cup {Global})
  /\ Len(calls) < MaxCalls
  /\ Push([stage |-> "ondestroy", scene |-> s, old |-> s])
  /\ UNCHANGED <<live, active, working>>

\* Then the destructor of its GameState runs the handlers of its entities.
Destroyed ==
  /\ Stage("ondestroy")
  /\ GoOn("deleting")
  /\ UNCHANGED <<live, active, working>>

\* Mutant: the scenes are reset only when the active one is destroyed.
DeletedActive ==
  /\ Stage("deleting")
  /\ live' = live \ {Top.scene}
  /\ IF active = Top.scene
     THEN active' = None /\ working' = None /\ GoOn("reset")
     ELSE UNCHANGED <<active, working>> /\ calls' = Front(calls)

\* The scene is gone, and there is none for a moment, in which no handler runs.
Deleted ==
  /\ Stage("deleting")
  /\ live' = live \ {Top.scene}
  /\ active' = None /\ working' = None
  /\ GoOn("reset")

\* The active scene, even if it was another one, gives way to the global scene
\* without being told: active_ is null when scene_activate looks.
Reset ==
  /\ Stage("reset")
  /\ active' = Global /\ working' = Global
  /\ calls' = Append(Front(calls), [stage |-> "onactivate", scene |-> Global, old |-> Global])
  /\ UNCHANGED live

HandlersReturn == Deactivated \/ Activated \/ Destroyed \/ Deleted \/ Reset

\* The calls of the API, but for scene_destroy.
SceneCall ==
  \/ \E s \in Scenes : scene_create(s) \/ scene_set(s) \/ scene_activate(s)
  \/ scene_reset
-----------------------------------------------------------------------------
\* The active and the working scene exist whenever code of users runs, in the
\* host, in a handler or in a program: a destroyed scene is left behind even if
\* it was only worked on, or activated by the handlers of another call.
CurrentScenesLive == Stage("reset") \/ {active, working} \subseteq live
=============================================================================
