------------------------------ MODULE FrameSync ------------------------------
(***************************************************************************)
(* What one pass of ProgramRegistry::Run promises (README.md, "Programs":  *)
(* "each program is started at the same time and each thread is joined to  *)
(* wait for the next loop update").  A frame is given a game state; every  *)
(* program runs once in it, on that state, in any order and concurrently;  *)
(* the frame is over only when all of them have finished.  TaskPool is     *)
(* the implementation with threads, mutexes and condition variables.       *)
(***************************************************************************)
CONSTANTS
  Programs,   \* the programs joined with the main loop, the main one included
  States,     \* the game states (scenes) a frame may run on
  NoState

VARIABLES
  open,       \* a frame is under way
  progress,   \* of each program in the current, or else the last, frame
  on          \* the game state each program is running on, if it is running

vars == <<open, progress, on>>

Init ==
  /\ open = NoState
  /\ progress = [p \in Programs |-> "done"]
  /\ on = [p \in Programs |-> NoState]

\* Every frame runs on one state, the working scene's.
Begin(s) ==
  /\ open = NoState
  /\ open' = s
  /\ progress' = [p \in Programs |-> "ready"]
  /\ UNCHANGED on

Start(p) ==
  /\ open # NoState
  /\ progress[p] = "ready"
  /\ progress' = [progress EXCEPT ![p] = "running"]
  /\ on' = [on EXCEPT ![p] = open]
  /\ UNCHANGED open

Finish(p) ==
  /\ open # NoState
  /\ progress[p] = "running"
  /\ progress' = [progress EXCEPT ![p] = "done"]
  /\ on' = [on EXCEPT ![p] = NoState]
  /\ UNCHANGED open

End ==
  /\ open # NoState
  /\ \A p \in Programs : progress[p] = "done"
  /\ open' = NoState
  /\ UNCHANGED <<progress, on>>

Next ==
  \/ \E s \in States : Begin(s)
  \/ \E p \in Programs : Start(p) \/ Finish(p)
  \/ End

Spec == Init /\ [][Next]_vars
=============================================================================
