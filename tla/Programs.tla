------------------------------ MODULE Programs ------------------------------
(***************************************************************************)
(* The programs of ProgramRegistry (src/src/program_registry.cpp), those   *)
(* detached from the loop (program_thread.cpp), and PrivateUniverse::loop, *)
(* with the scenes on which they run.                                      *)
(*                                                                         *)
(* A frame runs every joined program once and ends when all have finished; *)
(* module TaskPool shows how.  A detached program has a thread that runs it*)
(* over and over on whatever the working scene is.  The host creates,      *)
(* detaches, joins and runs programs, and works with scenes, between two   *)
(* frames.                                                                 *)
(***************************************************************************)
EXTENDS Scenes

CONSTANTS
  Progs,
  MainProgram    \* program 0: the caller of loop runs it, and it stays joined

ASSUME ProgramsAssumption == MainProgram \in Progs /\ None \notin Progs

VARIABLES
  place,      \* of each program: "absent", "joined", "detached", "releasing"
  frame,      \* the scene the frame runs on
  progress,   \* of the joined programs in the frame
  inline,     \* the program qb_run_program runs
  is_running, \* of the ProgramThread
  thread,     \* where the ProgramThread is: "none", "test", "call", "run"
  on          \* the scene it runs the program on

programVars == <<place, frame, progress, inline, is_running, thread, on>>
allVars == <<sceneVars, programVars>>

\* The host's code runs, between two frames, or a handler's.
InUserCode ==
  /\ frame = None /\ inline = None
  /\ \A p \in Progs : place[p] # "releasing"
  /\ ~Stage("reset")
InHost == InUserCode /\ calls = <<>>
-----------------------------------------------------------------------------
CreateProgram(p) ==
  /\ InHost
  /\ place[p] = "absent"
  /\ place' = [place EXCEPT ![p] = "joined"]
  /\ UNCHANGED <<sceneVars, frame, progress, inline, is_running, thread, on>>

\* A thread is started, and the program and its Task leave the registry.
DetatchProgram(p) ==
  /\ InHost
  /\ place[p] = "joined" /\ p # MainProgram
  /\ place' = [place EXCEPT ![p] = "detached"]
  /\ is_running' = [is_running EXCEPT ![p] = TRUE]
  /\ thread' = [thread EXCEPT ![p] = "test"]
  /\ UNCHANGED <<sceneVars, frame, progress, inline, on>>

\* JoinProgram: Release stops the thread and waits for it.
Release(p) ==
  /\ InHost
  /\ place[p] = "detached"
  /\ place' = [place EXCEPT ![p] = "releasing"]
  /\ is_running' = [is_running EXCEPT ![p] = FALSE]
  /\ UNCHANGED <<sceneVars, frame, progress, inline, thread, on>>

\* Mutants: the thread is not waited for; it is never told to stop.
AnyThread(p) == TRUE
KeepsOn(p) == TRUE

ThreadEnded(p) == thread[p] = "none"

\* Then the program gets a new Task.
Joined(p) ==
  /\ place[p] = "releasing"
  /\ ThreadEnded(p)
  /\ place' = [place EXCEPT ![p] = "joined"]
  /\ UNCHANGED <<sceneVars, frame, progress, inline, is_running, thread, on>>

RunProgram(p) ==
  /\ InHost
  /\ place[p] = "joined"
  /\ inline' = p
  /\ UNCHANGED <<sceneVars, place, frame, progress, is_running, thread, on>>

ProgramReturns ==
  /\ inline # None
  /\ inline' = None
  /\ UNCHANGED <<sceneVars, place, frame, progress, is_running, thread, on>>
-----------------------------------------------------------------------------
(* PrivateUniverse::loop.                                                  *)

\* Mutant: a detached program stays among those of the frame.
NotErased(p) == place[p] # "absent"

InFrame(p) == place[p] = "joined"

\* The active scene is worked on and flushed, which runs handlers.
BeginFrame ==
  /\ InHost
  /\ Len(calls) < MaxCalls
  /\ working' = active
  /\ Push([stage |-> "flush", scene |-> active, old |-> active])
  /\ UNCHANGED <<live, active, programVars>>

\* Then the programs run on the scene the handlers have left as the working one.
RunPrograms ==
  /\ Stage("flush")
  /\ calls' = Front(calls)
  /\ frame' = working
  /\ progress' = [p \in Progs |-> IF InFrame(p) THEN "ready" ELSE "done"]
  /\ UNCHANGED <<live, active, working, place, inline, is_running, thread, on>>

StartProgram(p) ==
  /\ frame # None /\ progress[p] = "ready"
  /\ progress' = [progress EXCEPT ![p] = "running"]
  /\ UNCHANGED <<sceneVars, place, frame, inline, is_running, thread, on>>

FinishProgram(p) ==
  /\ frame # None /\ progress[p] = "running"
  /\ progress' = [progress EXCEPT ![p] = "done"]
  /\ UNCHANGED <<sceneVars, place, frame, inline, is_running, thread, on>>

EndFrame ==
  /\ frame # None
  /\ \A p \in Progs : progress[p] = "done"
  /\ frame' = None
  /\ UNCHANGED <<sceneVars, place, progress, inline, is_running, thread, on>>
-----------------------------------------------------------------------------
(* The thread of a detached program.                                       *)

StillRunning(p) == is_running[p]

TestRunning(p) ==
  /\ thread[p] = "test"
  /\ thread' = [thread EXCEPT ![p] = IF StillRunning(p) THEN "call" ELSE "none"]
  /\ UNCHANGED <<sceneVars, place, frame, progress, inline, is_running, on>>

\* game_state_fn: the working scene of the moment, whoever has set it.
CallProgram(p) ==
  /\ thread[p] = "call"
  /\ thread' = [thread EXCEPT ![p] = "run"]
  /\ on' = [on EXCEPT ![p] = working]
  /\ UNCHANGED <<sceneVars, place, frame, progress, inline, is_running>>

EndRun(p) ==
  /\ thread[p] = "run"
  /\ thread' = [thread EXCEPT ![p] = "test"]
  /\ on' = [on EXCEPT ![p] = None]
  /\ UNCHANGED <<sceneVars, place, frame, progress, inline, is_running>>
-----------------------------------------------------------------------------
ProgramsInit ==
  /\ SceneInit
  /\ place = [p \in Progs |-> IF p = MainProgram THEN "joined" ELSE "absent"]
  /\ frame = None
  /\ progress = [p \in Progs |-> "done"]
  /\ inline = None
  /\ is_running = [p \in Progs |-> FALSE]
  /\ thread = [p \in Progs |-> "none"]
  /\ on = [p \in Progs |-> None]

Scening ==
  /\ InUserCode
  /\ SceneCall \/ \E s \in Scenes : scene_destroy(s)
  /\ UNCHANGED programVars
Returning == RunPrograms \/ (HandlersReturn /\ UNCHANGED programVars)
ThreadStep(p) == TestRunning(p) \/ CallProgram(p) \/ EndRun(p)
FrameStep(p) == StartProgram(p) \/ FinishProgram(p)
HostWaits == ProgramReturns \/ EndFrame \/ \E p \in Progs : Joined(p)

ProgramsNext ==
  \/ Scening \/ Returning \/ BeginFrame \/ HostWaits
  \/ \E p \in Progs :
       \/ CreateProgram(p) \/ DetatchProgram(p) \/ Release(p) \/ RunProgram(p)
       \/ FrameStep(p) \/ ThreadStep(p)

\* Threads run, systems and handlers return, and the host calls qb_loop again
\* and again, whatever else it does in between.
ProgramsFairness ==
  /\ \A p \in Progs : WF_allVars(ThreadStep(p)) /\ WF_allVars(FrameStep(p))
  /\ WF_allVars(HostWaits)
  /\ \A n \in 1 .. MaxCalls : SF_allVars(Returning /\ Len(calls) = n)
  /\ SF_allVars(BeginFrame)

ProgramsSpec == ProgramsInit /\ [][ProgramsNext]_allVars
FairProgramsSpec == ProgramsSpec /\ ProgramsFairness
-----------------------------------------------------------------------------
(* Properties.                                                             *)

RunsInFrame(p) == frame # None /\ progress[p] = "running"
RunsDetached(p) == thread[p] = "run"

\* A program, with its systems, events and queues, is run by one thread at a
\* time: its Task in a frame, the thread it was detached to, or the host.
OneRunner ==
  \A p \in Progs :
    /\ ~(RunsInFrame(p) /\ RunsDetached(p))
    /\ ~(inline = p /\ (RunsInFrame(p) \/ RunsDetached(p)))

\* Its systems work on a scene that was destroyed, or on none.
Lost(p) == RunsDetached(p) /\ on[p] \notin live
InDestroy == Stage("ondestroy") \/ Stage("deleting") \/ Stage("reset")

\* Programs run on scenes that exist: a frame always, and a detached program but
\* for those that are still detached while a scene is destroyed.  A program that
\* was joined before is safe, whatever its thread was doing: the join waits for
\* the run that goes on, on a scene that was the working one when it began.
RunOnLiveScenes ==
  [][ /\ frame' # None => frame' \in live'
      /\ \A p \in Progs :
           Lost(p)' => Lost(p) \/ (place[p] = "detached" /\ InDestroy) ]_allVars

\* No program is lost by detaching and joining: a join returns, a program that
\* stays joined is run by frames for ever, and one that stays detached by its
\* thread.
ProgramsKeepRunning ==
  \A p \in Progs :
    /\ place[p] = "releasing" ~> place[p] = "joined"
    /\ <>[](place[p] = "joined") => []<>RunsInFrame(p)
    /\ <>[](place[p] = "detached") => []<>RunsDetached(p)
=============================================================================
