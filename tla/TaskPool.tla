------------------------------ MODULE TaskPool ------------------------------
(***************************************************************************)
(* One frame of the engine: ProgramRegistry::Run on the thread of qb_loop, *)
(* and the Task threads that run the other programs                        *)
(* (src/src/program_registry.cpp, src/src/task.cpp).                       *)
(*                                                                         *)
(* Program 0 is the main program: the caller's own thread runs it.         *)
(* Programs 1..NumTasks each have a Task, with a thread of its own, a      *)
(* mutex state_lock_ and two condition variables.  The thread holds        *)
(* state_lock_ all the while it runs its program; Task::Run and Task::Wait *)
(* take it for a moment on the main thread.  So a Task's mutex is locked   *)
(* exactly when its thread is "running" (Locked), and a step of the main   *)
(* thread that takes a mutex and lets it go is one action.                 *)
(*                                                                         *)
(* The run of a program is here a single, unspecified step (FinishProgram, *)
(* FinishMain); FrameRun puts the systems and their barriers in its place. *)
(***************************************************************************)
EXTENDS Naturals

CONSTANTS
  NumTasks,   \* number of programs besides the main one
  States,     \* game states (scenes) that ProgramRegistry::Run may be given
  NoState     \* nullptr

ASSUME TaskPoolAssumption ==
  /\ NumTasks \in Nat
  /\ NoState \notin States

VARIABLES
  gameState,   \* Task::game_state_ of each Task
  taskPc,      \* where the thread of each Task is
  mainPc,      \* where the main thread is in ProgramRegistry::Run
  index,       \* its position in program_threads_
  frameState   \* the argument of ProgramRegistry::Run

taskVars == <<gameState, taskPc, mainPc, index, frameState>>

Tasks == 1 .. NumTasks

\* "enter": about to take state_lock_ and test the predicate of should_run_;
\* "asleep": blocked on should_run_; "running": in ProgramImpl::Run.
TaskPlaces == {"enter", "asleep", "running"}

\* "idle": between two frames; "start": in the loop of Task::Run; "main":
\* running the main program; "join": in the loop of Task::Wait; "asleep":
\* blocked there on should_wait_ of Task index.
MainPlaces == {"idle", "start", "main", "join", "asleep"}

\* The Task's thread owns state_lock_.
Locked(t) == taskPc[t] = "running"
-----------------------------------------------------------------------------
Init ==
  /\ gameState = [t \in Tasks |-> NoState]
  /\ taskPc = [t \in Tasks |-> "enter"]
  /\ mainPc = "idle"
  /\ index = 1
  /\ frameState = NoState

\* PrivateUniverse::loop calls Run on the working scene's state.
BeginFrame(s) ==
  /\ mainPc = "idle"
  /\ mainPc' = "start"
  /\ index' = 1
  /\ frameState' = s
  /\ UNCHANGED <<gameState, taskPc>>

\* Mutants: a Run that forgets to notify, a Wait that only asks whether the
\* thread is running, a thread that does not clear the state it has run on.
WakeNobody(p, t) == p
WaitedNotRunning(t) == taskPc[t] # "running"
FinishProgramKeepingState(t) ==
  /\ taskPc[t] = "running"
  /\ taskPc' = [taskPc EXCEPT ![t] = "enter"]
  /\ mainPc' = IF mainPc = "asleep" /\ index = t THEN "join" ELSE mainPc
  /\ UNCHANGED <<gameState, index, frameState>>

\* should_run_.notify_one: at most the Task's own thread sleeps there.
WakeTask(p, t) == [p EXCEPT ![t] = IF @ = "asleep" THEN "enter" ELSE @]

\* Task::Run.
RunTask ==
  /\ mainPc = "start"
  /\ index \in Tasks
  /\ ~Locked(index)
  /\ gameState' = [gameState EXCEPT ![index] = frameState]
  /\ taskPc' = WakeTask(taskPc, index)
  /\ index' = index + 1
  /\ UNCHANGED <<mainPc, frameState>>

\* Every Task has been handed the state; the main thread runs its own program.
StartMain ==
  /\ mainPc = "start"
  /\ index = NumTasks + 1
  /\ mainPc' = "main"
  /\ UNCHANGED <<gameState, taskPc, index, frameState>>

FinishMain ==
  /\ mainPc = "main"
  /\ mainPc' = "join"
  /\ index' = 1
  /\ UNCHANGED <<gameState, taskPc, frameState>>

\* The predicate of should_wait_.
Waited(t) == gameState[t] = NoState

\* Task::Wait takes state_lock_ and finds the Task done.
JoinTask ==
  /\ mainPc = "join"
  /\ index \in Tasks
  /\ ~Locked(index)
  /\ Waited(index)
  /\ index' = index + 1
  /\ UNCHANGED <<gameState, taskPc, mainPc, frameState>>

\* Task::Wait takes state_lock_ before the Task's thread did, and blocks.
SleepOnTask ==
  /\ mainPc = "join"
  /\ index \in Tasks
  /\ ~Locked(index)
  /\ ~Waited(index)
  /\ mainPc' = "asleep"
  /\ UNCHANGED <<gameState, taskPc, index, frameState>>

EndFrame ==
  /\ mainPc = "join"
  /\ index = NumTasks + 1
  /\ mainPc' = "idle"
  /\ frameState' = NoState
  /\ UNCHANGED <<gameState, taskPc, index>>
-----------------------------------------------------------------------------
\* The Task's thread takes state_lock_ and finds a state to run on.
StartProgram(t) ==
  /\ taskPc[t] = "enter"
  /\ gameState[t] # NoState
  /\ taskPc' = [taskPc EXCEPT ![t] = "running"]
  /\ UNCHANGED <<gameState, mainPc, index, frameState>>

\* It finds none and blocks on should_run_.
SleepTask(t) ==
  /\ taskPc[t] = "enter"
  /\ gameState[t] = NoState
  /\ taskPc' = [taskPc EXCEPT ![t] = "asleep"]
  /\ UNCHANGED <<gameState, mainPc, index, frameState>>

\* should_wait_.notify_all: only the main thread sleeps there.
WakeMain(t) == IF mainPc = "asleep" /\ index = t THEN "join" ELSE mainPc

\* ProgramImpl::Run has returned: the state is cleared, the main thread
\* notified, and state_lock_ goes out of scope at the end of the loop body.
FinishProgram(t) ==
  /\ taskPc[t] = "running"
  /\ gameState' = [gameState EXCEPT ![t] = NoState]
  /\ taskPc' = [taskPc EXCEPT ![t] = "enter"]
  /\ mainPc' = WakeMain(t)
  /\ UNCHANGED <<index, frameState>>

\* Condition variables may wake their waiters for no reason.
SpuriousTask(t) ==
  /\ taskPc[t] = "asleep"
  /\ taskPc' = [taskPc EXCEPT ![t] = "enter"]
  /\ UNCHANGED <<gameState, mainPc, index, frameState>>

SpuriousMain ==
  /\ mainPc = "asleep"
  /\ mainPc' = "join"
  /\ UNCHANGED <<gameState, taskPc, index, frameState>>

\* The steps of the main thread inside ProgramRegistry::Run, and of a Task's
\* thread, that do not depend on what the programs do.
MainStep == RunTask \/ StartMain \/ JoinTask \/ SleepOnTask \/ EndFrame
TaskStep(t) == StartProgram(t) \/ SleepTask(t)
Spurious == SpuriousMain \/ \E t \in Tasks : SpuriousTask(t)

Next ==
  \/ \E s \in States : BeginFrame(s)
  \/ RunTask \/ StartMain \/ FinishMain \/ JoinTask \/ SleepOnTask \/ EndFrame
  \/ \E t \in Tasks : StartProgram(t) \/ SleepTask(t) \/ FinishProgram(t)
  \/ Spurious

Spec == Init /\ [][Next]_taskVars

\* Threads that can run do; a program's systems terminate.  qb_loop need not
\* be called again, and nothing is assumed of spurious wakeups.
FairSpec ==
  /\ Spec
  /\ WF_taskVars(MainStep)
  /\ WF_taskVars(FinishMain)
  /\ \A t \in Tasks : WF_taskVars(TaskStep(t)) /\ WF_taskVars(FinishProgram(t))
-----------------------------------------------------------------------------
TypeOK ==
  /\ gameState \in [Tasks -> States \cup {NoState}]
  /\ taskPc \in [Tasks -> TaskPlaces]
  /\ mainPc \in MainPlaces
  /\ index \in 1 .. NumTasks + 1
  /\ frameState \in States \cup {NoState}

\* A frame is joined: when qb_loop is between two frames no program is running
\* and none still has a state to run on, so that scenes may be switched or
\* destroyed there and no frame overlaps the next one.
FrameJoined ==
  mainPc = "idle" =>
    \A t \in Tasks : gameState[t] = NoState /\ taskPc[t] # "running"

\* A program only ever runs on the game state of the frame under way, never
\* on one left from a frame before (its scene may be gone).
OnFrameState ==
  \A t \in Tasks : taskPc[t] = "running" => (gameState[t] = frameState /\ mainPc # "idle")

\* No wakeup is lost: a Task asleep has nothing to run, and the main thread
\* asleep on a Task is owed the notification of a run still to finish.
NobodyOverslept ==
  /\ \A t \in Tasks : taskPc[t] = "asleep" => gameState[t] = NoState
  /\ mainPc = "asleep" => (index \in Tasks /\ gameState[index] # NoState)

\* Every frame comes to its end, whatever the interleaving and the wakeups.
FrameEnds == (mainPc = "start") ~> (mainPc = "idle")
-----------------------------------------------------------------------------
\* The frame as FrameSync sees it.
Programs == 0 .. NumTasks

MainProgress ==
  CASE mainPc = "start" -> "ready" [] mainPc = "main" -> "running" [] OTHER -> "done"

\* A Task is ready from the start of the frame until its thread takes the state.
TaskProgress(t) ==
  IF taskPc[t] = "running" THEN "running"
  ELSE IF gameState[t] # NoState \/ (mainPc = "start" /\ index <= t) THEN "ready"
  ELSE "done"

FrameProgress == [p \in Programs |-> IF p = 0 THEN MainProgress ELSE TaskProgress(p)]

FrameOn ==
  [p \in Programs |->
     IF p = 0 THEN IF mainPc = "main" THEN frameState ELSE NoState
     ELSE IF taskPc[p] = "running" THEN gameState[p] ELSE NoState]

Sync == INSTANCE FrameSync
          WITH open <- frameState, progress <- FrameProgress, on <- FrameOn

\* ProgramRegistry::Run runs every program exactly once in a frame, on that
\* frame's state, and returns only when all of them have finished.
ImplementsFrameSync == Sync!Spec
=============================================================================
