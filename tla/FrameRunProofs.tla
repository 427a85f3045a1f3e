--------------------------- MODULE FrameRunProofs ---------------------------
(***************************************************************************)
(* TLAPS proofs about TaskPool and FrameRun, for every number of Tasks and *)
(* every set of game states: the frame is joined, programs run on its state*)
(* only, no wakeup is lost, and the handshake implements FrameSync; all of *)
(* this also with systems, for every layout of them over the programs.     *)
(* The loops of the programs stay sorted and complete; systems that share a*)
(* barrier, or walk a shared component each, exclude each other; and where *)
(* no system with a ticket is skipped, systems run in ticket order and     *)
(* every barrier implements module Barrier.                                *)
(***************************************************************************)
EXTENDS FrameRun, FiniteSetTheorems, SequenceTheorems, TLAPS

\* The argument of Run exists exactly during a frame, and is what every Task
\* that holds a state holds.
StateOfFrame ==
  /\ frameState = NoState <=> mainPc = "idle"
  /\ \A t \in Tasks : gameState[t] \in {NoState, frameState}

\* A running thread has not cleared its state; a sleeping one has none.
StateOfTask ==
  \A t \in Tasks :
    /\ taskPc[t] = "running" => gameState[t] # NoState
    /\ taskPc[t] = "asleep" => gameState[t] = NoState

\* Which Tasks have no state, by where the main thread is: those it has not
\* come to in its first loop, those it is past in its second.
LoopProgress ==
  /\ mainPc = "idle" => \A t \in Tasks : gameState[t] = NoState
  /\ mainPc = "start" => \A t \in Tasks : index <= t => gameState[t] = NoState
  /\ mainPc \in {"join", "asleep"} => \A t \in Tasks : t < index => gameState[t] = NoState
  /\ mainPc = "asleep" => (index \in Tasks /\ gameState[index] # NoState)

IInv == TypeOK /\ StateOfFrame /\ StateOfTask /\ LoopProgress
-----------------------------------------------------------------------------
\* The initial state satisfies the inductive invariant.
LEMMA InitIInv == Init => IInv
BY TaskPoolAssumption
DEF Init, IInv, TypeOK, StateOfFrame, StateOfTask, LoopProgress, Tasks,
    TaskPlaces, MainPlaces

\* Every step preserves the inductive invariant.
LEMMA NextIInv ==
  ASSUME IInv, [Next]_taskVars
  PROVE  IInv'
<1> USE TaskPoolAssumption
<1> USE DEF IInv, TypeOK, StateOfFrame, StateOfTask, LoopProgress, Tasks,
            TaskPlaces, MainPlaces
<1>1. ASSUME NEW s \in States, BeginFrame(s) PROVE IInv'
  BY <1>1 DEF BeginFrame
<1>2. CASE RunTask
  \* The Task at index is not running, and is awake when it has its state.
  BY <1>2 DEF RunTask, WakeTask, Locked
<1>3. CASE StartMain
  BY <1>3 DEF StartMain
<1>4. CASE FinishMain
  BY <1>4 DEF FinishMain
<1>5. CASE JoinTask
  BY <1>5 DEF JoinTask, Waited
<1>6. CASE SleepOnTask
  BY <1>6 DEF SleepOnTask, Waited
<1>7. CASE EndFrame
  \* index is past the last Task, so none holds a state.
  BY <1>7 DEF EndFrame
<1>8. ASSUME NEW t \in Tasks, StartProgram(t) PROVE IInv'
  BY <1>8 DEF StartProgram
<1>9. ASSUME NEW t \in Tasks, SleepTask(t) PROVE IInv'
  BY <1>9 DEF SleepTask
<1>10. ASSUME NEW t \in Tasks, FinishProgram(t) PROVE IInv'
  BY <1>10 DEF FinishProgram, WakeMain
<1>11. ASSUME NEW t \in Tasks, SpuriousTask(t) PROVE IInv'
  BY <1>11 DEF SpuriousTask
<1>12. CASE SpuriousMain
  BY <1>12 DEF SpuriousMain
<1>13. CASE UNCHANGED taskVars
  BY <1>13 DEF taskVars
<1> QED
  BY <1>1, <1>2, <1>3, <1>4, <1>5, <1>6, <1>7, <1>8, <1>9, <1>10, <1>11,
     <1>12, <1>13 DEF Next, Spurious

\* The inductive invariant holds in every reachable state.
LEMMA Invariance == Spec => []IInv
<1>1. IInv /\ [Next]_taskVars => IInv'
  BY NextIInv
<1> QED
  BY <1>1, InitIInv, PTL DEF Spec

\* Type correctness, for every number of Tasks.
THEOREM TypeCorrect == Spec => []TypeOK
<1>1. IInv => TypeOK
  BY DEF IInv
<1> QED
  BY <1>1, Invariance, PTL

\* No program outlives its frame: between two frames every Task has finished.
THEOREM FramesAreJoined == Spec => []FrameJoined
<1>1. IInv => FrameJoined
  BY DEF IInv, LoopProgress, StateOfTask, FrameJoined
<1> QED
  BY <1>1, Invariance, PTL

\* A program runs only inside a frame, and on that frame's game state.
THEOREM RunsOnFrameState == Spec => []OnFrameState
<1>1. IInv => OnFrameState
  BY DEF IInv, StateOfFrame, StateOfTask, LoopProgress, OnFrameState
<1> QED
  BY <1>1, Invariance, PTL

\* Neither side of the handshake sleeps through its notification.
THEOREM NoWakeupIsLost == Spec => []NobodyOverslept
<1>1. IInv => NobodyOverslept
  BY DEF IInv, StateOfTask, LoopProgress, NobodyOverslept
<1> QED
  BY <1>1, Invariance, PTL
-----------------------------------------------------------------------------
\* A step that changes neither progress nor state nor who runs on what is a
\* stuttering step of FrameSync.
LEMMA Stutter ==
  ASSUME frameState' = frameState, MainProgress' = MainProgress,
         (mainPc' = "main") <=> (mainPc = "main"),
         \A t \in Tasks : TaskProgress(t)' = TaskProgress(t),
         \A t \in Tasks : (taskPc'[t] = "running") <=> (taskPc[t] = "running"),
         \A t \in Tasks : taskPc[t] = "running" => gameState'[t] = gameState[t]
  PROVE  UNCHANGED Sync!vars
<1>1. FrameProgress' = FrameProgress
  BY TaskPoolAssumption DEF FrameProgress, Programs, Tasks
<1>2. FrameOn' = FrameOn
  BY TaskPoolAssumption DEF FrameOn, Programs, Tasks
<1> QED
  BY <1>1, <1>2 DEF Sync!vars

\* A step that moves the main program alone.
LEMMA MainMoves ==
  ASSUME NEW v, NEW s, MainProgress' = v,
         s = (IF mainPc' = "main" THEN frameState' ELSE NoState),
         \A t \in Tasks : TaskProgress(t)' = TaskProgress(t),
         taskPc' = taskPc, gameState' = gameState
  PROVE  /\ FrameProgress' = [FrameProgress EXCEPT ![0] = v]
         /\ FrameOn' = [FrameOn EXCEPT ![0] = s]
<1>1. \A p \in Programs : p # 0 => p \in Tasks
  BY TaskPoolAssumption DEF Programs, Tasks
<1>2. FrameProgress' = [FrameProgress EXCEPT ![0] = v]
  BY <1>1 DEF FrameProgress
<1>3. FrameOn' = [FrameOn EXCEPT ![0] = s]
  BY DEF FrameOn
<1> QED
  BY <1>2, <1>3

\* A step that moves the program of one Task alone.
LEMMA TaskMoves ==
  ASSUME NEW t \in Tasks, NEW v, NEW s, TaskProgress(t)' = v,
         s = (IF taskPc'[t] = "running" THEN gameState'[t] ELSE NoState),
         \A u \in Tasks \ {t} :
           /\ TaskProgress(u)' = TaskProgress(u)
           /\ taskPc'[u] = taskPc[u]
           /\ gameState'[u] = gameState[u],
         MainProgress' = MainProgress, frameState' = frameState,
         (mainPc' = "main") <=> (mainPc = "main")
  PROVE  /\ FrameProgress' = [FrameProgress EXCEPT ![t] = v]
         /\ FrameOn' = [FrameOn EXCEPT ![t] = s]
<1>1. \A p \in Programs : p # 0 => p \in Tasks
  BY TaskPoolAssumption DEF Programs, Tasks
<1>2. t # 0
  BY TaskPoolAssumption DEF Tasks
<1>3. FrameProgress' = [FrameProgress EXCEPT ![t] = v]
  BY <1>1, <1>2 DEF FrameProgress
<1>4. FrameOn' = [FrameOn EXCEPT ![t] = s]
  BY <1>1, <1>2 DEF FrameOn
<1> QED
  BY <1>3, <1>4

\* The initial states of TaskPool are initial states of FrameSync.
LEMMA InitRefines == Init => Sync!Init
BY TaskPoolAssumption
DEF Init, Sync!Init, FrameProgress, FrameOn, MainProgress, TaskProgress,
    Programs, Tasks

\* Every step of TaskPool is a step of FrameSync or leaves it alone.
LEMMA NextRefines ==
  ASSUME IInv, [Next]_taskVars
  PROVE  [Sync!Next]_(Sync!vars)
<1> USE TaskPoolAssumption
<1> USE DEF IInv, TypeOK, StateOfFrame, StateOfTask, LoopProgress, Tasks,
            TaskPlaces, MainPlaces
<1>1. ASSUME NEW s \in States, BeginFrame(s) PROVE Sync!Begin(s)
  BY <1>1 DEF BeginFrame, Sync!Begin, FrameProgress, FrameOn, MainProgress,
              TaskProgress, Programs
<1>2. CASE RunTask
  <2>1. \A t \in Tasks : TaskProgress(t)' = TaskProgress(t)
    BY <1>2 DEF RunTask, WakeTask, Locked, TaskProgress
  <2> QED
    BY <1>2, <2>1, Stutter DEF RunTask, WakeTask, Locked, MainProgress
<1>3. CASE StartMain
  <2>1. \A t \in Tasks : TaskProgress(t)' = TaskProgress(t)
    BY <1>3 DEF StartMain, TaskProgress
  <2>2. /\ FrameProgress' = [FrameProgress EXCEPT ![0] = "running"]
        /\ FrameOn' = [FrameOn EXCEPT ![0] = frameState]
    BY <1>3, <2>1, MainMoves DEF StartMain, MainProgress
  <2>3. 0 \in Programs /\ FrameProgress[0] = "ready"
    BY <1>3 DEF StartMain, FrameProgress, MainProgress, Programs
  <2>4. Sync!Start(0)
    BY <1>3, <2>2, <2>3 DEF StartMain, Sync!Start
  <2> QED
    BY <2>3, <2>4 DEF Sync!Next
<1>4. CASE FinishMain
  <2>1. \A t \in Tasks : TaskProgress(t)' = TaskProgress(t)
    BY <1>4 DEF FinishMain, TaskProgress
  <2>2. /\ FrameProgress' = [FrameProgress EXCEPT ![0] = "done"]
        /\ FrameOn' = [FrameOn EXCEPT ![0] = NoState]
    BY <1>4, <2>1, MainMoves DEF FinishMain, MainProgress
  <2>3. 0 \in Programs /\ FrameProgress[0] = "running"
    BY <1>4 DEF FinishMain, FrameProgress, MainProgress, Programs
  <2>4. Sync!Finish(0)
    BY <1>4, <2>2, <2>3 DEF FinishMain, Sync!Finish
  <2> QED
    BY <2>3, <2>4 DEF Sync!Next
<1>5. CASE JoinTask
  <2>1. \A t \in Tasks : TaskProgress(t)' = TaskProgress(t)
    BY <1>5 DEF JoinTask, TaskProgress
  <2> QED
    BY <1>5, <2>1, Stutter DEF JoinTask, MainProgress
<1>6. CASE SleepOnTask
  <2>1. \A t \in Tasks : TaskProgress(t)' = TaskProgress(t)
    BY <1>6 DEF SleepOnTask, TaskProgress
  <2> QED
    BY <1>6, <2>1, Stutter DEF SleepOnTask, MainProgress
<1>7. CASE EndFrame
  \* The main thread is past every Task, so all of them are done.
  <2>1. \A t \in Tasks : TaskProgress(t) = "done" /\ TaskProgress(t)' = "done"
    BY <1>7 DEF EndFrame, TaskProgress
  <2>2. MainProgress = "done" /\ MainProgress' = "done"
    BY <1>7 DEF EndFrame, MainProgress
  <2>3. \A p \in Programs : FrameProgress[p] = "done" /\ FrameProgress'[p] = "done"
    BY <2>1, <2>2 DEF FrameProgress, Programs
  <2>4. FrameProgress' = FrameProgress
    BY <2>3 DEF FrameProgress
  <2>5. FrameOn' = FrameOn
    BY <1>7 DEF EndFrame, FrameOn, Programs
  <2> QED
    BY <1>7, <2>3, <2>4, <2>5 DEF EndFrame, Sync!End, Sync!Next
<1>8. ASSUME NEW t \in Tasks, StartProgram(t) PROVE [Sync!Next]_(Sync!vars)
  <2>1. \A u \in Tasks \ {t} : TaskProgress(u)' = TaskProgress(u)
    BY <1>8 DEF StartProgram, TaskProgress
  <2>2. gameState[t] = frameState /\ frameState # NoState
    BY <1>8 DEF StartProgram
  <2>3. /\ FrameProgress' = [FrameProgress EXCEPT ![t] = "running"]
        /\ FrameOn' = [FrameOn EXCEPT ![t] = frameState]
    BY <1>8, <2>1, <2>2, TaskMoves DEF StartProgram, TaskProgress, MainProgress
  <2>4. t \in Programs /\ FrameProgress[t] = "ready"
    BY <1>8 DEF StartProgram, FrameProgress, TaskProgress, Programs
  <2>5. Sync!Start(t)
    BY <1>8, <2>2, <2>3, <2>4 DEF StartProgram, Sync!Start
  <2> QED
    BY <2>4, <2>5 DEF Sync!Next
<1>9. ASSUME NEW t \in Tasks, SleepTask(t) PROVE UNCHANGED Sync!vars
  <2>1. \A u \in Tasks : TaskProgress(u)' = TaskProgress(u)
    BY <1>9 DEF SleepTask, TaskProgress
  <2> QED
    BY <1>9, <2>1, Stutter DEF SleepTask, MainProgress
<1>10. ASSUME NEW t \in Tasks, FinishProgram(t) PROVE [Sync!Next]_(Sync!vars)
  <2>1. \A u \in Tasks \ {t} : TaskProgress(u)' = TaskProgress(u)
    BY <1>10 DEF FinishProgram, WakeMain, TaskProgress
  <2>2. TaskProgress(t)' = "done"
    \* The main thread has handed t its state, so it is past t in "start".
    BY <1>10 DEF FinishProgram, WakeMain, TaskProgress
  <2>3. /\ FrameProgress' = [FrameProgress EXCEPT ![t] = "done"]
        /\ FrameOn' = [FrameOn EXCEPT ![t] = NoState]
    BY <1>10, <2>1, <2>2, TaskMoves DEF FinishProgram, WakeMain, MainProgress
  <2>4. t \in Programs /\ t # 0 /\ FrameProgress[t] = "running"
    BY <1>10 DEF FinishProgram, FrameProgress, TaskProgress, Programs
  <2>5. frameState # NoState
    BY <1>10 DEF FinishProgram
  <2>6. Sync!Finish(t)
    BY <1>10, <2>3, <2>4, <2>5 DEF FinishProgram, Sync!Finish
  <2> QED
    BY <2>4, <2>6 DEF Sync!Next
<1>11. ASSUME NEW t \in Tasks, SpuriousTask(t) PROVE UNCHANGED Sync!vars
  <2>1. \A u \in Tasks : TaskProgress(u)' = TaskProgress(u)
    BY <1>11 DEF SpuriousTask, TaskProgress
  <2> QED
    BY <1>11, <2>1, Stutter DEF SpuriousTask, MainProgress
<1>12. CASE SpuriousMain
  <2>1. \A t \in Tasks : TaskProgress(t)' = TaskProgress(t)
    BY <1>12 DEF SpuriousMain, TaskProgress
  <2> QED
    BY <1>12, <2>1, Stutter DEF SpuriousMain, MainProgress
<1>13. CASE UNCHANGED taskVars
  <2>1. \A t \in Tasks : TaskProgress(t)' = TaskProgress(t)
    BY <1>13 DEF taskVars, TaskProgress
  <2> QED
    BY <1>13, <2>1, Stutter DEF taskVars, MainProgress
<1> QED
  BY <1>1, <1>2, <1>3, <1>4, <1>5, <1>6, <1>7, <1>8, <1>9, <1>10, <1>11,
     <1>12, <1>13 DEF Next, Spurious, Sync!Next

\* The threads, mutexes and condition variables of ProgramRegistry::Run and
\* Task implement the frame of FrameSync, for every number of Tasks.
THEOREM FrameRefinement == Spec => ImplementsFrameSync
<1>1. IInv /\ [Next]_taskVars => [Sync!Next]_(Sync!vars)
  BY NextRefines
<1> QED
  BY <1>1, InitRefines, Invariance, PTL DEF Spec, Sync!Spec, ImplementsFrameSync
-----------------------------------------------------------------------------
(* Systems in the programs: FrameRun.                                      *)

\* A step of a system is none of the handshake, and every other step of
\* FrameRun is one.
LEMMA NextFrameIsNext ==
  ASSUME [NextFrame]_vars
  PROVE  [Next]_taskVars
<1>1. ASSUME NEW s \in Systems, DisableSystem(s) \/ EnableSystem(s)
      PROVE  UNCHANGED taskVars
  BY <1>1 DEF DisableSystem, EnableSystem
<1>2. ASSUME NEW p \in Programs, SystemStep(p) \/ SpuriousTicket(p)
      PROVE  UNCHANGED taskVars
  BY <1>2 DEF SystemStep, SkipSystem, RunSystem, LockTicket, SleepOnTicket, LockComponent,
              TouchComponent, Transform, UnlockTicket, NotifyTicket, SpuriousTicket
<1>3. ASSUME MainThread \/ (\E s \in States : BeginFrame(s)) \/ Spurious
             \/ \E t \in Tasks : TaskThread(t)
      PROVE  Next
  BY <1>3 DEF MainThread, TaskThread, Next
<1>. QED
  BY <1>1, <1>2, <1>3 DEF NextFrame, SpuriousStep, vars

\* With systems, ProgramRegistry::Run and Task do what they do without.
THEOREM FrameRunIsTaskPool == FrameSpec => Spec
<1>1. InitFrame => Init
  BY DEF InitFrame
<1>2. [NextFrame]_vars => [Next]_taskVars
  BY NextFrameIsNext
<1>. QED
  BY <1>1, <1>2, PTL DEF FrameSpec, Spec

\* So every frame of systems is joined, on one state, and slept through by none.
THEOREM FramesOfSystems == FrameSpec => [](FrameJoined /\ OnFrameState /\ NobodyOverslept)
BY FrameRunIsTaskPool, FramesAreJoined, RunsOnFrameState, NoWakeupIsLost, PTL

\* And it runs every program once.
THEOREM FrameRunRefinement == FrameSpec => ImplementsFrameSync
BY FrameRunIsTaskPool, FrameRefinement, PTL
-----------------------------------------------------------------------------
PlacesTypeOK ==
  /\ at \in [Programs -> Places]
  /\ current \in [Programs -> Nat] /\ held \in [Programs -> Nat]
  /\ readers \in [Components -> SUBSET Programs]
  /\ writer \in [Components -> Programs \cup {Nobody}]

InProgram(p) == IF p = 0 THEN mainPc = "main" ELSE taskPc[p] = "running"

\* A program is at a system just while its thread runs it.
AtSystems == \A p \in Programs : at[p] # "out" <=> InProgram(p)

OneComponent(p) == System(p) \in Systems /\ Len(ComponentList(p)) = 1

\* The thread of the program owns or shares what its system walks, if it is shared.
HasLock(p) ==
  LET c == ComponentList(p)[1]
  IN  c.component \in Shared =>
        IF c.is_mutable THEN writer[c.component] = p ELSE p \in readers[c.component]

LocksInv ==
  /\ \A c \in Components : writer[c] # Nobody => readers[c] = {}
  /\ \A p \in Programs : at[p] = "component" /\ OneComponent(p) => held[p] = 0
  /\ \A p \in Programs : at[p] = "transform" /\ OneComponent(p) => HasLock(p)

FrameInv == PlacesTypeOK /\ AtSystems /\ LocksInv

LEMMA InitFrameInv == InitFrame => FrameInv
BY TaskPoolAssumption, FrameRunAssumption
DEF InitFrame, InitSystems, Init, FrameInv, PlacesTypeOK, AtSystems, InProgram, LocksInv,
    Places, Programs, Tasks

\* The system a program is at does not change but by its own steps.
LEMMA SystemKept ==
  ASSUME NEW q \in Programs, UNCHANGED listVars, current'[q] = current[q]
  PROVE  /\ System(q)' = System(q)
         /\ ComponentList(q)' = ComponentList(q)
         /\ OneComponent(q)' = OneComponent(q)
BY DEF System, ComponentList, OneComponent, listVars

\* A step of the handshake: a program is entered, left, or neither.
LEMMA HandshakeKeeps ==
  ASSUME IInv, FrameInv,
         \/ MainThread
         \/ \E t \in Tasks : TaskThread(t)
         \/ Spurious /\ UNCHANGED sysVars
         \/ \E s \in States : BeginFrame(s) /\ UNCHANGED sysVars
  PROVE  FrameInv'
<1>. USE TaskPoolAssumption
<1>1. ASSUME UNCHANGED sysVars,
             \A p \in Programs : InProgram(p)' <=> InProgram(p)
      PROVE  FrameInv'
  <2>1. \A q \in Programs : /\ OneComponent(q)' = OneComponent(q)
                            /\ ComponentList(q)' = ComponentList(q)
    BY <1>1, SystemKept DEF sysVars
  <2>. QED
    BY <1>1, <2>1 DEF FrameInv, PlacesTypeOK, AtSystems, LocksInv, HasLock, sysVars,
                      componentVars, barrierVars
<1>2. ASSUME NEW p \in Programs, NEW place \in {"pick", "out"},
             at' = [at EXCEPT ![p] = place],
             current' = current \/ current' = [current EXCEPT ![p] = 1],
             UNCHANGED <<listVars, barrierVars, componentVars>>,
             \A q \in Programs \ {p} : InProgram(q)' <=> InProgram(q),
             InProgram(p)' <=> place = "pick"
      PROVE  FrameInv'
  <2>1. /\ PlacesTypeOK /\ UNCHANGED <<listVars, held, readers, writer>>
        /\ current' \in [Programs -> Nat]
        /\ \A q \in Programs \ {p} : current'[q] = current[q]
    BY <1>2 DEF FrameInv, PlacesTypeOK, barrierVars, componentVars
  <2>2. \A q \in Programs \ {p} : /\ OneComponent(q)' = OneComponent(q)
                                  /\ ComponentList(q)' = ComponentList(q)
    BY <2>1, SystemKept
  <2>3. PlacesTypeOK'
    BY <1>2, <2>1 DEF PlacesTypeOK, Places
  <2>4. AtSystems'
    BY <1>2, <2>1 DEF FrameInv, AtSystems, PlacesTypeOK
  <2>5. LocksInv'
    BY <1>2, <2>1, <2>2 DEF FrameInv, LocksInv, PlacesTypeOK, HasLock
  <2>. QED
    BY <2>3, <2>4, <2>5 DEF FrameInv
<1>3. ASSUME \/ RunTask \/ JoinTask \/ SleepOnTask \/ EndFrame \/ Spurious
             \/ (\E t \in Tasks : SleepTask(t)) \/ \E s \in States : BeginFrame(s)
      PROVE  \A p \in Programs : InProgram(p)' <=> InProgram(p)
  BY <1>3 DEF IInv, TypeOK, InProgram, Programs, Tasks, TaskPlaces, RunTask, WakeTask, JoinTask,
              SleepOnTask, EndFrame, Spurious, SpuriousMain, SpuriousTask, SleepTask, BeginFrame
<1>4. 0 \in Programs /\ Tasks \subseteq Programs /\ 0 \notin Tasks
  BY DEF Programs, Tasks
<1>5. ASSUME StartMain, EnterProgram(0)
      PROVE  FrameInv'
  <2>1. /\ \A q \in Programs \ {0} : InProgram(q)' <=> InProgram(q)
        /\ InProgram(0)'
    BY <1>5 DEF StartMain, InProgram
  <2>. QED
    BY <1>2, <1>4, <1>5, <2>1 DEF EnterProgram
<1>6. ASSUME FinishMain, LeaveProgram(0)
      PROVE  FrameInv'
  <2>1. /\ \A q \in Programs \ {0} : InProgram(q)' <=> InProgram(q)
        /\ ~InProgram(0)'
    BY <1>6 DEF FinishMain, InProgram
  <2>. QED
    BY <1>2, <1>4, <1>6, <2>1 DEF LeaveProgram
<1>7. ASSUME NEW t \in Tasks, StartProgram(t), EnterProgram(t)
      PROVE  FrameInv'
  <2>1. /\ \A q \in Programs \ {t} : InProgram(q)' <=> InProgram(q)
        /\ InProgram(t)'
    BY <1>4, <1>7 DEF StartProgram, InProgram, IInv, TypeOK, Programs, Tasks
  <2>. QED
    BY <1>2, <1>4, <1>7, <2>1 DEF EnterProgram
<1>8. ASSUME NEW t \in Tasks, FinishProgram(t), LeaveProgram(t)
      PROVE  FrameInv'
  <2>1. /\ \A q \in Programs \ {t} : InProgram(q)' <=> InProgram(q)
        /\ ~InProgram(t)'
    BY <1>4, <1>8 DEF FinishProgram, WakeMain, InProgram, IInv, TypeOK, Programs, Tasks
  <2>. QED
    BY <1>2, <1>4, <1>8, <2>1 DEF LeaveProgram
<1>. QED
  BY <1>1, <1>3, <1>5, <1>6, <1>7, <1>8 DEF MainThread, TaskThread

\* Systems are disabled and enabled while no program is at one.
LEMMA SwitchKeeps ==
  ASSUME IInv, FrameInv, NEW s \in Systems, DisableSystem(s) \/ EnableSystem(s)
  PROVE  FrameInv'
<1>1. mainPc = "idle" /\ UNCHANGED <<taskVars, at, current, held, readers, writer>>
  BY DEF DisableSystem, EnableSystem, barrierVars, componentVars
<1>2. \A p \in Programs : ~InProgram(p)
  BY <1>1 DEF IInv, StateOfTask, LoopProgress, InProgram, Programs, Tasks
<1>3. \A p \in Programs : at[p] = "out" /\ InProgram(p)' = InProgram(p)
  BY <1>1, <1>2 DEF FrameInv, AtSystems, InProgram, taskVars
<1>. QED
  BY <1>1, <1>3 DEF FrameInv, PlacesTypeOK, AtSystems, LocksInv

\* The one component of a system is a component.
LEMMA ItsComponent ==
  ASSUME NEW p \in Programs, OneComponent(p)
  PROVE  ComponentList(p)[1].component \in Components
<1>1. PICK s \in Systems : System(p) = s /\ Len(ComponentsOf[s]) = 1
  BY DEF OneComponent, ComponentList
<1>2. ComponentsOf[s] \in Seq([component : Components, is_mutable : BOOLEAN])
  BY FrameRunAssumption
<1>3. ComponentsOf[s][1] \in [component : Components, is_mutable : BOOLEAN]
  <2>1. \A S : \A q \in Seq(S) : Len(q) = 1 => q[1] \in S
    OBVIOUS
  <2>. QED
    BY <1>1, <1>2, <2>1
<1>. QED
  BY <1>1, <1>3 DEF ComponentList

\* A step of the thread of p at its system, as the others see it: it keeps what
\* they have locked, and is let in only where it must.
LEMMA StepKeeps ==
  ASSUME FrameInv, PlacesTypeOK', NEW p \in Programs, UNCHANGED <<taskVars, listVars>>,
         at[p] # "out", at'[p] # "out",
         \A q \in Programs \ {p} :
           /\ at'[q] = at[q] \/ (at[q] = "asleep" /\ at'[q] = "lock")
           /\ current'[q] = current[q] /\ held'[q] = held[q],
         \A c \in Components :
           /\ writer'[c] # Nobody => readers'[c] = {}
           /\ \A q \in Programs \ {p} : /\ writer[c] = q => writer'[c] = q
                                        /\ q \in readers[c] => q \in readers'[c],
         at'[p] = "component" /\ OneComponent(p)' => held'[p] = 0,
         at'[p] = "transform" /\ OneComponent(p)' => HasLock(p)'
  PROVE  FrameInv'
<1>1. \A q \in Programs \ {p} : /\ OneComponent(q)' = OneComponent(q)
                                /\ ComponentList(q)' = ComponentList(q)
  BY SystemKept
<1>2. \A q \in Programs : InProgram(q)' = InProgram(q)
  BY DEF InProgram, taskVars
<1>3. AtSystems'
  BY <1>2 DEF FrameInv, AtSystems
<1>4. \A q \in Programs \ {p} : at'[q] = "transform" /\ OneComponent(q)' => HasLock(q)'
  <2>1. SUFFICES ASSUME NEW q \in Programs \ {p}, at[q] = "transform", OneComponent(q)
                 PROVE  HasLock(q)'
    BY <1>1
  <2>2. HasLock(q) /\ ComponentList(q)[1].component \in Components
    BY <2>1, ItsComponent DEF FrameInv, LocksInv
  <2>3. PICK c : c = ComponentList(q)[1] /\ c = ComponentList(q)'[1] /\ c.component \in Components
    BY <1>1, <2>2
  <2>4. /\ writer[c.component] = q => writer'[c.component] = q
        /\ q \in readers[c.component] => q \in readers'[c.component]
    BY <2>3
  <2>. QED
    BY <2>2, <2>3, <2>4 DEF HasLock
<1>5. \A q \in Programs \ {p} : at'[q] = "component" /\ OneComponent(q)' => held'[q] = 0
  BY <1>1 DEF FrameInv, LocksInv
<1>6. LocksInv'
  BY <1>4, <1>5 DEF LocksInv
<1>. QED
  BY <1>3, <1>6 DEF FrameInv

\* The steps that lock no component and end no walk.
LEMMA TicketStepKeeps ==
  ASSUME FrameInv, NEW p \in Programs,
         \/ SkipSystem(p) \/ RunSystem(p) \/ LockTicket(p) \/ SleepOnTicket(p)
         \/ TouchComponent(p) \/ UnlockTicket(p) \/ NotifyTicket(p) \/ SpuriousTicket(p)
  PROVE  FrameInv'
<1>1. UNCHANGED <<taskVars, listVars, readers, writer>> /\ PlacesTypeOK
  BY DEF SkipSystem, RunSystem, LockTicket, SleepOnTicket, TouchComponent, UnlockTicket,
         NotifyTicket, SpuriousTicket, componentVars, FrameInv
<1>2. \A c \in Components :
        /\ writer'[c] # Nobody => readers'[c] = {}
        /\ \A q \in Programs \ {p} : /\ writer[c] = q => writer'[c] = q
                                     /\ q \in readers[c] => q \in readers'[c]
  BY <1>1 DEF FrameInv, LocksInv
<1>3. ASSUME NEW place \in Places \ {"out"}, NEW n \in Nat, NEW i \in Nat,
             at[p] # "out", at' = [at EXCEPT ![p] = place], held' = [held EXCEPT ![p] = n],
             current' = [current EXCEPT ![p] = i],
             place = "component" /\ OneComponent(p)' => n = 0,
             place = "transform" => ~OneComponent(p)'
      PROVE  FrameInv'
  <2>1. PlacesTypeOK'
    BY <1>1, <1>3 DEF PlacesTypeOK
  <2>2. /\ at'[p] = place /\ held'[p] = n
        /\ \A q \in Programs \ {p} :
             at'[q] = at[q] /\ current'[q] = current[q] /\ held'[q] = held[q]
    BY <1>1, <1>3 DEF PlacesTypeOK
  <2>. QED
    BY <1>1, <1>2, <1>3, <2>1, <2>2, StepKeeps
<1>4. held[p] \in Nat /\ current[p] \in Nat
  BY <1>1 DEF PlacesTypeOK
<1>5. OneComponent(p) => AfterTickets(p) = "component"
  BY DEF OneComponent, AfterTickets
<1>6. AfterTickets(p) \in {"component", "transform"}
  BY DEF AfterTickets
<1>7. current' = current => OneComponent(p)' = OneComponent(p)
  BY <1>1, SystemKept
<1>8. CASE SkipSystem(p)
  <2>1. at' = [at EXCEPT ![p] = "pick"] /\ held' = [held EXCEPT ![p] = held[p]]
    BY <1>1, <1>8 DEF SkipSystem, PlacesTypeOK, barrierVars
  <2>2. at[p] # "out" /\ current' = [current EXCEPT ![p] = current[p] + 1]
    BY <1>8 DEF SkipSystem
  <2>3. current[p] + 1 \in Nat /\ "pick" \in Places \ {"out"}
    BY <1>4 DEF Places
  <2>. QED
    BY <1>3, <1>4, <2>1, <2>2, <2>3
<1>9. CASE RunSystem(p)
  <2>1. current' = [current EXCEPT ![p] = current[p]] /\ current' = current
    BY <1>1, <1>9 DEF RunSystem, PlacesTypeOK
  <2>2. PICK place \in {"lock", "component", "transform"} :
          /\ at' = [at EXCEPT ![p] = place]
          /\ place = "transform" => ~OneComponent(p)
    BY <1>5, <1>6, <1>9 DEF RunSystem
  <2>. QED
    BY <1>3, <1>4, <1>7, <1>9, <2>1, <2>2 DEF RunSystem, Places
<1>10. CASE LockTicket(p)
  <2>1. current' = [current EXCEPT ![p] = current[p]] /\ current' = current
    BY <1>1, <1>10 DEF LockTicket, PlacesTypeOK
  <2>2. CASE LastTicket(p)
    <3>1. PICK place \in {"component", "transform"} :
            /\ at' = [at EXCEPT ![p] = place]
            /\ place = "transform" => ~OneComponent(p)
      BY <1>5, <1>6, <1>10, <2>2 DEF LockTicket
    <3>2. held' = [held EXCEPT ![p] = 0] /\ at[p] # "out"
      BY <1>10, <2>2 DEF LockTicket
    <3>. QED
      BY <1>3, <1>4, <1>7, <2>1, <3>1, <3>2 DEF Places
  <2>3. CASE ~LastTicket(p)
    <3>1. /\ at' = [at EXCEPT ![p] = "lock"] /\ at[p] # "out"
          /\ held' = [held EXCEPT ![p] = held[p] + 1] /\ held[p] + 1 \in Nat
      BY <1>4, <1>10, <2>3 DEF LockTicket
    <3>2. "lock" \in Places \ {"out"}
      BY DEF Places
    <3>. QED
      BY <1>3, <1>4, <2>1, <3>1, <3>2
  <2>. QED
    BY <2>2, <2>3
<1>11. CASE SleepOnTicket(p) \/ SpuriousTicket(p) \/ UnlockTicket(p)
  <2>1. /\ current' = [current EXCEPT ![p] = current[p]]
        /\ held' = [held EXCEPT ![p] = held[p]]
    BY <1>1, <1>11 DEF SleepOnTicket, SpuriousTicket, UnlockTicket, PlacesTypeOK, barrierVars
  <2>2. /\ at[p] # "out"
        /\ \E place \in {"asleep", "lock", "notify"} : at' = [at EXCEPT ![p] = place]
    BY <1>11 DEF SleepOnTicket, SpuriousTicket, UnlockTicket
  <2>. QED
    BY <1>3, <1>4, <2>1, <2>2 DEF Places
<1>12. CASE TouchComponent(p)
  <2>1. current' = [current EXCEPT ![p] = current[p]] /\ current' = current
    BY <1>1, <1>12 DEF TouchComponent, PlacesTypeOK
  <2>2. ~OneComponent(p) /\ at[p] # "out"
    <3>1. Len(ComponentList(p)) > 1 /\ at[p] = "component"
      BY <1>12 DEF TouchComponent
    <3>2. ASSUME Len(ComponentList(p)) = 1 PROVE FALSE
      <4>1. 1 > 1
        BY <3>1, <3>2
      <4>. QED
        BY <4>1
    <3>. QED
      BY <3>1, <3>2 DEF OneComponent
  <2>3. PICK place \in {"transform", "component"}, n \in Nat :
          at' = [at EXCEPT ![p] = place] /\ held' = [held EXCEPT ![p] = n]
    <3> DEFINE last == held[p] + 1 = Len(ComponentList(p))
    <3>1. /\ at' = [at EXCEPT ![p] = IF last THEN "transform" ELSE "component"]
          /\ held' = [held EXCEPT ![p] = IF last THEN 0 ELSE held[p] + 1]
      BY <1>12 DEF TouchComponent
    <3>2. held[p] + 1 \in Nat
      BY <1>4
    <3>. HIDE DEF last
    <3>3. CASE last
      BY <3>1, <3>3
    <3>4. CASE ~last
      BY <3>1, <3>2, <3>4
    <3>. QED
      BY <3>3, <3>4
  <2>4. ~OneComponent(p)' /\ place \in Places \ {"out"}
    BY <1>7, <2>1, <2>2 DEF Places
  <2>. QED
    BY <1>3, <1>4, <2>1, <2>2, <2>3, <2>4
<1>13. CASE NotifyTicket(p)
  <2>1. PlacesTypeOK'
    BY <1>1, <1>4, <1>13 DEF NotifyTicket, PlacesTypeOK, Places
  <2>2. /\ at[p] # "out" /\ at'[p] \in {"pick", "unlock"}
        /\ \A q \in Programs \ {p} :
             /\ at'[q] = at[q] \/ (at[q] = "asleep" /\ at'[q] = "lock")
             /\ current'[q] = current[q] /\ held'[q] = held[q]
    BY <1>1, <1>13 DEF NotifyTicket, Woken, AsleepOn, PlacesTypeOK
  <2>. QED
    BY <1>1, <1>2, <2>1, <2>2, StepKeeps
<1>. QED
  BY <1>8, <1>9, <1>10, <1>11, <1>12, <1>13

\* A system is let in to walk its component.
LEMMA LockKeeps ==
  ASSUME FrameInv, NEW p \in Programs, LockComponent(p)
  PROVE  FrameInv'
<1> DEFINE c == Component(p)
<1>1. /\ UNCHANGED <<taskVars, listVars, current, held>> /\ PlacesTypeOK
      /\ at[p] = "component" /\ at' = [at EXCEPT ![p] = "transform"]
      /\ c \in Shared => writer[c] = Nobody /\ (IsMutable(p) => readers[c] = {})
  BY DEF LockComponent, Free, FrameInv, barrierVars
<1>2. /\ c \notin Shared => writer' = writer /\ readers' = readers
      /\ c \in Shared =>
           /\ IsMutable(p) => writer' = [writer EXCEPT ![c] = p] /\ readers' = readers
           /\ ~IsMutable(p) => readers' = [readers EXCEPT ![c] = @ \cup {p}] /\ writer' = writer
  BY DEF LockComponent, Lock, componentVars
<1>3. Nobody \notin Programs
  BY FrameRunAssumption DEF Programs
<1>4. PlacesTypeOK'
  BY <1>1, <1>2 DEF PlacesTypeOK, Places
<1>5. \A d \in Components :
        /\ writer'[d] # Nobody => readers'[d] = {}
        /\ \A q \in Programs \ {p} : /\ writer[d] = q => writer'[d] = q
                                     /\ q \in readers[d] => q \in readers'[d]
  BY <1>1, <1>2, <1>3 DEF FrameInv, LocksInv, PlacesTypeOK
<1>6. OneComponent(p)' => HasLock(p)'
  <2>1. SUFFICES ASSUME OneComponent(p) PROVE HasLock(p)'
    BY <1>1, SystemKept
  <2>2. held[p] = 0 /\ c = ComponentList(p)[1].component
        /\ IsMutable(p) = ComponentList(p)[1].is_mutable
    BY <1>1, <2>1 DEF FrameInv, LocksInv, Component, IsMutable
  <2>3. c \in Components /\ ComponentList(p)' = ComponentList(p)
    BY <1>1, <2>1, <2>2, ItsComponent, SystemKept
  <2>. QED
    BY <1>1, <1>2, <2>2, <2>3 DEF HasLock, PlacesTypeOK
<1>7. /\ at'[p] = "transform"
      /\ \A q \in Programs \ {p} :
           at'[q] = at[q] /\ current'[q] = current[q] /\ held'[q] = held[q]
  BY <1>1 DEF PlacesTypeOK
<1>. QED
  BY <1>1, <1>4, <1>5, <1>6, <1>7, StepKeeps

\* It ends its walk, and takes away no lock but its own.
LEMMA TransformKeeps ==
  ASSUME FrameInv, NEW p \in Programs, Transform(p)
  PROVE  FrameInv'
<1>1. /\ UNCHANGED <<taskVars, listVars, held>> /\ PlacesTypeOK
      /\ at[p] = "transform"
  BY DEF Transform, FrameInv, barrierVars
<1>2. /\ readers' = [c \in Components |-> readers[c] \ {p}]
      /\ writer' = [c \in Components |-> IF writer[c] = p THEN Nobody ELSE writer[c]]
  BY DEF Transform
<1>3. PlacesTypeOK'
  <2>1. at' \in [Programs -> Places] /\ current' \in [Programs -> Nat]
    <3>1. \E place \in {"pick", "unlock"} : at' = [at EXCEPT ![p] = place]
      BY DEF Transform
    <3>2. current' = current \/ current' = [current EXCEPT ![p] = current[p] + 1]
      BY DEF Transform
    <3>. QED
      BY <1>1, <3>1, <3>2 DEF PlacesTypeOK, Places
  <2>. QED
    BY <1>1, <1>2, <2>1 DEF PlacesTypeOK
<1>4. \A d \in Components :
        /\ writer'[d] # Nobody => readers'[d] = {}
        /\ \A q \in Programs \ {p} : /\ writer[d] = q => writer'[d] = q
                                     /\ q \in readers[d] => q \in readers'[d]
  BY <1>1, <1>2 DEF FrameInv, LocksInv, PlacesTypeOK
<1>5. /\ at'[p] \in {"pick", "unlock"}
      /\ \A q \in Programs \ {p} :
           at'[q] = at[q] /\ current'[q] = current[q] /\ held'[q] = held[q]
  BY <1>1 DEF Transform, PlacesTypeOK
<1>. QED
  BY <1>1, <1>3, <1>4, <1>5, StepKeeps

LEMMA NextFrameInv ==
  ASSUME IInv, FrameInv, [NextFrame]_vars
  PROVE  FrameInv'
<1>1. ASSUME UNCHANGED vars
      PROVE  FrameInv'
  BY <1>1 DEF vars, sysVars, listVars, barrierVars, componentVars, taskVars, FrameInv, PlacesTypeOK,
              AtSystems, InProgram, LocksInv, OneComponent, HasLock, ComponentList, System
<1>2. ASSUME NEW p \in Programs, SystemStep(p) \/ SpuriousTicket(p)
      PROVE  FrameInv'
  BY <1>2, TicketStepKeeps, LockKeeps, TransformKeeps DEF SystemStep
<1>. QED
  BY <1>1, <1>2, SwitchKeeps, HandshakeKeeps DEF NextFrame, SpuriousStep

LEMMA FrameInvariance == FrameSpec => []FrameInv
<1>1. FrameSpec => []IInv
  BY FrameRunIsTaskPool, Invariance, PTL
<1>2. IInv /\ FrameInv /\ [NextFrame]_vars => FrameInv'
  BY NextFrameInv
<1>. QED
  BY <1>1, <1>2, InitFrameInv, PTL DEF FrameSpec
-----------------------------------------------------------------------------
(* Lists of systems.                                                       *)

LEMMA Minimum ==
  ASSUME NEW S \in SUBSET Nat, S # {}
  PROVE  \E n \in S : \A m \in S : n <= m
<1>1. PICK R : R = OpToRel(<, Nat)
  OBVIOUS
<1>2. PICK n \in S : \A m \in S : ~ (<<m, n>> \in R)
  BY <1>1, NatLessThanWellFounded, WFMin
<1>3. \A m \in S : ~(m < n)
  BY <1>1, <1>2 DEF OpToRel
<1>4. \A m \in S : m \in Nat /\ n \in Nat
  OBVIOUS
<1>. QED
  BY <1>3, <1>4

\* What erase leaves of a sequence: the others, in their order.
LEMMA RemovedAt ==
  ASSUME NEW S, NEW s \in Seq(S), NEW n \in 1 .. Len(s)
  PROVE  /\ RemoveAt(s, n) \in Seq(S) /\ Len(RemoveAt(s, n)) = Len(s) - 1
         /\ \A i \in 1 .. Len(s) - 1 : RemoveAt(s, n)[i] = IF i < n THEN s[i] ELSE s[i + 1]
<1> DEFINE a == SubSeq(s, 1, n - 1)
           b == SubSeq(s, n + 1, Len(s))
<1>0. PICK l \in Nat : l = Len(s) /\ n \in 1 .. l
  OBVIOUS
<1>1. PICK m \in Nat, k \in Nat : m = n - 1 /\ k = n + 1 /\ l = Len(s) /\ k <= l + 1
  BY <1>0
<1>2. /\ \A i \in 1 .. m : s[i] \in S
      /\ \A i \in k .. l : s[i] \in S
      /\ 1 \in Int /\ m \in Int /\ k \in Int /\ l \in Int
  BY <1>1
<1>3. /\ SubSeq(s, 1, m) \in Seq(S)
      /\ Len(SubSeq(s, 1, m)) = IF 1 <= m THEN m - 1 + 1 ELSE 0
      /\ \A i \in 1 .. m - 1 + 1 : SubSeq(s, 1, m)[i] = s[1 + i - 1]
  BY ONLY <1>2, SubSeqProperties
<1>4. /\ SubSeq(s, k, l) \in Seq(S)
      /\ Len(SubSeq(s, k, l)) = IF k <= l THEN l - k + 1 ELSE 0
      /\ \A i \in 1 .. l - k + 1 : SubSeq(s, k, l)[i] = s[k + i - 1]
  BY ONLY <1>2, SubSeqProperties
<1>5. a \in Seq(S) /\ Len(a) = m /\ \A i \in 1 .. m : a[i] = s[i]
  BY <1>1, <1>3
<1>6. b \in Seq(S) /\ Len(b) = l - m - 1 /\ \A i \in 1 .. l - m - 1 : b[i] = s[m + 1 + i]
  BY <1>1, <1>4
<1>. HIDE DEF a, b
<1>7. /\ a \o b \in Seq(S) /\ Len(a \o b) = Len(a) + Len(b)
      /\ \A i \in 1 .. Len(a) + Len(b) : (a \o b)[i] = IF i <= Len(a) THEN a[i] ELSE b[i - Len(a)]
  BY <1>5, <1>6, ConcatProperties
<1>8. Len(a) + Len(b) = l - 1 /\ Len(a) = m
  BY <1>1, <1>5, <1>6
<1>9. ASSUME NEW i \in 1 .. l - 1
      PROVE  (a \o b)[i] = IF i < n THEN s[i] ELSE s[i + 1]
  <2>1. CASE i < n
    <3>1. i \in 1 .. m /\ i <= m
      BY <1>1, <2>1
    <3>. QED
      BY <1>5, <1>7, <1>8, <1>9, <2>1, <3>1
  <2>2. CASE ~(i < n)
    <3>1. i - m \in 1 .. l - m - 1 /\ m + 1 + (i - m) = i + 1 /\ ~(i <= m)
      BY <1>1, <2>2
    <3>. QED
      BY <1>6, <1>7, <1>8, <1>9, <2>2, <3>1
  <2>. QED
    BY <2>1, <2>2
<1>. QED
  BY <1>1, <1>7, <1>8, <1>9 DEF RemoveAt, a, b

\* DisableSystem takes one occurrence away, if there is one.
LEMMA WithoutSystemIs ==
  ASSUME NEW S, NEW s \in Seq(S), NEW e
  PROVE  \/ WithoutSystem(s, e) = s /\ \A i \in 1 .. Len(s) : s[i] # e
         \/ \E n \in 1 .. Len(s) : s[n] = e /\ WithoutSystem(s, e) = RemoveAt(s, n)
<1>1. CASE \E i \in 1 .. Len(s) : s[i] = e
  <2> DEFINE I == {i \in 1 .. Len(s) : s[i] = e}
  <2>1. I \in SUBSET Nat /\ I # {}
    BY <1>1
  <2>2. \E n \in I : \A m \in I : n <= m
    BY <2>1, Minimum
  <2>3. SelectInSeq(s, LAMBDA v : v = e) = Min(I)
    BY <2>1 DEF SelectInSeq
  <2>4. Min(I) \in I
    BY <2>2 DEF Min
  <2>. QED
    BY <1>1, <2>3, <2>4 DEF WithoutSystem, RemoveFirst
<1>2. CASE ~\E i \in 1 .. Len(s) : s[i] = e
  BY <1>2 DEF WithoutSystem, RemoveFirst
<1>. QED
  BY <1>1, <1>2

\* A system pushed at the end of a sorted list has its place in it.
LEMMA Insertion ==
  ASSUME NEW S, NEW r \in Seq(S), NEW s \in S,
         \A x \in S : Address(x) \in Nat,
         \A i, j \in 1 .. Len(r) : i < j => Address(r[i]) < Address(r[j])
  PROVE  LET list == Append(r, s)
         IN  \E order \in Bijection(DOMAIN list, DOMAIN list) :
               \A i, j \in DOMAIN list :
                 i < j => Address(list[order[i]]) <= Address(list[order[j]])
<1> DEFINE list == Append(r, s)
<1>1. PICK n \in Nat : n = Len(r)
  OBVIOUS
<1>2. /\ list \in Seq(S) /\ Len(list) = n + 1 /\ DOMAIN list = 1 .. n + 1
      /\ list[n + 1] = s /\ \A i \in 1 .. n : list[i] = r[i]
  BY <1>1
<1>3. /\ \A i \in 1 .. n : r[i] \in S /\ Address(r[i]) \in Nat
      /\ Address(s) \in Nat
  BY <1>1
<1> DEFINE K == {i \in 1 .. n + 1 : i = n + 1 \/ Address(s) <= Address(r[i])}
<1>4. K \in SUBSET Nat /\ K # {}
  <2>1. n + 1 \in 1 .. n + 1
    OBVIOUS
  <2>2. n + 1 \in K
    BY <2>1
  <2>3. 1 .. n + 1 \subseteq Nat
    OBVIOUS
  <2>4. K \subseteq 1 .. n + 1
    OBVIOUS
  <2>. HIDE DEF K
  <2>. QED
    BY <2>2, <2>3, <2>4
<1>5. PICK k \in K : \A i \in K : k <= i
  BY <1>4, Minimum
<1>6. k \in 1 .. n + 1
  OBVIOUS
<1>7. \A i \in 1 .. n : i < k => Address(r[i]) <= Address(s)
  BY <1>3, <1>5
<1>8. \A i \in 1 .. n : k <= i => Address(s) <= Address(r[i])
  <2>1. SUFFICES ASSUME NEW i \in 1 .. n, k <= i PROVE Address(s) <= Address(r[i])
    OBVIOUS
  <2>2. k # n + 1 /\ k \in 1 .. n
    BY <1>6, <2>1
  <2>3. Address(s) <= Address(r[k])
    BY <1>5, <2>2
  <2>4. Address(r[k]) <= Address(r[i])
    <3>1. CASE k = i
      BY <1>3, <3>1
    <3>2. CASE k < i
      BY <1>1, <1>3, <2>2, <3>2
    <3>. QED
      BY <1>6, <2>1, <3>1, <3>2
  <2>. QED
    BY <1>3, <2>1, <2>2, <2>3, <2>4
<1>. HIDE DEF list, K
<1> DEFINE order == [i \in 1 .. n + 1 |-> IF i < k THEN i ELSE IF i = k THEN n + 1 ELSE i - 1]
<1>9. \A i \in 1 .. n + 1 :
        /\ order[i] \in 1 .. n + 1
        /\ i < k => order[i] = i /\ i \in 1 .. n
        /\ i = k => order[i] = n + 1
        /\ i > k => order[i] = i - 1 /\ i - 1 \in 1 .. n /\ i - 1 >= k
  BY <1>6
<1>10. order \in Bijection(1 .. n + 1, 1 .. n + 1)
  <2>1. order \in [1 .. n + 1 -> 1 .. n + 1]
    BY <1>9
  <2>2. ASSUME NEW i \in 1 .. n + 1, NEW j \in 1 .. n + 1, order[i] = order[j]
        PROVE  i = j
    BY <1>6, <1>9, <2>2
  <2>3. ASSUME NEW j \in 1 .. n + 1
        PROVE  \E i \in 1 .. n + 1 : order[i] = j
    <3>1. CASE j < k
      BY <1>9, <3>1
    <3>2. CASE j = n + 1
      BY <1>6, <1>9, <3>2
    <3>3. CASE k <= j /\ j # n + 1
      <4>1. j + 1 \in 1 .. n + 1 /\ j + 1 > k /\ j + 1 - 1 = j
        BY <1>6, <3>3
      <4>. QED
        BY <1>9, <4>1
    <3>. QED
      BY <1>6, <3>1, <3>2, <3>3
  <2>4. DOMAIN order = 1 .. n + 1
    OBVIOUS
  <2>. HIDE DEF order
  <2>. QED
    BY <2>1, <2>2, <2>3, <2>4 DEF Bijection, Injection, Surjection, IsInjective
<1>11. ASSUME NEW i \in 1 .. n + 1, NEW j \in 1 .. n + 1, i < j
       PROVE  Address(list[order[i]]) <= Address(list[order[j]])
  <2>. HIDE DEF order
  <2>1. CASE j < k
    <3>1. i < k /\ i \in 1 .. n /\ j \in 1 .. n /\ order[i] = i /\ order[j] = j
      BY <1>6, <1>9, <1>11, <2>1
    <3>. QED
      BY <1>1, <1>2, <1>3, <1>11, <3>1
  <2>2. CASE i < k /\ j = k
    BY <1>2, <1>7, <1>9, <2>2
  <2>3. CASE i < k /\ j > k
    <3>1. i \in 1 .. n /\ j - 1 \in 1 .. n /\ i < j - 1 /\ order[i] = i /\ order[j] = j - 1
      BY <1>6, <1>9, <2>3
    <3>2. Address(r[i]) < Address(r[j - 1])
      BY <1>1, <3>1
    <3>. QED
      BY <1>2, <1>3, <3>1, <3>2
  <2>4. CASE i = k /\ j > k
    <3>1. order[i] = n + 1 /\ order[j] = j - 1 /\ j - 1 \in 1 .. n /\ j - 1 >= k
      BY <1>9, <2>4
    <3>2. Address(s) <= Address(r[j - 1])
      BY <1>6, <1>8, <3>1
    <3>. QED
      BY <1>2, <3>1, <3>2
  <2>5. CASE i > k
    <3>1. /\ j > k /\ i - 1 \in 1 .. n /\ j - 1 \in 1 .. n /\ i - 1 < j - 1
          /\ order[i] = i - 1 /\ order[j] = j - 1
      BY <1>6, <1>9, <1>11, <2>5
    <3>2. Address(r[i - 1]) < Address(r[j - 1])
      BY <1>1, <3>1
    <3>. QED
      BY <1>2, <1>3, <3>1, <3>2
  <2>. QED
    BY <1>6, <1>11, <2>1, <2>2, <2>3, <2>4, <2>5
<1>. QED
  BY <1>2, <1>10, <1>11 DEF list

\* So EnableSystem leaves a sorted list, of the same systems and the new one.
LEMMA SortedIs ==
  ASSUME NEW S, NEW r \in Seq(S), NEW s \in S,
         \A x \in S : Address(x) \in Nat,
         \A i, j \in 1 .. Len(r) : i < j => Address(r[i]) < Address(r[j]),
         \A i \in 1 .. Len(r) : Address(r[i]) # Address(s)
  PROVE  LET q == Sorted(Append(r, s))
         IN  /\ q \in Seq(S)
             /\ \A i, j \in 1 .. Len(q) : i < j => Address(q[i]) < Address(q[j])
             /\ \A i \in 1 .. Len(r) : \E j \in 1 .. Len(q) : q[j] = r[i]
             /\ \E j \in 1 .. Len(q) : q[j] = s
<1> DEFINE list == Append(r, s)
           order == SortingOrder(list)
           q == Sorted(list)
<1>1. PICK n \in Nat, m \in Nat : n = Len(r) /\ m = n + 1
  OBVIOUS
<1>2. /\ list \in Seq(S) /\ Len(list) = m /\ DOMAIN list = 1 .. m
      /\ list[m] = s /\ \A i \in 1 .. n : list[i] = r[i]
  BY <1>1
<1>3. /\ order \in Bijection(DOMAIN list, DOMAIN list)
      /\ \A i, j \in DOMAIN list : i < j => Address(list[order[i]]) <= Address(list[order[j]])
  BY Insertion DEF SortingOrder
<1>4. q = [i \in 1 .. m |-> list[order[i]]]
  BY <1>2 DEF Sorted
<1>. HIDE DEF list, order, q
<1>5. /\ order \in [1 .. m -> 1 .. m]
      /\ \A i, j \in 1 .. m : order[i] = order[j] => i = j
      /\ \A j \in 1 .. m : \E i \in 1 .. m : order[i] = j
  BY <1>2, <1>3 DEF Bijection, Injection, Surjection, IsInjective
<1>6. \A i \in 1 .. m : list[i] \in S /\ Address(list[i]) \in Nat
  BY <1>2
<1>7. \A i, j \in 1 .. m : i # j => Address(list[i]) # Address(list[j])
  <2>1. \A i, j \in 1 .. n : i < j => Address(list[i]) < Address(list[j])
    BY <1>1, <1>2
  <2>2. \A i, j \in 1 .. n : i # j => Address(list[i]) # Address(list[j])
    <3>1. SUFFICES ASSUME NEW i \in 1 .. n, NEW j \in 1 .. n, i # j
                   PROVE  Address(list[i]) # Address(list[j])
      OBVIOUS
    <3>2. i < j \/ j < i
      BY <3>1
    <3>3. Address(list[i]) \in Nat /\ Address(list[j]) \in Nat
      <4>1. i \in 1 .. m /\ j \in 1 .. m
        BY <1>1
      <4>. QED
        BY <1>6, <4>1
    <3>. QED
      BY <2>1, <3>2, <3>3
  <2>3. \A i \in 1 .. n : Address(list[i]) # Address(list[m])
    BY <1>1, <1>2
  <2>4. \A i \in 1 .. m : i \in 1 .. n \/ i = m
    BY <1>1
  <2>. QED
    BY <1>1, <2>2, <2>3, <2>4
<1>8. q \in Seq(S) /\ Len(q) = m /\ \A i \in 1 .. m : q[i] = list[order[i]]
  <2>1. \A i \in 1 .. m : list[order[i]] \in S
    BY <1>5, <1>6
  <2>. QED
    BY <1>4, <2>1
<1>9. ASSUME NEW i \in 1 .. m, NEW j \in 1 .. m, i < j
      PROVE  Address(q[i]) < Address(q[j])
  <2>1. Address(list[order[i]]) <= Address(list[order[j]])
    BY <1>2, <1>3, <1>9
  <2>2. order[i] # order[j] /\ order[i] \in 1 .. m /\ order[j] \in 1 .. m
    BY <1>5, <1>9
  <2>3. Address(list[order[i]]) # Address(list[order[j]])
    BY <1>7, <2>2
  <2>4. Address(list[order[i]]) \in Nat /\ Address(list[order[j]]) \in Nat
    BY <1>6, <2>2
  <2>. QED
    BY <1>8, <2>1, <2>3, <2>4
<1>10. ASSUME NEW j \in 1 .. m
       PROVE  \E i \in 1 .. m : q[i] = list[j]
  <2>1. PICK i \in 1 .. m : order[i] = j
    BY <1>5
  <2>2. q[i] = list[order[i]]
    BY <1>8
  <2>. QED
    BY <2>1, <2>2
<1>11. /\ \A i \in 1 .. n : \E j \in 1 .. m : q[j] = r[i]
       /\ \E j \in 1 .. m : q[j] = s
  <2>1. m \in 1 .. m /\ \A i \in 1 .. n : i \in 1 .. m
    BY <1>1
  <2>. QED
    BY <1>2, <1>10, <2>1
<1>. QED
  BY <1>1, <1>8, <1>9, <1>11 DEF list, q
-----------------------------------------------------------------------------
(* The systems of each program, and where a thread is among them.          *)

ListInv ==
  /\ DOMAIN loopSystems = Programs
  /\ \A p \in Programs :
       /\ address[p] \in Orderings(p)
       /\ loopSystems[p] \in Seq(SystemsOf(p))
       /\ \A i, j \in 1 .. Len(loopSystems[p]) :
            i < j => Address(loopSystems[p][i]) < Address(loopSystems[p][j])
       /\ \A s \in SystemsOf(p) \ Switched :
            \E i \in 1 .. Len(loopSystems[p]) : loopSystems[p][i] = s

PlaceOK(p) ==
  /\ current[p] # 0
  /\ at[p] = "pick" => current[p] <= Len(loopSystems[p]) + 1
  /\ at[p] \notin {"out", "pick"} => current[p] <= Len(loopSystems[p])
  /\ at[p] \in {"lock", "asleep", "unlock", "notify"} => held[p] < Len(Tickets(p))
  /\ at[p] = "component" /\ Len(ComponentList(p)) = 1 => held[p] = 0
  /\ at[p] = "transform" => held[p] = 0

PlaceInv == \A p \in Programs : PlaceOK(p)

LEMMA AddressIs ==
  ASSUME ListInv, NEW s \in Systems
  PROVE  /\ ProgramOf[s] \in Programs /\ Address(s) \in Nat
         /\ address[ProgramOf[s]][Address(s)] = s
<1> DEFINE p == ProgramOf[s]
           n == Cardinality(SystemsOf(p))
<1>1. p \in Programs /\ s \in SystemsOf(p)
  BY FrameRunAssumption DEF Programs, SystemsOf
<1>2. address[p] \in Bijection(1 .. n, SystemsOf(p))
  BY <1>1 DEF ListInv, Orderings
<1>. HIDE DEF n
<1>3. DOMAIN address[p] = 1 .. n /\ \E i \in 1 .. n : address[p][i] = s
  BY <1>1, <1>2 DEF Bijection, Injection, Surjection
<1>4. Address(s) \in 1 .. n /\ address[p][Address(s)] = s
  BY <1>3 DEF Address
<1>5. 1 .. n \subseteq Nat
  <2>1. IsFiniteSet(SystemsOf(p))
    BY FrameRunAssumption, FS_Subset DEF SystemsOf
  <2>2. n \in Nat
    BY <2>1, FS_CardinalityType DEF n
  <2>. QED
    BY <2>2
<1>. QED
  BY <1>1, <1>4, <1>5

LEMMA ListKept ==
  ASSUME ListInv, UNCHANGED listVars
  PROVE  ListInv'
<1>1. /\ address' = address /\ loopSystems' = loopSystems
      /\ \A s : Address(s)' = Address(s)
  BY DEF listVars, Address
<1>. QED
  BY <1>1 DEF ListInv

\* A list of the program's systems, by address.
GoodList(p, q) ==
  /\ q \in Seq(SystemsOf(p))
  /\ \A i, j \in 1 .. Len(q) : i < j => Address(q[i]) < Address(q[j])

\* What DisableSystem leaves is sorted, and lacks the system alone.
LEMMA DisabledIs ==
  ASSUME ListInv, NEW p \in Programs, NEW s \in SystemsOf(p)
  PROVE  LET q == WithoutSystem(loopSystems[p], s)
         IN  /\ GoodList(p, q)
             /\ \A i \in 1 .. Len(q) : q[i] # s
             /\ \A i \in 1 .. Len(loopSystems[p]) :
                  loopSystems[p][i] # s => \E j \in 1 .. Len(q) : q[j] = loopSystems[p][i]
<1> DEFINE list == loopSystems[p]
           q == WithoutSystem(list, s)
<1>1. /\ list \in Seq(SystemsOf(p))
      /\ \A i, j \in 1 .. Len(list) : i < j => Address(list[i]) < Address(list[j])
  BY DEF ListInv
<1>2. \A r \in SystemsOf(p) : Address(r) \in Nat
  BY AddressIs DEF SystemsOf
<1>. HIDE DEF list, q
<1>3. CASE q = list /\ \A i \in 1 .. Len(list) : list[i] # s
  BY <1>1, <1>3 DEF GoodList, list, q
<1>4. CASE \E n \in 1 .. Len(list) : list[n] = s /\ q = RemoveAt(list, n)
  <2>1. PICK n \in 1 .. Len(list) : list[n] = s /\ q = RemoveAt(list, n)
    BY <1>4
  <2>2. PICK l \in Nat, m \in Nat : l = Len(list) /\ m = l - 1 /\ n \in 1 .. l
    BY <1>1
  <2>3. /\ q \in Seq(SystemsOf(p)) /\ Len(q) = m
        /\ \A i \in 1 .. m : q[i] = IF i < n THEN list[i] ELSE list[i + 1]
    <3>1. /\ q \in Seq(SystemsOf(p)) /\ Len(q) = Len(list) - 1
          /\ \A i \in 1 .. Len(list) - 1 : q[i] = IF i < n THEN list[i] ELSE list[i + 1]
      BY <1>1, <2>1, RemovedAt
    <3>. QED
      BY <2>2, <3>1
  <2>4. \A i \in 1 .. l : list[i] \in SystemsOf(p) /\ Address(list[i]) \in Nat
    BY <1>1, <1>2, <2>2
  <2>5. ASSUME NEW i \in 1 .. m, NEW j \in 1 .. m, i < j
        PROVE  Address(q[i]) < Address(q[j])
    <3>1. /\ i \in 1 .. l /\ j \in 1 .. l /\ i + 1 \in 1 .. l /\ j + 1 \in 1 .. l
          /\ i < j + 1 /\ i + 1 < j + 1
      BY <2>2, <2>5
    <3>2. q[i] = (IF i < n THEN list[i] ELSE list[i + 1])
          /\ q[j] = (IF j < n THEN list[j] ELSE list[j + 1])
      BY <2>3
    <3>3. /\ Address(list[i]) < Address(list[j])
          /\ Address(list[i]) < Address(list[j + 1])
          /\ Address(list[i + 1]) < Address(list[j + 1])
      BY <1>1, <2>2, <2>5, <3>1
    <3>4. j < n => i < n
      BY <2>2, <2>5
    <3>. QED
      BY <3>2, <3>3, <3>4
  <2>6. ASSUME NEW i \in 1 .. m
        PROVE  q[i] # s
    <3>1. i \in 1 .. l /\ i + 1 \in 1 .. l /\ (i < n \/ n < i + 1)
      BY <2>2
    <3>2. CASE i < n
      <4>1. Address(list[i]) < Address(list[n])
        BY <1>1, <2>2, <3>1, <3>2
      <4>. QED
        BY <2>1, <2>2, <2>3, <2>4, <3>1, <3>2, <4>1
    <3>3. CASE ~(i < n)
      <4>1. Address(list[n]) < Address(list[i + 1])
        BY <1>1, <2>2, <3>1, <3>3
      <4>. QED
        BY <2>1, <2>2, <2>3, <2>4, <3>1, <3>3, <4>1
    <3>. QED
      BY <3>2, <3>3
  <2>7. ASSUME NEW i \in 1 .. l, list[i] # s
        PROVE  \E j \in 1 .. m : q[j] = list[i]
    <3>1. i # n
      BY <2>1, <2>7
    <3>2. CASE i < n
      <4>1. i \in 1 .. m
        BY <2>2, <3>2
      <4>. QED
        BY <2>3, <3>2, <4>1
    <3>3. CASE i > n
      <4>1. i - 1 \in 1 .. m /\ ~(i - 1 < n) /\ i - 1 + 1 = i
        BY <2>2, <3>3
      <4>. QED
        BY <2>3, <4>1
    <3>. QED
      BY <2>2, <3>1, <3>2, <3>3
  <2>8. GoodList(p, q)
    BY <2>3, <2>5 DEF GoodList
  <2>. QED
    BY <2>2, <2>3, <2>6, <2>7, <2>8 DEF list, q
<1>. QED
  BY <1>1, <1>3, <1>4, WithoutSystemIs DEF q

\* What EnableSystem leaves has every system that was there, and the one enabled.
LEMMA EnabledIs ==
  ASSUME ListInv, NEW p \in Programs, NEW s \in SystemsOf(p)
  PROVE  LET q == Sorted(Append(WithoutSystem(loopSystems[p], s), s))
         IN  /\ GoodList(p, q)
             /\ \A i \in 1 .. Len(loopSystems[p]) : \E j \in 1 .. Len(q) : q[j] = loopSystems[p][i]
<1> DEFINE list == loopSystems[p]
           r == WithoutSystem(list, s)
           q == Sorted(Append(r, s))
<1>1. /\ GoodList(p, r)
      /\ \A i \in 1 .. Len(r) : r[i] # s
      /\ \A i \in 1 .. Len(list) : list[i] # s => \E j \in 1 .. Len(r) : r[j] = list[i]
  BY DisabledIs
<1>2. \A x \in SystemsOf(p) : Address(x) \in Nat /\ address[p][Address(x)] = x
  BY AddressIs DEF SystemsOf
<1>. HIDE DEF list, r
<1>3. \A i \in 1 .. Len(r) : Address(r[i]) # Address(s)
  <2>1. \A i \in 1 .. Len(r) : r[i] \in SystemsOf(p)
    BY <1>1 DEF GoodList
  <2>. QED
    BY <1>1, <1>2, <2>1
<1>4. /\ q \in Seq(SystemsOf(p))
      /\ \A i, j \in 1 .. Len(q) : i < j => Address(q[i]) < Address(q[j])
      /\ \A i \in 1 .. Len(r) : \E j \in 1 .. Len(q) : q[j] = r[i]
      /\ \E j \in 1 .. Len(q) : q[j] = s
  BY <1>1, <1>2, <1>3, SortedIs DEF GoodList
<1>. HIDE DEF q
<1>5. ASSUME NEW i \in 1 .. Len(list)
      PROVE  \E j \in 1 .. Len(q) : q[j] = list[i]
  <2>1. CASE list[i] = s
    BY <1>4, <2>1
  <2>2. CASE list[i] # s
    <3>1. PICK j \in 1 .. Len(r) : r[j] = list[i]
      BY <1>1, <2>2
    <3>. QED
      BY <1>4, <3>1
  <2>. QED
    BY <2>1, <2>2
<1>6. GoodList(p, q)
  BY <1>4 DEF GoodList
<1>. QED
  BY <1>5, <1>6 DEF list, r, q

LEMMA InitListInv == InitFrame => ListInv
<1>1. SUFFICES ASSUME InitFrame PROVE ListInv
  OBVIOUS
<1>2. /\ \A p \in Programs : address[p] \in Orderings(p)
      /\ DOMAIN address = Programs /\ loopSystems = address
  BY <1>1 DEF InitFrame, InitSystems
<1>3. SUFFICES ASSUME NEW p \in Programs
               PROVE  /\ address[p] \in Seq(SystemsOf(p))
                      /\ \A i, j \in 1 .. Len(address[p]) :
                           i < j => Address(address[p][i]) < Address(address[p][j])
                      /\ \A s \in SystemsOf(p) \ Switched :
                           \E i \in 1 .. Len(address[p]) : address[p][i] = s
  BY <1>2 DEF ListInv
<1> DEFINE q == address[p]
<1>4. PICK n \in Nat : n = Cardinality(SystemsOf(p))
  <2>1. IsFiniteSet(SystemsOf(p))
    BY FrameRunAssumption, FS_Subset DEF SystemsOf
  <2>. QED
    BY <2>1, FS_CardinalityType
<1>5. q \in Bijection(1 .. n, SystemsOf(p))
  BY <1>2, <1>4 DEF Orderings
<1>. HIDE DEF q
<1>6. /\ q \in [1 .. n -> SystemsOf(p)] /\ DOMAIN q = 1 .. n
      /\ \A i, j \in 1 .. n : q[i] = q[j] => i = j
      /\ \A s \in SystemsOf(p) : \E i \in 1 .. n : q[i] = s
  BY <1>5 DEF Bijection, Injection, Surjection, IsInjective
<1>7. q \in Seq(SystemsOf(p)) /\ Len(q) = n
  BY <1>6
<1>8. ASSUME NEW i \in 1 .. n
      PROVE  Address(q[i]) = i
  <2>1. q[i] \in SystemsOf(p) /\ ProgramOf[q[i]] = p
    BY <1>6 DEF SystemsOf
  <2>2. Address(q[i]) = CHOOSE j \in DOMAIN q : q[j] = q[i]
    BY <2>1 DEF Address, q
  <2>3. \E j \in DOMAIN q : q[j] = q[i]
    BY <1>6
  <2>. QED
    BY <1>6, <2>2, <2>3
<1>9. \A i, j \in 1 .. n : i < j => Address(q[i]) < Address(q[j])
  BY <1>8
<1>. QED
  BY <1>6, <1>7, <1>9 DEF q

LEMMA SwitchKeepsList ==
  ASSUME ListInv, NEW s \in Systems, DisableSystem(s) \/ EnableSystem(s)
  PROVE  ListInv'
<1> DEFINE p == ProgramOf[s]
           list == loopSystems[p]
           q == loopSystems'[p]
<1>1. p \in Programs /\ s \in SystemsOf(p) /\ s \in Switched /\ address' = address
  BY FrameRunAssumption DEF Programs, SystemsOf, DisableSystem, EnableSystem
<1>2. /\ DOMAIN loopSystems' = Programs
      /\ \A r \in Programs \ {p} : loopSystems'[r] = loopSystems[r]
  BY DEF ListInv, DisableSystem, EnableSystem
<1>3. \/ q = WithoutSystem(list, s)
      \/ q = Sorted(Append(WithoutSystem(list, s), s))
  BY <1>1 DEF ListInv, DisableSystem, EnableSystem
<1>4. /\ GoodList(p, q)
      /\ \A i \in 1 .. Len(list) : list[i] # s => \E j \in 1 .. Len(q) : q[j] = list[i]
  BY SMTT(60), <1>1, <1>3, DisabledIs, EnabledIs
<1>6. ASSUME NEW t \in SystemsOf(p) \ Switched
      PROVE  \E j \in 1 .. Len(q) : q[j] = t
  <2>1. PICK i \in 1 .. Len(list) : list[i] = t
    BY <1>1, <1>6 DEF ListInv
  <2>2. t # s
    BY <1>1, <1>6
  <2>. QED
    BY <1>4, <2>1, <2>2
<1>. HIDE DEF q, list
<1>7. ASSUME NEW r \in Programs
      PROVE  /\ address'[r] \in Orderings(r)
             /\ loopSystems'[r] \in Seq(SystemsOf(r))
             /\ \A i, j \in 1 .. Len(loopSystems'[r]) :
                  i < j => Address(loopSystems'[r][i]) < Address(loopSystems'[r][j])
             /\ \A t \in SystemsOf(r) \ Switched :
                  \E i \in 1 .. Len(loopSystems'[r]) : loopSystems'[r][i] = t
  <2>1. CASE r = p
    BY <1>1, <1>4, <1>6, <2>1 DEF ListInv, GoodList, q
  <2>2. CASE r # p
    BY <1>1, <1>2, <2>2 DEF ListInv
  <2>. QED
    BY <2>1, <2>2
<1>8. ASSUME NEW r \in Programs, NEW i \in 1 .. Len(loopSystems'[r]),
             NEW j \in 1 .. Len(loopSystems'[r]), i < j
      PROVE  Address(loopSystems[r][i])' < Address(loopSystems[r][j])'
  <2>1. PICK x, y : x = loopSystems'[r][i] /\ y = loopSystems'[r][j]
    OBVIOUS
  <2>2. Address(x) < Address(y)
    BY <1>7, <1>8, <2>1
  <2>3. Address(loopSystems[r][i])' = Address(x) /\ Address(loopSystems[r][j])' = Address(y)
    BY <1>1, <2>1 DEF Address
  <2>. QED
    BY <2>2, <2>3
<1>. QED
  BY <1>2, <1>7, <1>8 DEF ListInv

LEMMA NextListInv ==
  ASSUME ListInv, [NextFrame]_vars
  PROVE  ListInv'
<1>1. CASE \E s \in Systems : DisableSystem(s) \/ EnableSystem(s)
  BY <1>1, SwitchKeepsList
<1>2. CASE UNCHANGED listVars
  BY <1>2, ListKept
<1>3. ASSUME NEW p, SystemStep(p) \/ SpuriousTicket(p)
      PROVE  UNCHANGED listVars
  BY <1>3 DEF SystemStep, SkipSystem, RunSystem, LockTicket, SleepOnTicket, LockComponent,
              TouchComponent, Transform, UnlockTicket, NotifyTicket, SpuriousTicket
<1>4. ASSUME UNCHANGED vars \/ MainThread \/ (\E t \in Tasks : TaskThread(t))
             \/ (\E s \in States : BeginFrame(s) /\ UNCHANGED sysVars)
             \/ (Spurious /\ UNCHANGED sysVars)
      PROVE  UNCHANGED listVars
  BY <1>4 DEF vars, sysVars, MainThread, TaskThread, EnterProgram, LeaveProgram
<1>. QED
  BY <1>1, <1>2, <1>3, <1>4 DEF NextFrame, SpuriousStep
-----------------------------------------------------------------------------
(* Where a thread is in its systems and their tickets.                     *)

LEMMA PlaceKept ==
  ASSUME NEW q \in Programs, PlaceOK(q), UNCHANGED listVars,
         current'[q] = current[q], held'[q] = held[q],
         at'[q] = at[q] \/ (at[q] = "asleep" /\ at'[q] = "lock")
  PROVE  PlaceOK(q)'
BY DEF PlaceOK, listVars, Tickets, ComponentList, System

\* What a program is at.
LEMMA AtSystem ==
  ASSUME ListInv, PlacesTypeOK, PlaceInv, NEW p \in Programs,
         current[p] <= Len(loopSystems[p])
  PROVE  /\ current[p] \in 1 .. Len(loopSystems[p])
         /\ System(p) \in Systems /\ ProgramOf[System(p)] = p
         /\ Tickets(p) = TicketsOf[System(p)]
         /\ Tickets(p) \in Seq([barrier : Barriers, order : Nat]) /\ Len(Tickets(p)) \in Nat
<1>1. current[p] \in 1 .. Len(loopSystems[p])
  BY DEF PlacesTypeOK, PlaceInv, PlaceOK, ListInv
<1>2. System(p) \in SystemsOf(p)
  BY <1>1 DEF ListInv, System
<1>3. System(p) \in Systems /\ ProgramOf[System(p)] = p
  BY <1>2 DEF SystemsOf
<1>4. Tickets(p) \in Seq([barrier : Barriers, order : Nat])
  <2>1. \A s \in Systems : TicketsOf[s] \in Seq([barrier : Barriers, order : Nat])
    BY TicketsAssumption
  <2>. QED
    BY <1>3, <2>1 DEF Tickets
<1>5. Len(Tickets(p)) \in Nat
  BY <1>4, LenProperties
<1>. QED
  BY <1>1, <1>3, <1>4, <1>5 DEF Tickets

LEMMA InitPlaceInv == InitFrame => PlaceInv
BY DEF InitFrame, InitSystems, PlaceInv, PlaceOK, Places

LEMMA StepKeepsPlace ==
  ASSUME ListInv, PlacesTypeOK, PlaceInv, NEW p \in Programs, SystemStep(p) \/ SpuriousTicket(p)
  PROVE  PlaceInv'
<1>1. UNCHANGED listVars
  BY DEF SystemStep, SkipSystem, RunSystem, LockTicket, SleepOnTicket, LockComponent,
         TouchComponent, Transform, UnlockTicket, NotifyTicket, SpuriousTicket
<1>2. /\ current[p] \in Nat /\ held[p] \in Nat /\ at[p] \in Places
      /\ Len(loopSystems[p]) \in Nat /\ PlaceOK(p)
  BY DEF PlacesTypeOK, ListInv, PlaceInv
<1>3. /\ at[p] \notin {"out", "pick"} => current[p] <= Len(loopSystems[p])
      /\ at[p] \in {"lock", "asleep", "unlock", "notify"} => held[p] < Len(Tickets(p))
      /\ at[p] = "transform" => held[p] = 0
      /\ at[p] = "component" /\ Len(ComponentList(p)) = 1 => held[p] = 0
      /\ current[p] # 0
  BY <1>2 DEF PlaceOK
<1>4. ASSUME current[p] <= Len(loopSystems[p])
      PROVE  Len(Tickets(p)) \in Nat /\ (Tickets(p) # <<>> => 0 < Len(Tickets(p)))
  BY <1>4, AtSystem
<1>5. ASSUME \A q \in Programs \ {p} :
               /\ at'[q] = at[q] \/ (at[q] = "asleep" /\ at'[q] = "lock")
               /\ current'[q] = current[q] /\ held'[q] = held[q],
             PlaceOK(p)'
      PROVE  PlaceInv'
  BY <1>1, <1>5, PlaceKept DEF PlaceInv
<1>6. ASSUME NEW place \in Places, NEW n \in Nat, NEW i \in Nat,
             at' = [at EXCEPT ![p] = place], held' = [held EXCEPT ![p] = n],
             current' = [current EXCEPT ![p] = i], i # 0,
             place \in {"pick"} => i <= Len(loopSystems[p]) + 1,
             place # "pick" => i = current[p] /\ i <= Len(loopSystems[p]),
             place \in {"lock", "asleep", "unlock", "notify"} => n < Len(Tickets(p)),
             place = "component" /\ Len(ComponentList(p)) = 1 => n = 0,
             place = "transform" => n = 0
      PROVE  PlaceInv'
  <2>1. /\ at'[p] = place /\ held'[p] = n /\ current'[p] = i
        /\ \A q \in Programs \ {p} :
             at'[q] = at[q] /\ current'[q] = current[q] /\ held'[q] = held[q]
    BY <1>6 DEF PlacesTypeOK
  <2>2. current'[p] = current[p] =>
          Tickets(p)' = Tickets(p) /\ ComponentList(p)' = ComponentList(p)
    BY <1>1 DEF listVars, Tickets, ComponentList, System
  <2>3. loopSystems' = loopSystems
    BY <1>1 DEF listVars
  <2>4. PlaceOK(p)'
    BY <1>6, <2>1, <2>2, <2>3 DEF PlaceOK
  <2>. QED
    BY <1>5, <2>1, <2>4
<1>7. current' = current => current' = [current EXCEPT ![p] = current[p]]
  BY DEF PlacesTypeOK
<1>8. held' = held => held' = [held EXCEPT ![p] = held[p]]
  BY DEF PlacesTypeOK
<1>9. /\ held[p] + 1 \in Nat /\ current[p] + 1 \in Nat /\ current[p] + 1 # 0
      /\ current[p] <= Len(loopSystems[p]) => current[p] + 1 <= Len(loopSystems[p]) + 1
  BY <1>2
<1>10. AfterTickets(p) \in {"component", "transform"}
  BY DEF AfterTickets
<1>11. CASE SkipSystem(p)
  <2>1. /\ at' = [at EXCEPT ![p] = "pick"] /\ held' = held
        /\ current' = [current EXCEPT ![p] = current[p] + 1]
        /\ current[p] <= Len(loopSystems[p])
    BY <1>11 DEF SkipSystem, PlacesTypeOK, barrierVars
  <2>2. "pick" \in Places
    BY DEF Places
  <2>. QED
    BY <1>2, <1>6, <1>8, <1>9, <2>1, <2>2
<1>12. CASE RunSystem(p)
  <2>1. /\ current' = [current EXCEPT ![p] = current[p]]
        /\ current[p] <= Len(loopSystems[p]) /\ held' = [held EXCEPT ![p] = 0]
    BY <1>7, <1>12 DEF RunSystem
  <2>2. PICK place \in {"lock", "component", "transform"} :
          /\ at' = [at EXCEPT ![p] = place]
          /\ place = "lock" => Tickets(p) # <<>>
    BY <1>10, <1>12 DEF RunSystem
  <2>3. place \in Places /\ place # "pick" /\ 0 \in Nat
    BY DEF Places
  <2>4. place \in {"lock", "asleep", "unlock", "notify"} => 0 < Len(Tickets(p))
    BY <1>4, <2>1, <2>2
  <2>. QED
    BY <1>2, <1>3, <1>6, <2>1, <2>2, <2>3, <2>4
<1>13. CASE LockTicket(p)
  <2>1. /\ current' = [current EXCEPT ![p] = current[p]] /\ at[p] = "lock"
        /\ current[p] <= Len(loopSystems[p])
    BY <1>3, <1>7, <1>13 DEF LockTicket
  <2>2. CASE LastTicket(p)
    <3>1. PICK place \in {"component", "transform"} : at' = [at EXCEPT ![p] = place]
      BY <1>10, <1>13, <2>2 DEF LockTicket
    <3>2. held' = [held EXCEPT ![p] = 0] /\ place \in Places /\ place # "pick" /\ 0 \in Nat
      BY <1>13, <2>2 DEF LockTicket, Places
    <3>. QED
      BY <1>2, <1>3, <1>6, <2>1, <3>1, <3>2
  <2>3. CASE ~LastTicket(p)
    <3>1. held' = [held EXCEPT ![p] = held[p] + 1] /\ at' = [at EXCEPT ![p] = "lock"]
      BY <1>13, <2>3 DEF LockTicket
    <3>2. held[p] + 1 < Len(Tickets(p))
      BY <1>2, <1>3, <1>4, <2>1, <2>3 DEF LastTicket, Tickets
    <3>3. "lock" \in Places
      BY DEF Places
    <3>. QED
      BY <1>2, <1>3, <1>6, <1>9, <2>1, <3>1, <3>2, <3>3
  <2>. QED
    BY <2>2, <2>3
<1>14. CASE SleepOnTicket(p) \/ SpuriousTicket(p) \/ UnlockTicket(p)
  <2>1. PICK place \in {"asleep", "lock", "notify"} : at' = [at EXCEPT ![p] = place]
    BY <1>14 DEF SleepOnTicket, SpuriousTicket, UnlockTicket
  <2>2. at[p] \in {"lock", "asleep", "unlock"} /\ current' = current /\ held' = held
    BY <1>14 DEF SleepOnTicket, SpuriousTicket, UnlockTicket, barrierVars
  <2>3. place \in Places /\ place # "pick"
    BY DEF Places
  <2>. QED
    BY <1>2, <1>3, <1>6, <1>7, <1>8, <2>1, <2>2, <2>3
<1>15. CASE LockComponent(p)
  <2>1. /\ at' = [at EXCEPT ![p] = "transform"] /\ held' = held /\ current' = current
        /\ at[p] = "component" /\ Len(ComponentList(p)) = 1
    BY <1>15 DEF LockComponent, barrierVars
  <2>2. "transform" \in Places
    BY DEF Places
  <2>. QED
    BY <1>2, <1>3, <1>6, <1>7, <1>8, <2>1, <2>2
<1>16. CASE TouchComponent(p)
  <2>1. /\ current' = [current EXCEPT ![p] = current[p]] /\ at[p] = "component"
        /\ current[p] <= Len(loopSystems[p])
    BY <1>3, <1>7, <1>16 DEF TouchComponent
  <2>2. Len(ComponentList(p)) # 1
    <3>1. Len(ComponentList(p)) > 1
      BY <1>16 DEF TouchComponent
    <3>2. ASSUME Len(ComponentList(p)) = 1 PROVE FALSE
      <4>1. 1 > 1
        BY <3>1, <3>2
      <4>. QED
        BY <4>1
    <3>. QED
      BY <3>2
  <2> DEFINE last == held[p] + 1 = Len(ComponentList(p))
  <2>3. /\ at' = [at EXCEPT ![p] = IF last THEN "transform" ELSE "component"]
        /\ held' = [held EXCEPT ![p] = IF last THEN 0 ELSE held[p] + 1]
    BY <1>16 DEF TouchComponent
  <2>4. "transform" \in Places /\ "component" \in Places
    BY DEF Places
  <2>. HIDE DEF last
  <2>5. CASE last
    BY <1>2, <1>3, <1>6, <2>1, <2>3, <2>4, <2>5
  <2>6. CASE ~last
    BY <1>2, <1>3, <1>6, <1>9, <2>1, <2>2, <2>3, <2>4, <2>6
  <2>. QED
    BY <2>5, <2>6
<1>17. CASE Transform(p)
  <2>1. at[p] = "transform" /\ held' = held /\ current[p] <= Len(loopSystems[p]) /\ held[p] = 0
    BY <1>3, <1>17 DEF Transform, barrierVars
  <2>2. "pick" \in Places /\ "unlock" \in Places
    BY DEF Places
  <2>3. CASE Tickets(p) = <<>>
    <3>1. /\ at' = [at EXCEPT ![p] = "pick"]
          /\ current' = [current EXCEPT ![p] = current[p] + 1]
      BY <1>17, <2>3 DEF Transform
    <3>. QED
      BY <1>2, <1>6, <1>8, <1>9, <2>1, <2>2, <3>1
  <2>4. CASE Tickets(p) # <<>>
    <3>1. at' = [at EXCEPT ![p] = "unlock"] /\ current' = current
      BY <1>17, <2>4 DEF Transform
    <3>2. held[p] < Len(Tickets(p))
      BY <1>4, <2>1, <2>4
    <3>. QED
      BY <1>2, <1>3, <1>6, <1>7, <1>8, <2>1, <2>2, <3>1, <3>2
  <2>. QED
    BY <2>3, <2>4
<1>18. CASE NotifyTicket(p)
  <2>1. /\ at[p] = "notify" /\ current[p] <= Len(loopSystems[p]) /\ held[p] < Len(Tickets(p))
        /\ at'[p] = IF LastTicket(p) THEN "pick" ELSE "unlock"
        /\ \A q \in Programs \ {p} : at'[q] = at[q] \/ (at[q] = "asleep" /\ at'[q] = "lock")
    BY <1>3, <1>18 DEF NotifyTicket, Woken, AsleepOn
  <2>2. CASE LastTicket(p)
    <3>1. held' = held /\ current' = [current EXCEPT ![p] = current[p] + 1]
      BY <1>18, <2>2 DEF NotifyTicket
    <3>2. /\ \A q \in Programs \ {p} : current'[q] = current[q] /\ held'[q] = held[q]
          /\ current'[p] = current[p] + 1 /\ at'[p] = "pick"
      BY <2>1, <2>2, <3>1 DEF PlacesTypeOK
    <3>3. PlaceOK(p)'
      BY <1>1, <1>9, <2>1, <3>2 DEF PlaceOK, listVars
    <3>. QED
      BY <1>5, <2>1, <3>2, <3>3
  <2>3. CASE ~LastTicket(p)
    <3>1. current' = current /\ held' = [held EXCEPT ![p] = held[p] + 1]
      BY <1>18, <2>3 DEF NotifyTicket
    <3>2. /\ \A q \in Programs \ {p} : current'[q] = current[q] /\ held'[q] = held[q]
          /\ held'[p] = held[p] + 1 /\ at'[p] = "unlock"
      BY <2>1, <2>3, <3>1 DEF PlacesTypeOK
    <3>3. held[p] + 1 < Len(Tickets(p))
      BY <1>2, <1>4, <2>1, <2>3 DEF LastTicket, Tickets
    <3>4. Tickets(p)' = Tickets(p) /\ loopSystems' = loopSystems
      BY <1>1, <3>1 DEF listVars, Tickets, System
    <3>5. PlaceOK(p)'
      BY <1>3, <2>1, <3>1, <3>2, <3>3, <3>4 DEF PlaceOK
    <3>. QED
      BY <1>5, <2>1, <3>2, <3>5
  <2>. QED
    BY <2>2, <2>3
<1>. QED
  BY <1>11, <1>12, <1>13, <1>14, <1>15, <1>16, <1>17, <1>18 DEF SystemStep

\* A program is entered at its first system, and left past its last.
LEMMA HandshakeKeepsPlace ==
  ASSUME PlacesTypeOK, ListInv, PlaceInv, MainThread \/ \E t \in Tasks : TaskThread(t)
  PROVE  PlaceInv'
<1>1. UNCHANGED listVars
  BY DEF MainThread, TaskThread, EnterProgram, LeaveProgram, sysVars
<1>2. CASE UNCHANGED sysVars
  BY <1>1, <1>2, PlaceKept DEF PlaceInv, sysVars, barrierVars
<1>3. ASSUME NEW p \in Programs, EnterProgram(p) \/ LeaveProgram(p)
      PROVE  PlaceInv'
  <2>1. /\ held' = held
        /\ \A q \in Programs \ {p} : at'[q] = at[q] /\ current'[q] = current[q]
    BY <1>3 DEF EnterProgram, LeaveProgram, barrierVars, PlacesTypeOK
  <2>2. \A q \in Programs \ {p} : PlaceOK(q)'
    BY <1>1, <2>1, PlaceKept DEF PlaceInv
  <2>3. CASE EnterProgram(p)
    <3>1. at'[p] = "pick" /\ current'[p] = 1 /\ loopSystems' = loopSystems
      BY <1>1, <2>3 DEF EnterProgram, PlacesTypeOK, listVars
    <3>2. Len(loopSystems[p]) \in Nat
      BY DEF ListInv
    <3>3. 1 <= Len(loopSystems'[p]) + 1
      BY <3>1, <3>2
    <3>. QED
      BY <2>2, <3>1, <3>3 DEF PlaceInv, PlaceOK
  <2>4. CASE LeaveProgram(p)
    <3>1. at'[p] = "out" /\ current'[p] = current[p]
      BY <2>4 DEF LeaveProgram, PlacesTypeOK
    <3>. QED
      BY <2>2, <3>1 DEF PlaceInv, PlaceOK
  <2>. QED
    BY <1>3, <2>3, <2>4
<1>4. 0 \in Programs /\ Tasks \subseteq Programs
  BY TaskPoolAssumption DEF Programs, Tasks
<1>. QED
  BY <1>2, <1>3, <1>4 DEF MainThread, TaskThread

\* Systems are disabled and enabled while no thread is among them.
LEMMA SwitchKeepsPlace ==
  ASSUME IInv, FrameInv, PlaceInv, NEW s \in Systems, DisableSystem(s) \/ EnableSystem(s)
  PROVE  PlaceInv'
<1>1. mainPc = "idle" /\ UNCHANGED <<taskVars, at, current>>
  BY DEF DisableSystem, EnableSystem
<1>2. \A p \in Programs : ~InProgram(p)
  BY <1>1 DEF IInv, StateOfTask, LoopProgress, InProgram, Programs, Tasks
<1>3. \A p \in Programs : at'[p] = "out" /\ current'[p] = current[p]
  BY <1>1, <1>2 DEF FrameInv, AtSystems
<1>. QED
  BY <1>3 DEF PlaceInv, PlaceOK

LEMMA NextPlaceInv ==
  ASSUME IInv, FrameInv, ListInv, PlaceInv, [NextFrame]_vars
  PROVE  PlaceInv'
<1>1. PlacesTypeOK
  BY DEF FrameInv
<1>2. ASSUME UNCHANGED vars \/ (\E s \in States : BeginFrame(s) /\ UNCHANGED sysVars)
             \/ (Spurious /\ UNCHANGED sysVars)
      PROVE  PlaceInv'
  BY <1>2, PlaceKept DEF PlaceInv, vars, sysVars, barrierVars
<1>3. ASSUME NEW p \in Programs, SystemStep(p) \/ SpuriousTicket(p)
      PROVE  PlaceInv'
  BY <1>1, <1>3, StepKeepsPlace
<1>. QED
  BY <1>1, <1>2, <1>3, SwitchKeepsPlace, HandshakeKeepsPlace DEF NextFrame, SpuriousStep
-----------------------------------------------------------------------------
(* A barrier and those that hold its tickets.                              *)

BarrierTypeOK ==
  /\ serving \in [Barriers -> Nat]
  /\ owner \in [Barriers -> Programs \cup {Nobody}]
  /\ \A b \in Barriers : serving[b] = 0 \/ serving[b] < QueueSize(b)

\* The owner of the mutex is the program of a system that is inside.
OwnerInside(b) ==
  owner[b] # Nobody => \E s \in Holders(b) : ProgramOf[s] = owner[b] /\ PlaceOf(s, b) = "in"

\* A system inside has seen its turn come.
TurnCame(b) == \A s \in Holders(b) : PlaceOf(s, b) = "in" => serving[b] >= OrderOn(s, b)

\* serving_ counts the tickets that have been through in this frame, and they are
\* the first ones; after the last of them it is zero again.
PastTicket(s, b) == PlaceOf(s, b) \in {"notify", "served"}
Served(b) ==
  \/ \A s \in Holders(b) : PastTicket(s, b) <=> OrderOn(s, b) < serving[b]
  \/ serving[b] = 0 /\ \A s \in Holders(b) : PastTicket(s, b)


\* The systems with tickets run in every frame.
NobodySkips == \A s \in Conditional \cup Switched : TicketsOf[s] = <<>>

\* What a step may do to a barrier.
Moves(s, b, from, to) ==
  /\ PlaceOf(s, b) = from /\ PlaceOf(s, b)' = to
  /\ \A r \in Holders(b) \ {s} : PlaceOf(r, b)' = PlaceOf(r, b)

SameBarrier(b) == serving'[b] = serving[b] /\ owner'[b] = owner[b]

Quiet(b) == SameBarrier(b) /\ \A s \in Holders(b) : PlaceOf(s, b)' = PlaceOf(s, b)
Arrives(s, b) == SameBarrier(b) /\ Moves(s, b, "idle", "want")
Enters(s, b) ==
  /\ owner[b] = Nobody /\ serving[b] >= OrderOn(s, b)
  /\ owner'[b] = ProgramOf[s] /\ serving'[b] = serving[b]
  /\ Moves(s, b, "want", "in")
Sleeps(s, b) ==
  /\ owner[b] = Nobody /\ ~(serving[b] >= OrderOn(s, b))
  /\ SameBarrier(b) /\ Moves(s, b, "want", "asleep")
Wakes(s, b) == SameBarrier(b) /\ Moves(s, b, "asleep", "want")
Leaves(s, b) ==
  /\ owner'[b] = Nobody /\ serving'[b] = NextServing(b)
  /\ Moves(s, b, "in", "notify")
Notifies(s, b) ==
  /\ SameBarrier(b)
  /\ PlaceOf(s, b) = "notify" /\ PlaceOf(s, b)' = "served"
  /\ \A r \in Holders(b) \ {s} :
       PlaceOf(r, b)' = IF PlaceOf(r, b) = "asleep" THEN "want" ELSE PlaceOf(r, b)
StartsAnew(b) ==
  /\ SameBarrier(b) /\ Holders(b) # {}
  /\ \A s \in Holders(b) : PlaceOf(s, b) = "served" /\ PlaceOf(s, b)' = "idle"

BarrierStep(b) ==
  \/ Quiet(b) \/ StartsAnew(b)
  \/ \E s \in Holders(b) :
       \/ Arrives(s, b) \/ Enters(s, b) \/ Sleeps(s, b) \/ Wakes(s, b)
       \/ Leaves(s, b) \/ Notifies(s, b)

\* The one ticket a system has of a barrier.
LEMMA TicketIs ==
  ASSUME NEW b \in Barriers, NEW s \in Holders(b)
  PROVE  /\ s \in Systems /\ ProgramOf[s] \in Programs
         /\ TicketsOf[s] \in Seq([barrier : Barriers, order : Nat])
         /\ Len(TicketsOf[s]) \in Nat
         /\ TicketOn(s, b) \in 1 .. Len(TicketsOf[s])
         /\ TicketsOf[s][TicketOn(s, b)].barrier = b
         /\ OrderOn(s, b) \in Nat
         /\ \A i \in 1 .. Len(TicketsOf[s]) : TicketsOf[s][i].barrier = b => i = TicketOn(s, b)
<1>1. s \in Systems /\ HasTicket(s, b) /\ ProgramOf[s] \in Programs
  BY FrameRunAssumption DEF Holders, Programs
<1>2. TicketsOf[s] \in Seq([barrier : Barriers, order : Nat])
  BY <1>1, TicketsAssumption
<1> DEFINE q == TicketsOf[s]
           T == [barrier : Barriers, order : Nat]
<1>3. Len(q) \in Nat /\ DOMAIN q = 1 .. Len(q) /\ \A i \in 1 .. Len(q) : q[i] \in T
  <2>. HIDE DEF q, T
  <2>1. q \in Seq(T)
    BY <1>2 DEF q, T
  <2>. QED
    BY <2>1
<1>4. \E i \in DOMAIN q : q[i].barrier = b
  BY <1>1 DEF HasTicket
<1>5. TicketOn(s, b) \in DOMAIN q /\ q[TicketOn(s, b)].barrier = b
  BY <1>4 DEF TicketOn
<1>6. \A i, j \in DOMAIN q : q[i].barrier = q[j].barrier => i = j
  BY <1>1, TicketsAssumption
<1>7. OrderOn(s, b) \in Nat
  BY <1>3, <1>5 DEF OrderOn
<1>. QED
  BY <1>1, <1>2, <1>3, <1>5, <1>6, <1>7

LEMMA QueueSizeIsNat == \A b \in Barriers : QueueSize(b) \in Nat
<1>1. ASSUME NEW b \in Barriers PROVE QueueSize(b) \in Nat
  <2>1. IsFiniteSet(Holders(b))
    BY FrameRunAssumption, FS_Subset DEF Holders
  <2>. QED
    BY <2>1, FS_CardinalityType DEF QueueSize
<1>. QED
  BY <1>1

\* The ticket a program is at.
LEMMA AtTicket ==
  ASSUME ListInv, PlacesTypeOK, PlaceInv, NEW p \in Programs,
         at[p] \in {"lock", "asleep", "unlock", "notify"}
  PROVE  /\ held[p] \in Nat /\ System(p) \in Systems /\ ProgramOf[System(p)] = p
         /\ Tickets(p) = TicketsOf[System(p)]
         /\ held[p] + 1 \in 1 .. Len(TicketsOf[System(p)])
         /\ Ticket(p).barrier \in Barriers
         /\ System(p) \in Holders(Ticket(p).barrier)
         /\ TicketOn(System(p), Ticket(p).barrier) = held[p] + 1
         /\ OrderOn(System(p), Ticket(p).barrier) = Ticket(p).order
         /\ \A b \in Barriers : System(p) \in Holders(b) /\ b # Ticket(p).barrier =>
              TicketOn(System(p), b) # held[p] + 1
<1> DEFINE s == System(p)
           b == Ticket(p).barrier
<1>1. current[p] <= Len(loopSystems[p]) /\ held[p] < Len(Tickets(p)) /\ held[p] \in Nat
  BY DEF PlaceInv, PlaceOK, PlacesTypeOK
<1>2. /\ s \in Systems /\ ProgramOf[s] = p /\ Tickets(p) = TicketsOf[s]
      /\ TicketsOf[s] \in Seq([barrier : Barriers, order : Nat]) /\ Len(TicketsOf[s]) \in Nat
  BY <1>1, AtSystem
<1>3. held[p] + 1 \in 1 .. Len(TicketsOf[s])
  BY <1>1, <1>2
<1>4. Ticket(p) = TicketsOf[s][held[p] + 1]
  BY DEF Ticket
<1>5. TicketsOf[s][held[p] + 1] \in [barrier : Barriers, order : Nat]
  <2>1. \A T : \A q \in Seq(T) : \A i \in 1 .. Len(q) : q[i] \in T
    OBVIOUS
  <2>. QED
    BY <1>2, <1>3, <2>1
<1>6. b \in Barriers
  BY <1>4, <1>5
<1>7. s \in Holders(b)
  <2>1. held[p] + 1 \in DOMAIN TicketsOf[s]
    BY <1>2, <1>3
  <2>. QED
    BY <1>2, <1>4, <2>1 DEF Holders, HasTicket
<1>8. TicketOn(s, b) = held[p] + 1
  BY <1>3, <1>4, <1>6, <1>7, TicketIs
<1>9. ASSUME NEW c \in Barriers, s \in Holders(c), c # b
      PROVE  TicketOn(s, c) # held[p] + 1
  BY <1>4, <1>9, TicketIs
<1>. QED
  BY <1>1, <1>2, <1>3, <1>4, <1>6, <1>7, <1>8, <1>9 DEF OrderOn

\* A system with a ticket has one place in the list of its program.
LEMMA PositionIs ==
  ASSUME NobodySkips, ListInv, NEW b \in Barriers, NEW s \in Holders(b), NEW p, p = ProgramOf[s]
  PROVE  /\ p \in Programs /\ Len(loopSystems[p]) \in Nat
         /\ Position(s) \in 1 .. Len(loopSystems[p])
         /\ loopSystems[p][Position(s)] = s
         /\ \A i \in 1 .. Len(loopSystems[p]) : loopSystems[p][i] = s => i = Position(s)
<1> DEFINE q == loopSystems[p]
<1>1. s \in Systems /\ p \in Programs /\ 1 \in 1 .. 1 /\ TicketOn(s, b) \in 1 .. Len(TicketsOf[s])
  BY TicketIs
<1>2. s \notin Switched
  BY <1>1 DEF NobodySkips
<1>3. s \in SystemsOf(p) \ Switched
  BY <1>1, <1>2 DEF SystemsOf
<1>4. /\ q \in Seq(SystemsOf(p))
      /\ \A i, j \in 1 .. Len(q) : i < j => Address(q[i]) < Address(q[j])
      /\ \E i \in 1 .. Len(q) : q[i] = s
  BY <1>1, <1>3 DEF ListInv
<1>5. Address(s) \in Nat
  BY <1>1, AddressIs
<1>6. Position(s) = CHOOSE i \in DOMAIN q : q[i] = s
  BY DEF Position
<1>. HIDE DEF q
<1>7. Len(q) \in Nat /\ DOMAIN q = 1 .. Len(q)
  BY <1>4
<1>8. Position(s) \in 1 .. Len(q) /\ q[Position(s)] = s
  BY <1>4, <1>6, <1>7
<1>9. ASSUME NEW i \in 1 .. Len(q), NEW j \in 1 .. Len(q), q[i] = s, q[j] = s
      PROVE  i = j
  <2>1. ~(i < j) /\ ~(j < i)
    BY <1>4, <1>5, <1>9
  <2>. QED
    BY <1>7, <2>1
<1>. QED
  BY <1>1, <1>7, <1>8, <1>9 DEF q

\* A program whose thread is among its systems is in a frame, and running in it.
LEMMA Running ==
  ASSUME IInv, FrameInv, NEW p \in Programs
  PROVE  /\ at[p] # "out" => mainPc # "idle" /\ FrameProgress[p] = "running"
         /\ at[p] = "out" => FrameProgress[p] # "running"
<1>1. at[p] # "out" <=> InProgram(p)
  BY DEF FrameInv, AtSystems
<1>2. CASE p = 0
  BY <1>1, <1>2 DEF InProgram, FrameProgress, MainProgress
<1>3. CASE p # 0
  <2>1. p \in Tasks
    BY <1>3, TaskPoolAssumption DEF Programs, Tasks
  <2>. QED
    BY <1>1, <1>3, <2>1
    DEF InProgram, FrameProgress, TaskProgress, IInv, StateOfTask, LoopProgress
<1>. QED
  BY <1>2, <1>3

\* Where the owner of a ticket is in barrier b, by where its program is.
LEMMA PlaceIs ==
  ASSUME NobodySkips, IInv, FrameInv, ListInv, PlaceInv,
         NEW b \in Barriers, NEW s \in Holders(b), NEW p, p = ProgramOf[s], at[p] # "out"
  PROVE  /\ Position(s) < current[p] => PlaceOf(s, b) = "served"
         /\ Position(s) = current[p] => /\ s = System(p) /\ current[p] <= Len(loopSystems[p])
                                        /\ PlaceOf(s, b) = PlaceAtTicket(p, TicketOn(s, b))
         /\ Position(s) > current[p] => PlaceOf(s, b) = "idle"
         /\ current[p] <= Len(loopSystems[p]) /\ s = System(p) => Position(s) = current[p]
<1>1. /\ p \in Programs /\ Len(loopSystems[p]) \in Nat
      /\ Position(s) \in 1 .. Len(loopSystems[p]) /\ loopSystems[p][Position(s)] = s
      /\ \A i \in 1 .. Len(loopSystems[p]) : loopSystems[p][i] = s => i = Position(s)
  BY PositionIs
<1>2. mainPc # "idle" /\ FrameProgress[p] = "running" /\ current[p] \in Nat /\ current[p] # 0
  BY <1>1, Running DEF FrameInv, PlacesTypeOK, PlaceInv, PlaceOK
<1>3. Ended(s) <=> Position(s) < current[p]
  BY <1>1, <1>2 DEF Ended
<1>4. IsCurrent(s) <=> Position(s) = current[p]
  BY <1>1, <1>2 DEF IsCurrent, System
<1>. QED
  BY <1>1, <1>2, <1>3, <1>4 DEF PlaceOf, System

\* The same after a step of its thread.
LEMMA PlaceBecomes ==
  ASSUME NobodySkips, IInv, FrameInv, ListInv, PlaceInv, FrameInv', PlaceInv',
         UNCHANGED <<taskVars, listVars>>,
         NEW b \in Barriers, NEW s \in Holders(b), NEW p, p = ProgramOf[s],
         at[p] # "out", at'[p] # "out"
  PROVE  /\ Position(s) < current'[p] => PlaceOf(s, b)' = "served"
         /\ Position(s) = current'[p] => PlaceOf(s, b)' = PlaceAtTicket(p, TicketOn(s, b))'
         /\ Position(s) > current'[p] => PlaceOf(s, b)' = "idle"
<1>1. /\ p \in Programs /\ Len(loopSystems[p]) \in Nat
      /\ Position(s) \in 1 .. Len(loopSystems[p]) /\ loopSystems[p][Position(s)] = s
      /\ \A i \in 1 .. Len(loopSystems[p]) : loopSystems[p][i] = s => i = Position(s)
  BY PositionIs
<1>2. mainPc # "idle" /\ FrameProgress[p] = "running"
  BY <1>1, Running
<1>3. /\ mainPc' = mainPc /\ FrameProgress' = FrameProgress /\ loopSystems' = loopSystems
      /\ current'[p] \in Nat /\ current'[p] # 0
  BY <1>1 DEF FrameInv, PlacesTypeOK, PlaceInv, PlaceOK, taskVars, listVars, FrameProgress,
              MainProgress, TaskProgress
<1>4. Position(s)' = Position(s)
  BY <1>3 DEF Position
<1>5. Ended(s)' <=> Position(s) < current'[p]
  BY <1>1, <1>2, <1>3, <1>4 DEF Ended
<1>6. IsCurrent(s)' => Position(s) = current'[p]
  BY <1>1, <1>3 DEF IsCurrent, System
<1>7. Position(s) = current'[p] => IsCurrent(s)'
  BY <1>1, <1>3 DEF IsCurrent, System
<1>. QED
  BY <1>1, <1>2, <1>3, <1>5, <1>6, <1>7 DEF PlaceOf

\* The owners of tickets in other programs stay where they are.
LEMMA OtherPlace ==
  ASSUME UNCHANGED <<taskVars, listVars>>, NEW b \in Barriers, NEW s \in Holders(b),
         NEW q, q = ProgramOf[s],
         at'[q] = at[q], current'[q] = current[q], held'[q] = held[q]
  PROVE  PlaceOf(s, b)' = PlaceOf(s, b)
<1>1. /\ mainPc' = mainPc /\ FrameProgress' = FrameProgress /\ loopSystems' = loopSystems
  BY DEF taskVars, listVars, FrameProgress, MainProgress, TaskProgress
<1>2. Ended(s)' = Ended(s)
  BY <1>1 DEF Ended, Position
<1>3. IsCurrent(s)' = IsCurrent(s)
  BY <1>1 DEF IsCurrent, System
<1>4. PlaceAtTicket(q, TicketOn(s, b))' = PlaceAtTicket(q, TicketOn(s, b))
  BY DEF PlaceAtTicket
<1>. QED
  BY <1>1, <1>2, <1>3, <1>4 DEF PlaceOf

\* What the steps of systems start from and what they keep.
SystemsInv == NobodySkips /\ IInv /\ FrameInv /\ ListInv /\ PlaceInv /\ BarrierTypeOK

\* A step at which the thread stays with its system: the owners of tickets other
\* than that system stay where they are.
LEMMA SameSystem ==
  ASSUME SystemsInv, FrameInv', PlaceInv', UNCHANGED <<taskVars, listVars, current>>,
         NEW p \in Programs, at[p] # "out", at'[p] # "out",
         \A q \in Programs \ {p} : at'[q] = at[q] /\ held'[q] = held[q],
         NEW b \in Barriers, NEW s \in Holders(b)
  PROVE  /\ s # System(p) => PlaceOf(s, b)' = PlaceOf(s, b)
         /\ s = System(p) /\ current[p] <= Len(loopSystems[p]) =>
              /\ PlaceOf(s, b) = PlaceAtTicket(p, TicketOn(s, b))
              /\ PlaceOf(s, b)' = PlaceAtTicket(p, TicketOn(s, b))'
<1> DEFINE q == ProgramOf[s]
<1>1. q \in Programs /\ Position(s) \in Nat /\ current[p] \in Nat /\ current'[p] = current[p]
  BY PositionIs, TicketIs DEF SystemsInv, FrameInv, PlacesTypeOK
<1>2. CASE q # p
  <2>1. PlaceOf(s, b)' = PlaceOf(s, b)
    BY <1>1, <1>2, OtherPlace
  <2>2. current[p] <= Len(loopSystems[p]) => s # System(p)
    BY <1>2, AtSystem DEF SystemsInv, FrameInv
  <2>. QED
    BY <2>1, <2>2
<1>3. CASE q = p
  <2>1. /\ Position(s) < current[p] => PlaceOf(s, b) = "served"
        /\ Position(s) = current[p] => /\ s = System(p) /\ current[p] <= Len(loopSystems[p])
                                       /\ PlaceOf(s, b) = PlaceAtTicket(p, TicketOn(s, b))
        /\ Position(s) > current[p] => PlaceOf(s, b) = "idle"
        /\ current[p] <= Len(loopSystems[p]) /\ s = System(p) => Position(s) = current[p]
    BY <1>1, <1>3, PlaceIs DEF SystemsInv
  <2>2. /\ Position(s) < current'[p] => PlaceOf(s, b)' = "served"
        /\ Position(s) = current'[p] => PlaceOf(s, b)' = PlaceAtTicket(p, TicketOn(s, b))'
        /\ Position(s) > current'[p] => PlaceOf(s, b)' = "idle"
    BY <1>1, <1>3, PlaceBecomes DEF SystemsInv
  <2>. QED
    BY <1>1, <2>1, <2>2
<1>. QED
  BY <1>2, <1>3

\* A step to the next system: no one with a ticket of b was at the old one, or its
\* transform is over; the next is at none of its tickets.
LEMMA NextSystem ==
  ASSUME SystemsInv, FrameInv', PlaceInv', UNCHANGED <<taskVars, listVars>>,
         NEW p \in Programs, at[p] # "out", at'[p] = "pick", current'[p] = current[p] + 1,
         current[p] <= Len(loopSystems[p]),
         \A q \in Programs \ {p} :
           at'[q] = at[q] /\ current'[q] = current[q] /\ held'[q] = held[q],
         NEW b \in Barriers, NEW s \in Holders(b)
  PROVE  /\ s # System(p) => PlaceOf(s, b)' = PlaceOf(s, b)
         /\ s = System(p) => /\ PlaceOf(s, b) = PlaceAtTicket(p, TicketOn(s, b))
                             /\ PlaceOf(s, b)' = "served"
<1> DEFINE q == ProgramOf[s]
<1>1. q \in Programs /\ Position(s) \in Nat /\ current[p] \in Nat
  BY PositionIs, TicketIs DEF SystemsInv, FrameInv, PlacesTypeOK
<1>2. CASE q # p
  <2>1. PlaceOf(s, b)' = PlaceOf(s, b)
    BY <1>1, <1>2, OtherPlace
  <2>2. s # System(p)
    BY <1>2, AtSystem DEF SystemsInv, FrameInv
  <2>. QED
    BY <2>1, <2>2
<1>3. CASE q = p
  <2>1. /\ Position(s) < current[p] => PlaceOf(s, b) = "served"
        /\ Position(s) = current[p] => /\ s = System(p)
                                       /\ PlaceOf(s, b) = PlaceAtTicket(p, TicketOn(s, b))
        /\ Position(s) > current[p] => PlaceOf(s, b) = "idle"
        /\ s = System(p) => Position(s) = current[p]
    BY <1>1, <1>3, PlaceIs DEF SystemsInv
  <2>2. /\ Position(s) < current'[p] => PlaceOf(s, b)' = "served"
        /\ Position(s) = current'[p] => PlaceOf(s, b)' = PlaceAtTicket(p, TicketOn(s, b))'
        /\ Position(s) > current'[p] => PlaceOf(s, b)' = "idle"
    BY <1>1, <1>3, PlaceBecomes DEF SystemsInv
  <2>3. PlaceAtTicket(p, TicketOn(s, b))' = "idle"
    BY DEF PlaceAtTicket
  <2>. QED
    BY <1>1, <2>1, <2>2, <2>3
<1>. QED
  BY <1>2, <1>3

\* So a barrier sees nothing of such a step, or its own ticket of the system move.
LEMMA Staying ==
  ASSUME SystemsInv, FrameInv', PlaceInv', UNCHANGED <<taskVars, listVars, current>>,
         NEW p \in Programs, at[p] # "out", at'[p] # "out", current[p] <= Len(loopSystems[p]),
         \A q \in Programs \ {p} : at'[q] = at[q] /\ held'[q] = held[q],
         NEW b \in Barriers, NEW s, s = System(p)
  PROVE  /\ /\ SameBarrier(b)
            /\ s \in Holders(b) =>
                 PlaceAtTicket(p, TicketOn(s, b))' = PlaceAtTicket(p, TicketOn(s, b))
            => Quiet(b)
         /\ s \in Holders(b) =>
              \E to : /\ to = PlaceAtTicket(p, TicketOn(s, b))'
                      /\ Moves(s, b, PlaceAtTicket(p, TicketOn(s, b)), to)
<1>1. \A r \in Holders(b) :
        /\ r # s => PlaceOf(r, b)' = PlaceOf(r, b)
        /\ r = s => /\ PlaceOf(r, b) = PlaceAtTicket(p, TicketOn(s, b))
                    /\ PlaceOf(r, b)' = PlaceAtTicket(p, TicketOn(s, b))'
  BY SameSystem
<1>2. s \in Holders(b) => /\ PlaceOf(s, b) = PlaceAtTicket(p, TicketOn(s, b))
                          /\ PlaceOf(s, b)' = PlaceAtTicket(p, TicketOn(s, b))'
  BY <1>1
<1>. QED
  BY <1>1, <1>2 DEF Quiet, Moves

LEMMA RunSystemStep ==
  ASSUME SystemsInv, FrameInv', PlaceInv', NEW p \in Programs, RunSystem(p), NEW b \in Barriers
  PROVE  BarrierStep(b)
<1>1. /\ UNCHANGED <<taskVars, listVars, current>> /\ SameBarrier(b) /\ PlacesTypeOK
      /\ at[p] = "pick" /\ current[p] <= Len(loopSystems[p])
      /\ at' = [at EXCEPT ![p] = IF Tickets(p) = <<>> THEN AfterTickets(p) ELSE "lock"]
      /\ held' = [held EXCEPT ![p] = 0]
  BY DEF RunSystem, SameBarrier, SystemsInv, FrameInv
<1>2. PICK s : s = System(p)
  OBVIOUS
<1>3. /\ at'[p] = (IF Tickets(p) = <<>> THEN AfterTickets(p) ELSE "lock") /\ held'[p] = 0
      /\ \A q \in Programs \ {p} : at'[q] = at[q] /\ held'[q] = held[q]
      /\ at'[p] # "out"
  BY <1>1 DEF PlacesTypeOK, AfterTickets
<1>4. CASE s \notin Holders(b)
  BY <1>1, <1>2, <1>3, <1>4, Staying DEF BarrierStep
<1>5. CASE s \in Holders(b)
  <2>1. PICK i \in Nat : i = TicketOn(s, b) /\ i # 0 /\ Tickets(p) # <<>>
    BY <1>2, <1>5, TicketIs DEF Tickets
  <2>2. PlaceAtTicket(p, i) = "idle"
    BY <1>1 DEF PlaceAtTicket
  <2>3. PlaceAtTicket(p, i)' = IF i = 1 THEN "want" ELSE "idle"
    BY <1>3, <2>1 DEF PlaceAtTicket
  <2>4. PlaceAtTicket(p, TicketOn(s, b))' = PlaceAtTicket(p, i)'
    BY <2>1 DEF PlaceAtTicket
  <2>5. /\ i # 1 => Quiet(b)
        /\ i = 1 => Moves(s, b, "idle", "want")
    BY <1>1, <1>2, <1>3, <1>5, <2>1, <2>2, <2>3, <2>4, Staying
  <2>. QED
    BY <1>1, <1>5, <2>5 DEF BarrierStep, Arrives
<1>. QED
  BY <1>4, <1>5

LEMMA LockTicketStep ==
  ASSUME SystemsInv, FrameInv', PlaceInv', NEW p \in Programs, LockTicket(p), NEW b \in Barriers
  PROVE  BarrierStep(b)
<1>1. /\ UNCHANGED <<taskVars, listVars, current, serving>> /\ PlacesTypeOK
      /\ at[p] = "lock" /\ owner[Ticket(p).barrier] = Nobody
      /\ serving[Ticket(p).barrier] >= Ticket(p).order
      /\ owner' = [owner EXCEPT ![Ticket(p).barrier] = p]
      /\ at' = [at EXCEPT ![p] = IF LastTicket(p) THEN AfterTickets(p) ELSE "lock"]
      /\ held' = [held EXCEPT ![p] = IF LastTicket(p) THEN 0 ELSE held[p] + 1]
  BY DEF LockTicket, MyTurn, SystemsInv, FrameInv
<1>2. PICK s, c : s = System(p) /\ c = Ticket(p).barrier
  OBVIOUS
<1>3. /\ held[p] \in Nat /\ ProgramOf[s] = p /\ Tickets(p) = TicketsOf[s]
      /\ held[p] + 1 \in 1 .. Len(TicketsOf[s])
      /\ c \in Barriers /\ s \in Holders(c) /\ TicketOn(s, c) = held[p] + 1
      /\ OrderOn(s, c) = Ticket(p).order
      /\ \A d \in Barriers : s \in Holders(d) /\ d # c => TicketOn(s, d) # held[p] + 1
  BY <1>1, <1>2, AtTicket DEF SystemsInv
<1>4. current[p] <= Len(loopSystems[p])
  BY <1>1 DEF SystemsInv, PlaceInv, PlaceOK
<1>5. /\ LastTicket(p) => at'[p] \in {"component", "transform"} /\ held'[p] = 0
      /\ ~LastTicket(p) => at'[p] = "lock" /\ held'[p] = held[p] + 1
      /\ \A q \in Programs \ {p} : at'[q] = at[q] /\ held'[q] = held[q]
      /\ at'[p] # "out"
  BY <1>1 DEF PlacesTypeOK, AfterTickets
<1>6. b # c => SameBarrier(b)
  BY <1>1, <1>2, <1>3 DEF SameBarrier
<1>7. CASE s \notin Holders(b)
  BY <1>1, <1>2, <1>3, <1>4, <1>5, <1>6, <1>7, Staying DEF BarrierStep
<1>8. CASE s \in Holders(b)
  <2>1. PICK i \in Nat : i = TicketOn(s, b) /\ i \in 1 .. Len(TicketsOf[s])
    BY <1>8, TicketIs
  <2>2. PlaceAtTicket(p, i) = IF held[p] + 1 < i THEN "idle"
                              ELSE IF held[p] + 1 = i THEN "want" ELSE "in"
    BY <1>1, <1>3, <2>1 DEF PlaceAtTicket
  <2>3. PlaceAtTicket(p, i)' = IF held[p] + 2 < i THEN "idle"
                               ELSE IF held[p] + 2 = i THEN "want" ELSE "in"
    <3>1. CASE LastTicket(p)
      <4>1. ~(held[p] + 2 < i) /\ held[p] + 2 # i
        BY <1>3, <2>1, <3>1 DEF LastTicket, Tickets
      <4>. QED
        BY <1>5, <3>1, <4>1 DEF PlaceAtTicket
    <3>2. CASE ~LastTicket(p)
      BY <1>3, <1>5, <2>1, <3>2 DEF PlaceAtTicket
    <3>. QED
      BY <3>1, <3>2
  <2>4. PlaceAtTicket(p, TicketOn(s, b))' = PlaceAtTicket(p, i)'
    BY <2>1 DEF PlaceAtTicket
  <2>5. /\ SameBarrier(b) /\ PlaceAtTicket(p, i)' = PlaceAtTicket(p, i) => Quiet(b)
        /\ Moves(s, b, PlaceAtTicket(p, i), PlaceAtTicket(p, i)')
    BY <1>1, <1>2, <1>4, <1>5, <1>8, <2>1, <2>4, Staying
  <2>6. CASE b = c
    <3>1. i = held[p] + 1 /\ Moves(s, b, "want", "in")
      BY <1>3, <2>1, <2>2, <2>3, <2>5, <2>6
    <3>2. owner'[b] = p
      BY <1>1, <1>2, <2>6 DEF SystemsInv, BarrierTypeOK
    <3>. QED
      BY <1>1, <1>2, <1>3, <1>8, <2>6, <3>1, <3>2 DEF BarrierStep, Enters
  <2>7. CASE b # c
    <3>1. i # held[p] + 1
      BY <1>3, <1>8, <2>1, <2>7
    <3>2. CASE i = held[p] + 2
      BY <1>3, <1>6, <1>8, <2>2, <2>3, <2>5, <2>7, <3>2 DEF BarrierStep, Arrives
    <3>3. CASE i # held[p] + 2
      BY <1>3, <1>6, <2>1, <2>2, <2>3, <2>5, <2>7, <3>1, <3>3 DEF BarrierStep
    <3>. QED
      BY <3>2, <3>3
  <2>. QED
    BY <2>6, <2>7
<1>. QED
  BY <1>7, <1>8

LEMMA SleepOnTicketStep ==
  ASSUME SystemsInv, FrameInv', PlaceInv', NEW p \in Programs,
         SleepOnTicket(p) \/ SpuriousTicket(p), NEW b \in Barriers
  PROVE  BarrierStep(b)
<1>1. /\ UNCHANGED <<taskVars, listVars, current, held, serving, owner>> /\ PlacesTypeOK
      /\ SameBarrier(b)
      /\ \/ /\ at[p] = "lock" /\ at' = [at EXCEPT ![p] = "asleep"]
            /\ owner[Ticket(p).barrier] = Nobody
            /\ ~(serving[Ticket(p).barrier] >= Ticket(p).order)
         \/ at[p] = "asleep" /\ at' = [at EXCEPT ![p] = "lock"]
  BY DEF SleepOnTicket, SpuriousTicket, MyTurn, SystemsInv, FrameInv, barrierVars, SameBarrier
<1>2. PICK s, c : s = System(p) /\ c = Ticket(p).barrier
  OBVIOUS
<1>3. /\ held[p] \in Nat /\ ProgramOf[s] = p /\ c \in Barriers
      /\ s \in Holders(c) /\ TicketOn(s, c) = held[p] + 1 /\ OrderOn(s, c) = Ticket(p).order
      /\ \A d \in Barriers : s \in Holders(d) /\ d # c => TicketOn(s, d) # held[p] + 1
  BY <1>1, <1>2, AtTicket DEF SystemsInv
<1>4. /\ current[p] <= Len(loopSystems[p])
      /\ at[p] # "out" /\ at'[p] # "out" /\ at'[p] \in {"lock", "asleep"}
      /\ at'[p] = "lock" <=> at[p] = "asleep"
      /\ held'[p] = held[p]
      /\ \A q \in Programs \ {p} : at'[q] = at[q] /\ held'[q] = held[q]
  BY <1>1 DEF SystemsInv, PlaceInv, PlaceOK, PlacesTypeOK
<1>5. CASE s \notin Holders(b)
  BY <1>1, <1>2, <1>4, <1>5, Staying DEF BarrierStep
<1>6. CASE s \in Holders(b)
  <2>1. PICK i \in Nat : i = TicketOn(s, b)
    BY <1>6, TicketIs
  <2>2. PlaceAtTicket(p, TicketOn(s, b))' = PlaceAtTicket(p, i)'
    BY <2>1 DEF PlaceAtTicket
  <2>3. /\ PlaceAtTicket(p, i)' = PlaceAtTicket(p, i) => Quiet(b)
        /\ Moves(s, b, PlaceAtTicket(p, i), PlaceAtTicket(p, i)')
    BY <1>1, <1>2, <1>4, <1>6, <2>1, <2>2, Staying
  <2>4. CASE b = c
    <3>1. /\ PlaceAtTicket(p, i) = IF at[p] = "lock" THEN "want" ELSE "asleep"
          /\ PlaceAtTicket(p, i)' = IF at[p] = "lock" THEN "asleep" ELSE "want"
      BY <1>1, <1>3, <1>4, <2>1, <2>4 DEF PlaceAtTicket
    <3>2. CASE at[p] = "lock"
      BY <1>1, <1>2, <1>3, <1>6, <2>3, <2>4, <3>1, <3>2 DEF BarrierStep, Sleeps
    <3>3. CASE at[p] # "lock"
      BY <1>1, <1>3, <1>6, <2>3, <2>4, <3>1, <3>3 DEF BarrierStep, Wakes
    <3>. QED
      BY <3>2, <3>3
  <2>5. CASE b # c
    <3>1. i # held[p] + 1
      BY <1>3, <1>6, <2>1, <2>5
    <3>2. PlaceAtTicket(p, i)' = PlaceAtTicket(p, i)
      BY <1>1, <1>3, <1>4, <2>1, <3>1 DEF PlaceAtTicket
    <3>. QED
      BY <2>3, <3>2 DEF BarrierStep
  <2>. QED
    BY <2>4, <2>5
<1>. QED
  BY <1>5, <1>6

\* From the last ticket locked to the transform done, a system is inside.
LEMMA InsideStep ==
  ASSUME SystemsInv, FrameInv', PlaceInv', NEW p \in Programs,
         LockComponent(p) \/ TouchComponent(p) \/ (Transform(p) /\ Tickets(p) # <<>>),
         NEW b \in Barriers
  PROVE  BarrierStep(b)
<1>1. /\ UNCHANGED <<taskVars, listVars, current>> /\ PlacesTypeOK /\ SameBarrier(b)
      /\ at[p] \in {"component", "transform"}
      /\ \E place \in {"component", "transform", "unlock"} :
           /\ at' = [at EXCEPT ![p] = place]
           /\ place = "unlock" => at[p] = "transform" /\ held' = held
      /\ held' = held \/ \E n : held' = [held EXCEPT ![p] = n]
  BY DEF LockComponent, TouchComponent, Transform, SystemsInv, FrameInv, barrierVars, SameBarrier
<1>2. PICK s : s = System(p)
  OBVIOUS
<1>3. /\ current[p] <= Len(loopSystems[p]) /\ at[p] # "out" /\ at'[p] # "out"
      /\ at[p] = "transform" => held[p] = 0
      /\ at'[p] \in {"component", "transform", "unlock"}
      /\ at'[p] = "unlock" => at[p] = "transform" /\ held'[p] = held[p]
      /\ \A q \in Programs \ {p} : at'[q] = at[q] /\ held'[q] = held[q]
  BY <1>1 DEF SystemsInv, PlaceInv, PlaceOK, PlacesTypeOK
<1>4. CASE s \notin Holders(b)
  BY <1>1, <1>2, <1>3, <1>4, Staying DEF BarrierStep
<1>5. CASE s \in Holders(b)
  <2>1. PICK i \in Nat : i = TicketOn(s, b) /\ i \in 1 .. Len(TicketsOf[s])
    BY <1>5, TicketIs
  <2>2. PlaceAtTicket(p, TicketOn(s, b))' = PlaceAtTicket(p, i)'
    BY <2>1 DEF PlaceAtTicket
  <2>3. PlaceAtTicket(p, i) = "in"
    BY <1>1 DEF PlaceAtTicket
  <2>4. PlaceAtTicket(p, i)' = "in"
    <3>1. CASE at'[p] # "unlock"
      BY <1>3, <3>1 DEF PlaceAtTicket
    <3>2. CASE at'[p] = "unlock"
      <4>1. held'[p] = 0 /\ 1 <= i
        BY <1>3, <2>1, <3>2
      <4>. QED
        BY <2>1, <3>2, <4>1 DEF PlaceAtTicket
    <3>. QED
      BY <3>1, <3>2
  <2>. QED
    BY <1>1, <1>2, <1>3, <1>5, <2>1, <2>2, <2>3, <2>4, Staying DEF BarrierStep
<1>. QED
  BY <1>4, <1>5

\* A system without tickets comes and goes unseen by the barriers.
LEMMA NoTicketStep ==
  ASSUME SystemsInv, FrameInv', PlaceInv', NEW p \in Programs,
         SkipSystem(p) \/ (Transform(p) /\ Tickets(p) = <<>>), NEW b \in Barriers
  PROVE  BarrierStep(b)
<1>1. /\ UNCHANGED <<taskVars, listVars, held>> /\ PlacesTypeOK /\ SameBarrier(b)
      /\ at[p] \in {"pick", "transform"} /\ current[p] <= Len(loopSystems[p])
      /\ current' = [current EXCEPT ![p] = current[p] + 1]
      /\ \/ at' = at /\ at[p] = "pick"
         \/ at' = [at EXCEPT ![p] = "pick"]
      /\ Tickets(p) = <<>> \/ System(p) \in Conditional
  BY DEF SkipSystem, Transform, SystemsInv, PlaceInv, PlaceOK, FrameInv, barrierVars, SameBarrier
<1>2. /\ at[p] # "out" /\ at'[p] = "pick" /\ current'[p] = current[p] + 1
      /\ \A q \in Programs \ {p} :
           at'[q] = at[q] /\ current'[q] = current[q] /\ held'[q] = held[q]
  BY <1>1 DEF PlacesTypeOK
<1>3. TicketsOf[System(p)] = <<>>
  BY <1>1 DEF SystemsInv, NobodySkips, Tickets
<1>4. ASSUME NEW s \in Holders(b) PROVE s # System(p)
  <2>1. PICK i : i \in 1 .. Len(TicketsOf[s])
    BY <1>4, TicketIs
  <2>. QED
    BY <1>3, <2>1
<1>5. \A s \in Holders(b) : PlaceOf(s, b)' = PlaceOf(s, b)
  BY <1>1, <1>2, <1>4, NextSystem
<1>. QED
  BY <1>1, <1>5 DEF BarrierStep, Quiet

LEMMA UnlockTicketStep ==
  ASSUME SystemsInv, FrameInv', PlaceInv', NEW p \in Programs, UnlockTicket(p),
         NEW b \in Barriers
  PROVE  BarrierStep(b)
<1>1. /\ UNCHANGED <<taskVars, listVars, current, held>> /\ PlacesTypeOK
      /\ at[p] = "unlock" /\ at' = [at EXCEPT ![p] = "notify"]
      /\ serving' = [serving EXCEPT ![Ticket(p).barrier] = NextServing(Ticket(p).barrier)]
      /\ owner' = [owner EXCEPT ![Ticket(p).barrier] = Nobody]
  BY DEF UnlockTicket, SystemsInv, FrameInv
<1>2. PICK s, c : s = System(p) /\ c = Ticket(p).barrier
  OBVIOUS
<1>3. /\ held[p] \in Nat /\ ProgramOf[s] = p /\ c \in Barriers
      /\ s \in Holders(c) /\ TicketOn(s, c) = held[p] + 1
      /\ \A d \in Barriers : s \in Holders(d) /\ d # c => TicketOn(s, d) # held[p] + 1
  BY <1>1, <1>2, AtTicket DEF SystemsInv
<1>4. /\ current[p] <= Len(loopSystems[p])
      /\ at'[p] = "notify" /\ held'[p] = held[p]
      /\ \A q \in Programs \ {p} : at'[q] = at[q] /\ held'[q] = held[q]
  BY <1>1 DEF SystemsInv, PlaceInv, PlaceOK, PlacesTypeOK
<1>5. /\ b # c => SameBarrier(b)
      /\ b = c => owner'[b] = Nobody /\ serving'[b] = NextServing(b)
  BY <1>1, <1>2, <1>3 DEF SameBarrier, SystemsInv, BarrierTypeOK
<1>6. CASE s \notin Holders(b)
  BY <1>1, <1>2, <1>3, <1>4, <1>5, <1>6, Staying DEF BarrierStep
<1>7. CASE s \in Holders(b)
  <2>1. PICK i \in Nat : i = TicketOn(s, b)
    BY <1>7, TicketIs
  <2>2. PlaceAtTicket(p, TicketOn(s, b))' = PlaceAtTicket(p, i)'
    BY <2>1 DEF PlaceAtTicket
  <2>3. /\ SameBarrier(b) /\ PlaceAtTicket(p, i)' = PlaceAtTicket(p, i) => Quiet(b)
        /\ Moves(s, b, PlaceAtTicket(p, i), PlaceAtTicket(p, i)')
    BY <1>1, <1>2, <1>4, <1>7, <2>1, <2>2, Staying
  <2>4. CASE b = c
    <3>1. PlaceAtTicket(p, i) = "in" /\ PlaceAtTicket(p, i)' = "notify"
      BY <1>1, <1>3, <1>4, <2>1, <2>4 DEF PlaceAtTicket
    <3>. QED
      BY <1>5, <1>7, <2>3, <2>4, <3>1 DEF BarrierStep, Leaves
  <2>5. CASE b # c
    <3>1. i # held[p] + 1
      BY <1>3, <1>7, <2>1, <2>5
    <3>2. PlaceAtTicket(p, i)' = PlaceAtTicket(p, i)
      BY <1>1, <1>3, <1>4, <2>1, <3>1 DEF PlaceAtTicket
    <3>. QED
      BY <1>5, <2>3, <2>5, <3>2 DEF BarrierStep
  <2>. QED
    BY <2>4, <2>5
<1>. QED
  BY <1>6, <1>7

\* notify_all wakes those that sleep at the ticket of that barrier.
LEMMA WokenPlace ==
  ASSUME SystemsInv, FrameInv', PlaceInv', UNCHANGED <<taskVars, listVars>>,
         NEW c \in Barriers, NEW q \in Programs,
         at'[q] = (IF AsleepOn(q, c) THEN "lock" ELSE at[q]),
         current'[q] = current[q], held'[q] = held[q],
         NEW b \in Barriers, NEW s \in Holders(b), ProgramOf[s] = q
  PROVE  PlaceOf(s, b)' = IF b = c /\ PlaceOf(s, b) = "asleep" THEN "want" ELSE PlaceOf(s, b)
<1>1. /\ PlacesTypeOK /\ current[q] \in Nat /\ Position(s) \in Nat /\ held[q] \in Nat
  BY PositionIs, TicketIs DEF SystemsInv, FrameInv, PlacesTypeOK
<1>2. PICK i \in Nat : i = TicketOn(s, b)
  BY TicketIs
<1>3. at[q] \notin {"asleep", "out"} => PlaceAtTicket(q, i) # "asleep"
  BY <1>1 DEF PlaceAtTicket, PlacesTypeOK, Places
<1>4. CASE at[q] = "out"
  <2>1. PlaceOf(s, b)' = PlaceOf(s, b)
    BY <1>4, OtherPlace DEF AsleepOn
  <2>2. ~IsCurrent(s)
    BY <1>4 DEF IsCurrent
  <2>3. PlaceOf(s, b) \in {"served", "idle"}
    BY <2>2 DEF PlaceOf
  <2>. QED
    BY <2>1, <2>3
<1>5. CASE at[q] # "out"
  <2>1. at'[q] # "out"
    BY <1>5
  <2>2. /\ Position(s) < current[q] => PlaceOf(s, b) = "served"
        /\ Position(s) = current[q] => /\ s = System(q) /\ current[q] <= Len(loopSystems[q])
                                       /\ PlaceOf(s, b) = PlaceAtTicket(q, i)
        /\ Position(s) > current[q] => PlaceOf(s, b) = "idle"
    BY <1>2, <1>5, PlaceIs DEF SystemsInv
  <2>3. /\ Position(s) < current'[q] => PlaceOf(s, b)' = "served"
        /\ Position(s) = current'[q] => PlaceOf(s, b)' = PlaceAtTicket(q, TicketOn(s, b))'
        /\ Position(s) > current'[q] => PlaceOf(s, b)' = "idle"
    BY <1>5, <2>1, PlaceBecomes DEF SystemsInv
  <2>4. PlaceAtTicket(q, TicketOn(s, b))' = PlaceAtTicket(q, i)'
    BY <1>2 DEF PlaceAtTicket
  <2>5. ASSUME Position(s) = current[q]
        PROVE  PlaceAtTicket(q, i)' = IF b = c /\ PlaceAtTicket(q, i) = "asleep" THEN "want"
                                      ELSE PlaceAtTicket(q, i)
    <3>1. CASE at[q] # "asleep"
      <4>1. PlaceAtTicket(q, i)' = PlaceAtTicket(q, i)
        BY <3>1 DEF AsleepOn, PlaceAtTicket
      <4>. QED
        BY <1>3, <1>5, <3>1, <4>1
    <3>2. CASE at[q] = "asleep"
      <4>1. s = System(q)
        BY <2>2, <2>5
      <4>2. /\ Ticket(q).barrier \in Barriers
            /\ TicketOn(System(q), Ticket(q).barrier) = held[q] + 1
            /\ \A d \in Barriers : System(q) \in Holders(d) /\ d # Ticket(q).barrier =>
                 TicketOn(System(q), d) # held[q] + 1
        BY <1>1, <3>2, AtTicket DEF SystemsInv
      <4>3. PICK d : d = Ticket(q).barrier
        OBVIOUS
      <4>4. b = d <=> i = held[q] + 1
        BY <1>2, <4>1, <4>2, <4>3
      <4>5. at'[q] = IF d = c THEN "lock" ELSE "asleep"
        BY <3>2, <4>3 DEF AsleepOn
      <4>6. PlaceAtTicket(q, i) = IF held[q] + 1 < i THEN "idle"
                                  ELSE IF held[q] + 1 = i THEN "asleep" ELSE "in"
        BY <1>1, <1>2, <3>2 DEF PlaceAtTicket
      <4>7. PlaceAtTicket(q, i)' = IF held[q] + 1 < i THEN "idle"
                                   ELSE IF held[q] + 1 > i THEN "in"
                                   ELSE IF d = c THEN "want" ELSE "asleep"
        BY <1>1, <1>2, <4>5 DEF PlaceAtTicket
      <4>. QED
        BY <1>1, <1>2, <4>4, <4>6, <4>7
    <3>. QED
      BY <3>1, <3>2
  <2>. QED
    BY <1>1, <2>2, <2>3, <2>4, <2>5
<1>. QED
  BY <1>4, <1>5

LEMMA NotifyTicketStep ==
  ASSUME SystemsInv, FrameInv', PlaceInv', NEW p \in Programs, NotifyTicket(p),
         NEW b \in Barriers
  PROVE  BarrierStep(b)
<1>1. PICK s, c : s = System(p) /\ c = Ticket(p).barrier
  OBVIOUS
<1>2. /\ UNCHANGED <<taskVars, listVars>> /\ PlacesTypeOK /\ SameBarrier(b)
      /\ at[p] = "notify" /\ at'[p] = (IF LastTicket(p) THEN "pick" ELSE "unlock")
      /\ \A q \in Programs \ {p} : at'[q] = IF AsleepOn(q, c) THEN "lock" ELSE at[q]
      /\ LastTicket(p) => held' = held /\ current' = [current EXCEPT ![p] = current[p] + 1]
      /\ ~LastTicket(p) => current' = current /\ held' = [held EXCEPT ![p] = held[p] + 1]
  BY <1>1 DEF NotifyTicket, Woken, SystemsInv, FrameInv, SameBarrier
<1>3. /\ held[p] \in Nat /\ current[p] \in Nat /\ ProgramOf[s] = p /\ c \in Barriers
      /\ Tickets(p) = TicketsOf[s] /\ held[p] + 1 \in 1 .. Len(TicketsOf[s])
      /\ s \in Holders(c) /\ TicketOn(s, c) = held[p] + 1
      /\ \A d \in Barriers : s \in Holders(d) /\ d # c => TicketOn(s, d) # held[p] + 1
  BY <1>1, <1>2, AtTicket DEF SystemsInv, PlacesTypeOK
<1>4. /\ current[p] <= Len(loopSystems[p])
      /\ at'[p] # "out"
      /\ \A q \in Programs \ {p} : current'[q] = current[q] /\ held'[q] = held[q]
      /\ current'[p] = IF LastTicket(p) THEN current[p] + 1 ELSE current[p]
      /\ ~LastTicket(p) => held'[p] = held[p] + 1
  BY <1>2 DEF SystemsInv, PlaceInv, PlaceOK, PlacesTypeOK
<1>5. ASSUME NEW r \in Holders(b), ProgramOf[r] # p
      PROVE  PlaceOf(r, b)' = IF b = c /\ PlaceOf(r, b) = "asleep" THEN "want" ELSE PlaceOf(r, b)
  <2>1. PICK q \in Programs \ {p} : q = ProgramOf[r]
    BY <1>5, TicketIs
  <2>. QED
    BY <1>2, <1>3, <1>4, <2>1, WokenPlace
<1>6. ASSUME NEW r \in Holders(b), ProgramOf[r] = p
      PROVE  /\ PlaceOf(r, b) # "asleep"
             /\ r # s => PlaceOf(r, b)' = PlaceOf(r, b)
             /\ r = s /\ b = c => PlaceOf(r, b) = "notify" /\ PlaceOf(r, b)' = "served"
             /\ r = s /\ b # c => PlaceOf(r, b)' = PlaceOf(r, b)
  <2>1. PICK i \in Nat : i = TicketOn(r, b) /\ Position(r) \in Nat /\ i \in 1 .. Len(TicketsOf[r])
    BY <1>6, PositionIs, TicketIs DEF SystemsInv
  <2>2. /\ Position(r) < current[p] => PlaceOf(r, b) = "served"
        /\ Position(r) = current[p] => r = s /\ PlaceOf(r, b) = PlaceAtTicket(p, i)
        /\ Position(r) > current[p] => PlaceOf(r, b) = "idle"
        /\ r = s => Position(r) = current[p]
    BY <1>1, <1>2, <1>4, <1>6, <2>1, PlaceIs DEF SystemsInv
  <2>3. /\ Position(r) < current'[p] => PlaceOf(r, b)' = "served"
        /\ Position(r) = current'[p] => PlaceOf(r, b)' = PlaceAtTicket(p, TicketOn(r, b))'
        /\ Position(r) > current'[p] => PlaceOf(r, b)' = "idle"
    BY <1>2, <1>4, <1>6, PlaceBecomes DEF SystemsInv
  <2>4. PlaceAtTicket(p, TicketOn(r, b))' = PlaceAtTicket(p, i)'
    BY <2>1 DEF PlaceAtTicket
  <2>5. PlaceAtTicket(p, i) = IF held[p] + 1 < i THEN "in"
                              ELSE IF held[p] + 1 = i THEN "notify" ELSE "served"
    BY <1>2, <1>3, <2>1 DEF PlaceAtTicket
  <2>6. r = s => (b = c <=> i = held[p] + 1)
    BY <1>3, <2>1
  <2>7. CASE LastTicket(p)
    <3>1. held[p] + 1 = Len(TicketsOf[s]) /\ current'[p] = current[p] + 1 /\ at'[p] = "pick"
      BY <1>2, <1>3, <1>4, <2>7 DEF LastTicket, Tickets
    <3>2. r = s => ~(held[p] + 1 < i)
      BY <1>3, <2>1, <3>1
    <3>3. PlaceAtTicket(p, i)' = "idle"
      BY <3>1 DEF PlaceAtTicket
    <3>. QED
      BY <1>3, <2>1, <2>2, <2>3, <2>4, <2>5, <2>6, <3>1, <3>2, <3>3
  <2>8. CASE ~LastTicket(p)
    <3>1. held'[p] = held[p] + 1 /\ current'[p] = current[p] /\ at'[p] = "unlock"
      BY <1>2, <1>4, <2>8
    <3>2. PlaceAtTicket(p, i)' = IF held[p] + 1 < i THEN "in" ELSE "served"
      BY <1>3, <2>1, <3>1 DEF PlaceAtTicket
    <3>. QED
      BY <1>3, <2>1, <2>2, <2>3, <2>4, <2>5, <2>6, <3>1, <3>2
  <2>. QED
    BY <2>7, <2>8
<1>7. CASE b = c
  <2>1. s \in Holders(b) /\ ProgramOf[s] = p
    BY <1>3, <1>7
  <2>2. PlaceOf(s, b) = "notify" /\ PlaceOf(s, b)' = "served"
    BY <1>6, <1>7, <2>1
  <2>3. ASSUME NEW r \in Holders(b) \ {s}
        PROVE  PlaceOf(r, b)' = IF PlaceOf(r, b) = "asleep" THEN "want" ELSE PlaceOf(r, b)
    BY <1>5, <1>6, <1>7, <2>3
  <2>. QED
    BY <1>2, <2>1, <2>2, <2>3 DEF BarrierStep, Notifies
<1>8. CASE b # c
  <2>1. ASSUME NEW r \in Holders(b) PROVE PlaceOf(r, b)' = PlaceOf(r, b)
    BY <1>5, <1>6, <1>8, <2>1
  <2>. QED
    BY <1>2, <2>1 DEF BarrierStep, Quiet
<1>. QED
  BY <1>7, <1>8

LEMMA SystemMovesBarrier ==
  ASSUME SystemsInv, FrameInv', PlaceInv', NEW p \in Programs,
         SystemStep(p) \/ SpuriousTicket(p), NEW b \in Barriers
  PROVE  BarrierStep(b)
BY RunSystemStep, LockTicketStep, SleepOnTicketStep, InsideStep, NoTicketStep, UnlockTicketStep,
   NotifyTicketStep DEF SystemStep
-----------------------------------------------------------------------------
(* The handshake around the systems, as the barriers see it.               *)

\* A program that is not among its systems: its tickets' owners are past them
\* when it is done in a frame, and have still to come to them otherwise.
LEMMA PlaceOutside ==
  ASSUME NEW b \in Barriers, NEW s \in Holders(b), at[ProgramOf[s]] = "out",
         FrameProgress[ProgramOf[s]] # "running"
  PROVE  PlaceOf(s, b) = IF mainPc # "idle" /\ FrameProgress[ProgramOf[s]] = "done"
                         THEN "served" ELSE "idle"
BY DEF PlaceOf, Ended, IsCurrent

LEMMA EnterStep ==
  ASSUME SystemsInv, FrameInv', IInv', NEW p \in Programs, EnterProgram(p),
         FrameProgress[p] = "ready", FrameProgress' = [FrameProgress EXCEPT ![p] = "running"],
         mainPc # "idle", mainPc' # "idle", NEW b \in Barriers
  PROVE  BarrierStep(b)
<1>1. /\ UNCHANGED <<listVars, held>> /\ SameBarrier(b)
      /\ at' = [at EXCEPT ![p] = "pick"] /\ current' = [current EXCEPT ![p] = 1]
      /\ at \in [Programs -> Places] /\ current \in [Programs -> Nat]
      /\ FrameProgress \in [Programs -> {"ready", "running", "done"}]
  BY DEF EnterProgram, SystemsInv, FrameInv, PlacesTypeOK, barrierVars, SameBarrier,
         FrameProgress, MainProgress, TaskProgress
<1>2. ASSUME NEW s \in Holders(b) PROVE PlaceOf(s, b)' = PlaceOf(s, b)
  <2>1. PICK q \in Programs : q = ProgramOf[s]
    BY TicketIs
  <2>2. CASE q # p
    <3>1. /\ at'[q] = at[q] /\ current'[q] = current[q] /\ held'[q] = held[q]
          /\ FrameProgress'[q] = FrameProgress[q] /\ loopSystems' = loopSystems
      BY <1>1, <2>2 DEF listVars
    <3>2. Ended(s)' = Ended(s) /\ IsCurrent(s)' = IsCurrent(s)
      BY <2>1, <3>1 DEF Ended, IsCurrent, Position, System
    <3>3. PlaceAtTicket(q, TicketOn(s, b))' = PlaceAtTicket(q, TicketOn(s, b))
      BY <3>1 DEF PlaceAtTicket
    <3>. QED
      BY <2>1, <3>2, <3>3 DEF PlaceOf
  <2>3. CASE q = p
    <3>1. at[p] = "out"
      BY Running DEF SystemsInv
    <3>2. PlaceOf(s, b) = "idle"
      BY <2>1, <2>3, <3>1, PlaceOutside
    <3>3. at'[p] = "pick" /\ current'[p] = 1 /\ loopSystems' = loopSystems
          /\ FrameProgress'[p] = "running"
      BY <1>1 DEF listVars
    <3>4. Position(s) \in 1 .. Len(loopSystems[p]) /\ Position(s)' = Position(s)
      BY <2>1, <2>3, <3>3, PositionIs DEF SystemsInv, Position
    <3>5. ~Ended(s)'
      BY <2>1, <2>3, <3>3, <3>4 DEF Ended
    <3>6. PlaceAtTicket(p, TicketOn(s, b))' = "idle"
      BY <3>3 DEF PlaceAtTicket
    <3>. QED
      BY <2>1, <2>3, <3>2, <3>5, <3>6 DEF PlaceOf
  <2>. QED
    BY <2>2, <2>3
<1>. QED
  BY <1>1, <1>2 DEF BarrierStep, Quiet

LEMMA LeaveStep ==
  ASSUME SystemsInv, FrameInv', IInv', NEW p \in Programs, LeaveProgram(p),
         FrameProgress' = [FrameProgress EXCEPT ![p] = "done"],
         mainPc # "idle", mainPc' # "idle", NEW b \in Barriers
  PROVE  BarrierStep(b)
<1>1. /\ UNCHANGED <<listVars, held, current>> /\ SameBarrier(b)
      /\ at[p] = "pick" /\ current[p] > Len(loopSystems[p]) /\ at' = [at EXCEPT ![p] = "out"]
      /\ at \in [Programs -> Places] /\ current \in [Programs -> Nat]
      /\ FrameProgress \in [Programs -> {"ready", "running", "done"}]
  BY DEF LeaveProgram, SystemsInv, FrameInv, PlacesTypeOK, barrierVars, SameBarrier,
         FrameProgress, MainProgress, TaskProgress
<1>2. ASSUME NEW s \in Holders(b) PROVE PlaceOf(s, b)' = PlaceOf(s, b)
  <2>1. PICK q \in Programs : q = ProgramOf[s]
    BY TicketIs
  <2>2. CASE q # p
    <3>1. /\ at'[q] = at[q] /\ current'[q] = current[q] /\ held'[q] = held[q]
          /\ FrameProgress'[q] = FrameProgress[q] /\ loopSystems' = loopSystems
      BY <1>1, <2>2 DEF listVars
    <3>2. Ended(s)' = Ended(s) /\ IsCurrent(s)' = IsCurrent(s)
      BY <2>1, <3>1 DEF Ended, IsCurrent, Position, System
    <3>3. PlaceAtTicket(q, TicketOn(s, b))' = PlaceAtTicket(q, TicketOn(s, b))
      BY <3>1 DEF PlaceAtTicket
    <3>. QED
      BY <2>1, <3>2, <3>3 DEF PlaceOf
  <2>3. CASE q = p
    <3>0. Position(s) \in 1 .. Len(loopSystems[p]) /\ current[p] \in Nat
      BY <1>1, <2>1, <2>3, PositionIs DEF SystemsInv
    <3>1. Position(s) < current[p]
      BY <1>1, <3>0
    <3>2. PlaceOf(s, b) = "served"
      BY <1>1, <2>1, <2>3, <3>1, PlaceIs DEF SystemsInv
    <3>3. FrameProgress'[p] = "done"
      BY <1>1
    <3>. QED
      BY <2>1, <2>3, <3>2, <3>3 DEF PlaceOf, Ended
  <2>. QED
    BY <2>2, <2>3
<1>. QED
  BY <1>1, <1>2 DEF BarrierStep, Quiet

\* A step that leaves the systems alone and every program as far as it is.
LEMMA SameProgress ==
  ASSUME UNCHANGED sysVars, FrameProgress' = FrameProgress, mainPc' = "idle" <=> mainPc = "idle",
         NEW b \in Barriers
  PROVE  BarrierStep(b)
<1>1. /\ SameBarrier(b) /\ UNCHANGED <<at, current, held, loopSystems>>
  BY DEF sysVars, listVars, barrierVars, SameBarrier
<1>2. ASSUME NEW s \in Holders(b) PROVE PlaceOf(s, b)' = PlaceOf(s, b)
  <2>1. PICK q \in Programs : q = ProgramOf[s]
    BY TicketIs
  <2>2. Ended(s)' = Ended(s) /\ IsCurrent(s)' = IsCurrent(s)
    BY <1>1 DEF Ended, IsCurrent, Position, System
  <2>3. PlaceAtTicket(q, TicketOn(s, b))' = PlaceAtTicket(q, TicketOn(s, b))
    BY <1>1 DEF PlaceAtTicket
  <2>. QED
    BY <2>1, <2>2, <2>3 DEF PlaceOf
<1>. QED
  BY <1>1, <1>2 DEF BarrierStep, Quiet

\* Between two frames nobody has come to his ticket.
LEMMA NobodyIn ==
  ASSUME IInv, FrameInv, mainPc = "idle"
  PROVE  /\ \A p \in Programs : at[p] = "out"
         /\ \A b \in Barriers : \A s \in Holders(b) : PlaceOf(s, b) = "idle"
<1>1. \A p \in Programs : at[p] = "out"
  BY Running
<1>. QED
  BY <1>1, TicketIs DEF PlaceOf, IsCurrent

\* How far the programs are, step by step of the handshake.
LEMMA HandshakeProgress ==
  ASSUME IInv
  PROVE  /\ RunTask \/ JoinTask \/ SleepOnTask \/ Spurious \/ (\E t \in Tasks : SleepTask(t))
            => FrameProgress' = FrameProgress
         /\ StartMain => /\ FrameProgress[0] = "ready"
                         /\ FrameProgress' = [FrameProgress EXCEPT ![0] = "running"]
         /\ FinishMain => FrameProgress' = [FrameProgress EXCEPT ![0] = "done"]
         /\ \A t \in Tasks :
              /\ StartProgram(t) => /\ FrameProgress[t] = "ready"
                                    /\ FrameProgress' = [FrameProgress EXCEPT ![t] = "running"]
              /\ FinishProgram(t) => FrameProgress' = [FrameProgress EXCEPT ![t] = "done"]
<1>. USE TaskPoolAssumption DEF IInv, TypeOK, StateOfFrame, StateOfTask, LoopProgress, Tasks,
                                TaskPlaces, MainPlaces
<1>1. ASSUME \A t \in Tasks : TaskProgress(t)' = TaskProgress(t), MainProgress' = MainProgress
      PROVE  FrameProgress' = FrameProgress
  BY <1>1 DEF FrameProgress, Programs
<1>2. ASSUME RunTask \/ JoinTask \/ SleepOnTask \/ Spurious \/ (\E t \in Tasks : SleepTask(t))
      PROVE  FrameProgress' = FrameProgress
  <2>1. CASE RunTask
    BY <1>1, <2>1 DEF RunTask, WakeTask, Locked, TaskProgress, MainProgress
  <2>2. CASE JoinTask \/ SleepOnTask
    BY <1>1, <2>2 DEF JoinTask, SleepOnTask, TaskProgress, MainProgress
  <2>3. CASE Spurious
    BY <1>1, <2>3 DEF Spurious, SpuriousMain, SpuriousTask, TaskProgress, MainProgress
  <2>4. CASE \E t \in Tasks : SleepTask(t)
    BY <1>1, <2>4 DEF SleepTask, TaskProgress, MainProgress
  <2>. QED
    BY <1>2, <2>1, <2>2, <2>3, <2>4
<1>3. ASSUME StartMain
      PROVE  /\ FrameProgress[0] = "ready"
             /\ FrameProgress' = [FrameProgress EXCEPT ![0] = "running"]
  <2>1. \A t \in Tasks : TaskProgress(t)' = TaskProgress(t)
    BY <1>3 DEF StartMain, TaskProgress
  <2>. QED
    BY <1>3, <2>1, MainMoves DEF StartMain, MainProgress, FrameProgress, Programs
<1>4. ASSUME FinishMain
      PROVE  FrameProgress' = [FrameProgress EXCEPT ![0] = "done"]
  <2>1. \A t \in Tasks : TaskProgress(t)' = TaskProgress(t)
    BY <1>4 DEF FinishMain, TaskProgress
  <2>. QED
    BY <1>4, <2>1, MainMoves DEF FinishMain, MainProgress
<1>5. ASSUME NEW t \in Tasks, StartProgram(t)
      PROVE  /\ FrameProgress[t] = "ready"
             /\ FrameProgress' = [FrameProgress EXCEPT ![t] = "running"]
  <2>1. \A u \in Tasks \ {t} : TaskProgress(u)' = TaskProgress(u)
    BY <1>5 DEF StartProgram, TaskProgress
  <2>2. TaskProgress(t)' = "running" /\ MainProgress' = MainProgress
    BY <1>5 DEF StartProgram, TaskProgress, MainProgress
  <2>3. FrameProgress' = [FrameProgress EXCEPT ![t] = "running"]
    BY <1>5, <2>1, <2>2, TaskMoves DEF StartProgram
  <2>4. FrameProgress[t] = "ready"
    BY <1>5 DEF StartProgram, FrameProgress, TaskProgress, Programs
  <2>. QED
    BY <2>3, <2>4
<1>6. ASSUME NEW t \in Tasks, FinishProgram(t)
      PROVE  FrameProgress' = [FrameProgress EXCEPT ![t] = "done"]
  <2>1. \A u \in Tasks \ {t} : TaskProgress(u)' = TaskProgress(u)
    BY <1>6 DEF FinishProgram, WakeMain, TaskProgress
  <2>2. TaskProgress(t)' = "done"
    BY <1>6 DEF FinishProgram, WakeMain, TaskProgress
  <2>. QED
    BY <1>6, <2>1, <2>2, TaskMoves DEF FinishProgram, WakeMain, MainProgress
<1>. QED
  BY <1>2, <1>3, <1>4, <1>5, <1>6

LEMMA HandshakeMovesBarrier ==
  ASSUME SystemsInv, FrameInv', IInv',
         MainThread \/ (\E t \in Tasks : TaskThread(t)) \/ (Spurious /\ UNCHANGED sysVars),
         NEW b \in Barriers
  PROVE  BarrierStep(b)
<1>1. /\ 0 \in Programs /\ Tasks \subseteq Programs /\ IInv /\ FrameInv
  BY TaskPoolAssumption DEF Programs, Tasks, SystemsInv
<1>2. CASE (RunTask \/ JoinTask \/ SleepOnTask \/ Spurious \/ (\E t \in Tasks : SleepTask(t)))
           /\ UNCHANGED sysVars
  <2>1. mainPc' = "idle" <=> mainPc = "idle"
    BY <1>2 DEF RunTask, JoinTask, SleepOnTask, Spurious, SpuriousMain, SpuriousTask, SleepTask
  <2>. QED
    BY <1>1, <1>2, <2>1, HandshakeProgress, SameProgress
<1>3. CASE StartMain /\ EnterProgram(0)
  BY <1>1, <1>3, HandshakeProgress, EnterStep DEF StartMain
<1>4. CASE FinishMain /\ LeaveProgram(0)
  BY <1>1, <1>4, HandshakeProgress, LeaveStep DEF FinishMain
<1>5. ASSUME NEW t \in Tasks, StartProgram(t), EnterProgram(t)
      PROVE  BarrierStep(b)
  <2>1. mainPc # "idle" /\ mainPc' = mainPc
    BY <1>1, <1>5 DEF StartProgram, IInv, LoopProgress
  <2>. QED
    BY <1>1, <1>5, <2>1, HandshakeProgress, EnterStep
<1>6. ASSUME NEW t \in Tasks, FinishProgram(t), LeaveProgram(t)
      PROVE  BarrierStep(b)
  <2>1. mainPc # "idle" /\ mainPc' # "idle"
    BY <1>1, <1>6 DEF FinishProgram, WakeMain, IInv, LoopProgress, StateOfTask
  <2>. QED
    BY <1>1, <1>6, <2>1, HandshakeProgress, LeaveStep
<1>7. CASE EndFrame /\ UNCHANGED sysVars
  <2>1. mainPc = "join" /\ mainPc' = "idle" /\ at' = at /\ SameBarrier(b)
    BY <1>7 DEF EndFrame, sysVars, barrierVars, SameBarrier
  <2>2. \A t \in Tasks : TaskProgress(t) = "done"
    BY <1>1, <1>7, TaskPoolAssumption
    DEF EndFrame, TaskProgress, IInv, TypeOK, LoopProgress, StateOfTask, Tasks
  <2>3. \A p \in Programs : FrameProgress[p] = "done"
    BY <2>1, <2>2 DEF FrameProgress, MainProgress, Programs, Tasks
  <2>4. ASSUME NEW s \in Holders(b)
        PROVE  PlaceOf(s, b) = "served" /\ PlaceOf(s, b)' = "idle"
    <3>1. PICK p \in Programs : p = ProgramOf[s]
      BY TicketIs
    <3>2. PlaceOf(s, b) = "served"
      BY <2>1, <2>3, <3>1 DEF PlaceOf, Ended
    <3>3. at[p] = "out"
      BY <1>1, <2>3, Running
    <3>. QED
      BY <2>1, <3>1, <3>2, <3>3 DEF PlaceOf, IsCurrent
  <2>. QED
    BY <2>1, <2>4 DEF BarrierStep, StartsAnew, Quiet
<1>. QED
  BY <1>2, <1>3, <1>4, <1>5, <1>6, <1>7 DEF MainThread, TaskThread

\* Systems are switched, and a frame begins, while nobody is at a ticket.
LEMMA IdleMovesBarrier ==
  ASSUME SystemsInv, FrameInv', IInv',
         \/ \E s \in Systems : DisableSystem(s) \/ EnableSystem(s)
         \/ \E s \in States : BeginFrame(s) /\ UNCHANGED sysVars,
         NEW b \in Barriers
  PROVE  BarrierStep(b)
<1>1. mainPc = "idle" /\ UNCHANGED at /\ SameBarrier(b) /\ IInv /\ FrameInv
  BY DEF DisableSystem, EnableSystem, BeginFrame, sysVars, barrierVars, SameBarrier, SystemsInv
<1>2. /\ \A p \in Programs : at[p] = "out"
      /\ \A s \in Holders(b) : PlaceOf(s, b) = "idle"
  BY <1>1, NobodyIn
<1>3. \/ mainPc' = "idle"
      \/ mainPc' = "start" /\ index' = 1 /\ UNCHANGED <<gameState, taskPc>>
  BY <1>1 DEF DisableSystem, EnableSystem, BeginFrame, taskVars
<1>4. mainPc' = "start" => \A p \in Programs : FrameProgress'[p] = "ready"
  BY <1>1, <1>3, TaskPoolAssumption
  DEF FrameProgress, MainProgress, TaskProgress, Programs, Tasks, IInv, LoopProgress, StateOfTask
<1>5. ASSUME NEW s \in Holders(b) PROVE PlaceOf(s, b)' = "idle"
  <2>1. PICK p \in Programs : p = ProgramOf[s]
    BY TicketIs
  <2>. QED
    BY <1>1, <1>2, <1>3, <1>4, <2>1 DEF PlaceOf, Ended, IsCurrent
<1>. QED
  BY <1>1, <1>2, <1>5 DEF BarrierStep, Quiet

\* Whatever a step does, barrier b sees one of the steps of its tickets, or nothing.
LEMMA NextMovesBarrier ==
  ASSUME SystemsInv, FrameInv', PlaceInv', IInv', [NextFrame]_vars, NEW b \in Barriers
  PROVE  BarrierStep(b)
<1>1. CASE UNCHANGED vars
  <2>1. UNCHANGED sysVars /\ FrameProgress' = FrameProgress /\ mainPc' = mainPc
    BY <1>1 DEF vars, taskVars, FrameProgress, MainProgress, TaskProgress
  <2>. QED
    BY <2>1, SameProgress
<1>. QED
  BY <1>1, SystemMovesBarrier, HandshakeMovesBarrier, IdleMovesBarrier DEF NextFrame, SpuriousStep

LEMMA NextBarrierTypeOK ==
  ASSUME ListInv, FrameInv, PlaceInv, BarrierTypeOK, [NextFrame]_vars
  PROVE  BarrierTypeOK'
<1>1. ASSUME UNCHANGED <<serving, owner>> PROVE BarrierTypeOK'
  BY <1>1 DEF BarrierTypeOK
<1>2. ASSUME NEW p \in Programs, LockTicket(p) PROVE BarrierTypeOK'
  BY <1>2 DEF LockTicket, BarrierTypeOK
<1>3. ASSUME NEW p \in Programs, UnlockTicket(p) PROVE BarrierTypeOK'
  <2>1. PICK c \in Barriers : c = Ticket(p).barrier
    BY <1>3, AtTicket DEF UnlockTicket, FrameInv
  <2>2. /\ serving' = [serving EXCEPT ![c] = NextServing(c)]
        /\ owner' = [owner EXCEPT ![c] = Nobody]
    BY <1>3, <2>1 DEF UnlockTicket
  <2>3. serving[c] \in Nat /\ QueueSize(c) \in Nat
    BY QueueSizeIsNat DEF BarrierTypeOK
  <2>4. NextServing(c) \in Nat /\ (NextServing(c) = 0 \/ NextServing(c) < QueueSize(c))
    BY <2>3 DEF NextServing
  <2>. QED
    BY <2>2, <2>4 DEF BarrierTypeOK
<1>4. ASSUME NEW p \in Programs, SystemStep(p) \/ SpuriousTicket(p)
      PROVE  UNCHANGED <<serving, owner>> \/ LockTicket(p) \/ UnlockTicket(p)
  BY <1>4 DEF SystemStep, SkipSystem, RunSystem, SleepOnTicket, LockComponent, TouchComponent,
              Transform, NotifyTicket, SpuriousTicket, barrierVars
<1>5. ASSUME \/ UNCHANGED vars \/ MainThread \/ (\E t \in Tasks : TaskThread(t))
             \/ (Spurious /\ UNCHANGED sysVars)
             \/ \E s \in States : BeginFrame(s) /\ UNCHANGED sysVars
             \/ \E s \in Systems : DisableSystem(s) \/ EnableSystem(s)
      PROVE  UNCHANGED <<serving, owner>>
  BY <1>5 DEF vars, sysVars, barrierVars, MainThread, TaskThread, EnterProgram, LeaveProgram,
              DisableSystem, EnableSystem
<1>. QED
  BY <1>1, <1>2, <1>3, <1>4, <1>5 DEF NextFrame, SpuriousStep
-----------------------------------------------------------------------------
(* What the steps of a barrier keep.                                       *)

TicketsOK(b) == OwnerInside(b) /\ TurnCame(b) /\ Served(b)

LEMMA BarrierStepKeeps ==
  ASSUME BarrierTypeOK, BarrierTypeOK', NEW b \in Barriers, TicketsOK(b), BarrierStep(b)
  PROVE  TicketsOK(b)'
<1>1. /\ \A s \in Holders(b) : /\ OrderOn(s, b) \in Nat /\ ProgramOf[s] # Nobody
                               /\ OrderOn(s, b) < QueueSize(b)
      /\ \A s, r \in Holders(b) : OrderOn(s, b) = OrderOn(r, b) => s = r
      /\ QueueSize(b) \in Nat /\ serving[b] \in Nat
      /\ serving[b] = 0 \/ serving[b] < QueueSize(b)
  BY TicketIs, TicketsAssumption, FrameRunAssumption, QueueSizeIsNat DEF BarrierTypeOK, Programs
<1>2. /\ owner[b] # Nobody =>
           \E s \in Holders(b) : ProgramOf[s] = owner[b] /\ PlaceOf(s, b) = "in"
      /\ \A s \in Holders(b) : PlaceOf(s, b) = "in" => serving[b] >= OrderOn(s, b)
      /\ Served(b)
  BY DEF TicketsOK, OwnerInside, TurnCame
<1>3. CASE Quiet(b)
  BY <1>2, <1>3 DEF TicketsOK, OwnerInside, TurnCame, Served, PastTicket, Quiet, SameBarrier
<1>4. CASE StartsAnew(b)
  <2>1. /\ owner'[b] = owner[b] /\ serving'[b] = serving[b]
        /\ \A s \in Holders(b) : PlaceOf(s, b) = "served" /\ PlaceOf(s, b)' = "idle"
    BY <1>4 DEF StartsAnew, SameBarrier
  <2>2. owner[b] = Nobody
    BY <1>2, <2>1
  <2>3. serving[b] = 0
    <3>1. ASSUME serving[b] # 0, \A s \in Holders(b) : OrderOn(s, b) < serving[b]
          PROVE  FALSE
      <4>1. PICK k \in Nat : k = serving[b] /\ k \in 0 .. QueueSize(b) - 1
        BY <1>1, <3>1
      <4>2. PICK s \in Holders(b) : OrderOn(s, b) = k
        BY <4>1, TicketsAssumption
      <4>. QED
        BY <3>1, <4>1, <4>2
    <3>. QED
      BY <1>2, <2>1, <3>1 DEF Served, PastTicket
  <2>4. OwnerInside(b)' /\ TurnCame(b)'
    BY <2>1, <2>2 DEF OwnerInside, TurnCame
  <2>5. Served(b)'
    BY <1>1, <2>1, <2>3 DEF Served, PastTicket
  <2>. QED
    BY <2>4, <2>5 DEF TicketsOK
\* A ticket that moves without passing, and one that notifies, which it has passed.
<1>5. ASSUME NEW s \in Holders(b),
             Arrives(s, b) \/ Sleeps(s, b) \/ Wakes(s, b) \/ Notifies(s, b)
      PROVE  TicketsOK(b)'
  <2>1. /\ owner'[b] = owner[b] /\ serving'[b] = serving[b]
        /\ \A r \in Holders(b) : /\ PlaceOf(r, b)' = "in" <=> PlaceOf(r, b) = "in"
                                 /\ PastTicket(r, b)' <=> PastTicket(r, b)
    BY <1>5 DEF Arrives, Sleeps, Wakes, Notifies, Moves, SameBarrier, PastTicket
  <2>. QED
    BY <1>2, <2>1 DEF TicketsOK, OwnerInside, TurnCame, Served
<1>6. ASSUME NEW s \in Holders(b), Enters(s, b)
      PROVE  TicketsOK(b)'
  <2>1. /\ owner'[b] = ProgramOf[s] /\ serving'[b] = serving[b] /\ serving[b] >= OrderOn(s, b)
        /\ PlaceOf(s, b)' = "in"
        /\ \A r \in Holders(b) \ {s} : PlaceOf(r, b)' = PlaceOf(r, b)
        /\ \A r \in Holders(b) : PastTicket(r, b)' <=> PastTicket(r, b)
    BY <1>6 DEF Enters, Moves, PastTicket
  <2>2. OwnerInside(b)' /\ TurnCame(b)'
    BY <1>2, <2>1 DEF OwnerInside, TurnCame
  <2>3. Served(b)'
    BY <1>2, <2>1 DEF Served
  <2>. QED
    BY <2>2, <2>3 DEF TicketsOK
<1>7. ASSUME NEW s \in Holders(b), Leaves(s, b)
      PROVE  TicketsOK(b)'
  <2>1. /\ owner'[b] = Nobody /\ serving'[b] = NextServing(b)
        /\ PlaceOf(s, b) = "in" /\ PlaceOf(s, b)' = "notify"
        /\ \A r \in Holders(b) \ {s} : PlaceOf(r, b)' = PlaceOf(r, b)
    BY <1>7 DEF Leaves, Moves
  <2>2. \A r \in Holders(b) : PastTicket(r, b) <=> OrderOn(r, b) < serving[b]
    BY <1>2, <2>1 DEF Served, PastTicket
  <2>3. OrderOn(s, b) = serving[b]
    BY <1>1, <1>2, <2>1, <2>2 DEF PastTicket
  <2>4. \A r \in Holders(b) : PastTicket(r, b)' <=> OrderOn(r, b) < serving[b] + 1
    BY <1>1, <2>1, <2>2, <2>3 DEF PastTicket
  <2>5. \A r \in Holders(b) : PlaceOf(r, b)' # "in"
    <3>1. ASSUME NEW r \in Holders(b), PlaceOf(r, b) = "in" PROVE r = s
      <4>1. OrderOn(r, b) <= serving[b] /\ ~(OrderOn(r, b) < serving[b])
        BY <1>1, <1>2, <2>2, <3>1 DEF PastTicket
      <4>. QED
        BY <1>1, <2>3, <4>1
    <3>. QED
      BY <2>1, <3>1
  <2>6. Served(b)'
    <3>1. CASE serving[b] + 1 >= QueueSize(b)
      <4>1. serving'[b] = 0
        BY <2>1, <3>1 DEF NextServing
      <4>2. \A r \in Holders(b) : PastTicket(r, b)'
        BY <1>1, <2>4, <3>1
      <4>. QED
        BY <4>1, <4>2 DEF Served
    <3>2. CASE ~(serving[b] + 1 >= QueueSize(b))
      <4>1. serving'[b] = serving[b] + 1
        BY <2>1, <3>2 DEF NextServing
      <4>. QED
        BY <2>4, <4>1 DEF Served
    <3>. QED
      BY <3>1, <3>2
  <2>. QED
    BY <2>1, <2>5, <2>6 DEF TicketsOK, OwnerInside, TurnCame
<1>. QED
  BY <1>3, <1>4, <1>5, <1>6, <1>7 DEF BarrierStep

LEMMA InitTicketInv ==
  ASSUME InitFrame
  PROVE  BarrierTypeOK /\ \A b \in Barriers : TicketsOK(b)
<1>1. /\ serving = [b \in Barriers |-> 0] /\ owner = [b \in Barriers |-> Nobody]
      /\ IInv /\ FrameInv /\ mainPc = "idle"
  BY InitIInv, InitFrameInv DEF InitFrame, InitSystems, Init
<1>2. ASSUME NEW b \in Barriers PROVE TicketsOK(b)
  <2>1. \A s \in Holders(b) : PlaceOf(s, b) = "idle" /\ OrderOn(s, b) \in Nat
    BY <1>1, NobodyIn, TicketIs
  <2>. QED
    BY <1>1, <2>1 DEF TicketsOK, OwnerInside, TurnCame, Served, PastTicket
<1>. QED
  BY <1>1, <1>2 DEF BarrierTypeOK

\* What holds of the threads and the barriers, however systems are skipped; and
\* what holds of the tickets when none of their systems is.
ThreadsInv == IInv /\ FrameInv /\ ListInv /\ PlaceInv /\ BarrierTypeOK
TicketInv == \A b \in Barriers : TicketsOK(b)

LEMMA ThreadsInvariance == FrameSpec => []ThreadsInv
<1>1. InitFrame => ThreadsInv
  BY InitIInv, InitFrameInv, InitListInv, InitPlaceInv, InitTicketInv DEF InitFrame, ThreadsInv
<1>2. ThreadsInv /\ [NextFrame]_vars => ThreadsInv'
  BY NextFrameIsNext, NextIInv, NextFrameInv, NextListInv, NextPlaceInv, NextBarrierTypeOK
  DEF ThreadsInv
<1>. QED
  BY <1>1, <1>2, PTL DEF FrameSpec

LEMMA TicketInvariance ==
  ASSUME NobodySkips
  PROVE  FrameSpec => []TicketInv
<1>1. InitFrame => TicketInv
  BY InitTicketInv DEF TicketInv
<1>2. TicketInv /\ ThreadsInv /\ ThreadsInv' /\ [NextFrame]_vars => TicketInv'
  <2>1. SUFFICES ASSUME TicketInv, ThreadsInv, ThreadsInv', [NextFrame]_vars,
                        NEW b \in Barriers
                 PROVE  TicketsOK(b)'
    BY DEF TicketInv
  <2>2. BarrierStep(b)
    BY <2>1, NextMovesBarrier DEF ThreadsInv, SystemsInv
  <2>. QED
    BY <2>1, <2>2, BarrierStepKeeps DEF ThreadsInv, TicketInv
<1>. QED
  BY <1>1, <1>2, ThreadsInvariance, PTL DEF FrameSpec
-----------------------------------------------------------------------------
(* What a system has locked while it runs over its components.             *)

\* The thread of p has locked the i-th ticket of its system, and not unlocked it.
Owned(p, i) ==
  \/ at[p] \in {"lock", "asleep"} /\ i <= held[p]
  \/ at[p] \in {"component", "transform"}
  \/ at[p] = "unlock" /\ i > held[p]
  \/ at[p] = "notify" /\ i > held[p] + 1

Owns(p) == \A i \in 1 .. Len(Tickets(p)) : Owned(p, i) => owner[Tickets(p)[i].barrier] = p

\* It owns the mutexes of all of these, and of every barrier at its transform.
OwnsInv == \A p \in Programs : Owns(p)

\* The i-th ticket of the system p is at.
LEMMA ItsTicket ==
  ASSUME ListInv, PlacesTypeOK, PlaceInv, NEW p \in Programs, at[p] \notin {"out", "pick"},
         NEW i \in 1 .. Len(Tickets(p))
  PROVE  /\ Tickets(p)[i].barrier \in Barriers
         /\ \A j \in 1 .. Len(Tickets(p)) : Tickets(p)[j].barrier = Tickets(p)[i].barrier => j = i
<1>1. current[p] <= Len(loopSystems[p])
  BY DEF PlaceInv, PlaceOK
<1>2. /\ System(p) \in Systems /\ Tickets(p) = TicketsOf[System(p)]
      /\ Tickets(p) \in Seq([barrier : Barriers, order : Nat])
  BY <1>1, AtSystem
<1>3. \A T : \A q \in Seq(T) : DOMAIN q = 1 .. Len(q) /\ \A k \in 1 .. Len(q) : q[k] \in T
  OBVIOUS
<1>4. /\ DOMAIN Tickets(p) = 1 .. Len(Tickets(p))
      /\ Tickets(p)[i] \in [barrier : Barriers, order : Nat]
  BY <1>2, <1>3
<1>. QED
  BY <1>2, <1>4, TicketsAssumption

\* A thread keeps its mutexes while others take and leave theirs.
LEMMA OwnsKept ==
  ASSUME ListInv, PlacesTypeOK, PlaceInv, NEW q \in Programs, Owns(q),
         UNCHANGED loopSystems, current'[q] = current[q], held'[q] = held[q],
         at'[q] = at[q] \/ (at[q] = "asleep" /\ at'[q] = "lock"),
         \A b \in Barriers : owner[b] = q => owner'[b] = q
  PROVE  Owns(q)'
<1>1. Tickets(q)' = Tickets(q)
  BY DEF Tickets, System
<1>2. SUFFICES ASSUME NEW i \in 1 .. Len(Tickets(q)), Owned(q, i)'
               PROVE  owner'[Tickets(q)[i].barrier] = q
  BY <1>1 DEF Owns
<1>3. Owned(q, i) /\ at[q] \notin {"out", "pick"}
  BY <1>2 DEF Owned
<1>4. Tickets(q)[i].barrier \in Barriers
  BY <1>3, ItsTicket
<1>. QED
  BY <1>3, <1>4 DEF Owns

LEMMA StepKeepsOwns ==
  ASSUME ListInv, PlacesTypeOK, PlaceInv, BarrierTypeOK, OwnsInv, NEW p \in Programs,
         SystemStep(p) \/ SpuriousTicket(p)
  PROVE  OwnsInv'
<1>1. loopSystems' = loopSystems
  BY DEF SystemStep, SkipSystem, RunSystem, LockTicket, SleepOnTicket, LockComponent, listVars,
         TouchComponent, Transform, UnlockTicket, NotifyTicket, SpuriousTicket
<1>2. held[p] \in Nat /\ current[p] \in Nat /\ at[p] \in Places /\ Owns(p) /\ PlaceOK(p)
  BY DEF PlacesTypeOK, OwnsInv, PlaceInv
<1>3. Nobody \notin Programs
  BY FrameRunAssumption DEF Programs
<1>4. \A q \in Programs \ {p} : /\ at'[q] = at[q] \/ (at[q] = "asleep" /\ at'[q] = "lock")
                                /\ current'[q] = current[q] /\ held'[q] = held[q]
  <2>1. CASE SkipSystem(p) \/ RunSystem(p) \/ LockTicket(p) \/ SleepOnTicket(p) \/ SpuriousTicket(p)
    BY <2>1 DEF SkipSystem, RunSystem, LockTicket, SleepOnTicket, SpuriousTicket, barrierVars,
                PlacesTypeOK
  <2>2. CASE LockComponent(p) \/ TouchComponent(p) \/ Transform(p) \/ UnlockTicket(p)
    BY <2>2 DEF LockComponent, TouchComponent, Transform, UnlockTicket, barrierVars, PlacesTypeOK
  <2>3. CASE NotifyTicket(p)
    BY <2>3 DEF NotifyTicket, Woken, AsleepOn, PlacesTypeOK
  <2>. QED
    BY <2>1, <2>2, <2>3 DEF SystemStep
<1>5. ASSUME \A b \in Barriers : \A q \in Programs \ {p} : owner[b] = q => owner'[b] = q,
             Owns(p)'
      PROVE  OwnsInv'
  <2>1. ASSUME NEW q \in Programs \ {p} PROVE Owns(q)'
    BY <1>1, <1>4, <1>5, OwnsKept DEF OwnsInv
  <2>. QED
    BY <1>5, <2>1 DEF OwnsInv
<1>6. current' = current => Tickets(p)' = Tickets(p)
  BY <1>1 DEF Tickets, System
<1>7. /\ at[p] \in {"lock", "asleep", "unlock", "notify"} => held[p] + 1 \in 1 .. Len(Tickets(p))
      /\ at[p] \notin {"out", "pick"} => Len(Tickets(p)) \in Nat
  <2>1. ASSUME at[p] \notin {"out", "pick"}
        PROVE  Len(Tickets(p)) \in Nat
    BY <1>2, <2>1, AtSystem DEF PlaceOK
  <2>. QED
    BY <1>2, <2>1 DEF PlaceOK
<1>8. CASE SkipSystem(p)
  <2>1. owner' = owner /\ at'[p] = "pick"
    BY <1>8 DEF SkipSystem, barrierVars
  <2>. QED
    BY <1>5, <2>1 DEF Owns, Owned
<1>9. CASE RunSystem(p)
  <2>1. owner' = owner /\ current' = current /\ held'[p] = 0
    BY <1>9 DEF RunSystem, PlacesTypeOK
  <2>2. at'[p] = "lock" \/ Tickets(p) = <<>>
    BY <1>9 DEF RunSystem, PlacesTypeOK
  <2>3. Owns(p)'
    <3>1. CASE at'[p] = "lock"
      BY <2>1, <3>1 DEF Owns, Owned
    <3>2. CASE Tickets(p) = <<>>
      BY <1>6, <2>1, <3>2 DEF Owns
    <3>. QED
      BY <2>2, <3>1, <3>2
  <2>. QED
    BY <1>5, <2>1, <2>3
<1>10. CASE LockTicket(p)
  <2> DEFINE b == Ticket(p).barrier
  <2>1. /\ at[p] = "lock" /\ owner[b] = Nobody /\ current' = current
        /\ owner' = [owner EXCEPT ![b] = p]
        /\ at'[p] = IF LastTicket(p) THEN AfterTickets(p) ELSE "lock"
        /\ held'[p] = IF LastTicket(p) THEN 0 ELSE held[p] + 1
    BY <1>10 DEF LockTicket, PlacesTypeOK
  <2>2. b \in Barriers /\ b = Tickets(p)[held[p] + 1].barrier
    BY <2>1, AtTicket DEF Ticket, Tickets
  <2>. HIDE DEF b
  <2>3. \A i \in 1 .. Len(Tickets(p)) : i <= held[p] + 1 => owner'[Tickets(p)[i].barrier] = p
    <3>1. SUFFICES ASSUME NEW i \in 1 .. Len(Tickets(p)), i <= held[p] + 1
                   PROVE  owner'[Tickets(p)[i].barrier] = p
      OBVIOUS
    <3>2. Tickets(p)[i].barrier \in Barriers
      BY <2>1, ItsTicket
    <3>3. CASE i = held[p] + 1
      BY <2>1, <2>2, <3>3 DEF BarrierTypeOK
    <3>4. CASE i # held[p] + 1
      <4>1. i <= held[p]
        BY <1>2, <3>1, <3>4
      <4>2. owner[Tickets(p)[i].barrier] = p
        BY <1>2, <2>1, <4>1 DEF Owns, Owned
      <4>. QED
        BY <2>1, <3>2, <4>2 DEF BarrierTypeOK
    <3>. QED
      BY <3>3, <3>4
  <2>4. LastTicket(p) => held[p] + 1 = Len(Tickets(p))
    BY DEF LastTicket, Tickets
  <2>5. Owns(p)'
    <3>1. SUFFICES ASSUME NEW i \in 1 .. Len(Tickets(p)), Owned(p, i)'
                   PROVE  owner'[Tickets(p)[i].barrier] = p
      BY <1>6, <2>1 DEF Owns
    <3>2. i <= held[p] + 1
      <4>1. CASE LastTicket(p)
        BY <1>7, <2>1, <2>4, <4>1
      <4>2. CASE ~LastTicket(p)
        BY <2>1, <3>1, <4>2 DEF Owned
      <4>. QED
        BY <4>1, <4>2
    <3>. QED
      BY <2>3, <3>2
  <2>6. \A d \in Barriers : \A q \in Programs \ {p} : owner[d] = q => owner'[d] = q
    BY <1>3, <2>1, <2>2 DEF BarrierTypeOK
  <2>. QED
    BY <1>5, <2>5, <2>6
<1>11. CASE SleepOnTicket(p) \/ SpuriousTicket(p)
  <2>1. /\ owner' = owner /\ current' = current /\ held' = held
        /\ at[p] \in {"lock", "asleep"} /\ at'[p] \in {"lock", "asleep"}
    BY <1>11 DEF SleepOnTicket, SpuriousTicket, barrierVars, PlacesTypeOK
  <2>2. Owns(p)'
    BY <1>2, <1>6, <2>1 DEF Owns, Owned
  <2>. QED
    BY <1>5, <2>1, <2>2
<1>12. CASE LockComponent(p) \/ TouchComponent(p)
  <2>1. /\ owner' = owner /\ current' = current
        /\ at[p] = "component" /\ at'[p] \in {"component", "transform"}
    BY <1>12 DEF LockComponent, TouchComponent, barrierVars, PlacesTypeOK
  <2>2. Owns(p)'
    BY <1>2, <1>6, <2>1 DEF Owns, Owned
  <2>. QED
    BY <1>5, <2>1, <2>2
<1>13. CASE Transform(p)
  <2>1. at[p] = "transform" /\ owner' = owner
    BY <1>13 DEF Transform, barrierVars
  <2>2. Owns(p)'
    <3>1. CASE Tickets(p) = <<>>
      <4>1. at'[p] = "pick"
        BY <1>13, <3>1 DEF Transform, PlacesTypeOK
      <4>. QED
        BY <4>1 DEF Owns, Owned
    <3>2. CASE Tickets(p) # <<>>
      BY <1>2, <1>6, <1>13, <2>1, <3>2 DEF Transform, PlacesTypeOK, Owns, Owned
    <3>. QED
      BY <3>1, <3>2
  <2>. QED
    BY <1>5, <2>1, <2>2
<1>14. CASE UnlockTicket(p)
  <2> DEFINE b == Ticket(p).barrier
  <2>1. /\ at[p] = "unlock" /\ at'[p] = "notify" /\ current' = current /\ held' = held
        /\ owner' = [owner EXCEPT ![b] = Nobody]
    BY <1>14 DEF UnlockTicket, PlacesTypeOK
  <2>2. b \in Barriers /\ b = Tickets(p)[held[p] + 1].barrier
    BY <2>1, AtTicket DEF Ticket, Tickets
  <2>. HIDE DEF b
  <2>3. owner[b] = p
    <3>1. held[p] + 1 \in 1 .. Len(Tickets(p)) /\ held[p] + 1 > held[p]
      BY <1>2, <1>7, <2>1
    <3>. QED
      BY <1>2, <2>1, <2>2, <3>1 DEF Owns, Owned
  <2>4. Owns(p)'
    <3>1. SUFFICES ASSUME NEW i \in 1 .. Len(Tickets(p)), i > held[p] + 1
                   PROVE  owner'[Tickets(p)[i].barrier] = p
      BY <1>6, <2>1 DEF Owns, Owned
    <3>2. i > held[p] /\ i # held[p] + 1
      BY <1>2, <3>1
    <3>3. owner[Tickets(p)[i].barrier] = p
      BY <1>2, <2>1, <3>2 DEF Owns, Owned
    <3>4. Tickets(p)[i].barrier \in Barriers /\ Tickets(p)[i].barrier # b
      BY <1>7, <2>1, <2>2, <3>2, ItsTicket
    <3>. QED
      BY <2>1, <3>3, <3>4 DEF BarrierTypeOK
  <2>5. \A d \in Barriers : \A q \in Programs \ {p} : owner[d] = q => owner'[d] = q
    BY <2>1, <2>2, <2>3 DEF BarrierTypeOK
  <2>. QED
    BY <1>5, <2>4, <2>5
<1>15. CASE NotifyTicket(p)
  <2>1. at[p] = "notify" /\ owner' = owner
    BY <1>15 DEF NotifyTicket
  <2>2. Owns(p)'
    <3>1. CASE LastTicket(p)
      <4>1. at'[p] = "pick"
        BY <1>15, <3>1 DEF NotifyTicket, PlacesTypeOK
      <4>. QED
        BY <4>1 DEF Owns, Owned
    <3>2. CASE ~LastTicket(p)
      <4>1. at'[p] = "unlock" /\ current' = current /\ held'[p] = held[p] + 1
        BY <1>15, <3>2 DEF NotifyTicket, PlacesTypeOK
      <4>. QED
        BY <1>2, <1>6, <2>1, <4>1 DEF Owns, Owned
    <3>. QED
      BY <3>1, <3>2
  <2>. QED
    BY <1>5, <2>1, <2>2
<1>. QED
  BY <1>8, <1>9, <1>10, <1>11, <1>12, <1>13, <1>14, <1>15 DEF SystemStep

LEMMA NextOwnsInv ==
  ASSUME ThreadsInv, OwnsInv, [NextFrame]_vars
  PROVE  OwnsInv'
<1>1. ListInv /\ PlacesTypeOK /\ PlaceInv /\ BarrierTypeOK
  BY DEF ThreadsInv, FrameInv
<1>2. CASE UNCHANGED <<loopSystems, at, current, held, owner>>
  BY <1>1, <1>2, OwnsKept DEF OwnsInv
<1>3. ASSUME NEW p \in Programs, EnterProgram(p) \/ LeaveProgram(p)
      PROVE  OwnsInv'
  <2>1. /\ UNCHANGED <<loopSystems, held, owner>> /\ at'[p] \in {"pick", "out"}
        /\ \A q \in Programs \ {p} : at'[q] = at[q] /\ current'[q] = current[q]
    BY <1>1, <1>3 DEF EnterProgram, LeaveProgram, listVars, barrierVars, PlacesTypeOK
  <2>2. \A q \in Programs \ {p} : Owns(q)'
    BY <1>1, <2>1, OwnsKept DEF OwnsInv
  <2>3. Owns(p)'
    BY <2>1 DEF Owns, Owned
  <2>. QED
    BY <2>2, <2>3 DEF OwnsInv
<1>4. ASSUME NEW s \in Systems, DisableSystem(s) \/ EnableSystem(s)
      PROVE  OwnsInv'
  <2>1. mainPc = "idle" /\ at' = at
    BY <1>4 DEF DisableSystem, EnableSystem
  <2>2. \A p \in Programs : ~InProgram(p)
    BY <2>1 DEF ThreadsInv, IInv, StateOfTask, LoopProgress, InProgram, Programs, Tasks
  <2>3. \A p \in Programs : at'[p] = "out"
    BY <2>1, <2>2 DEF ThreadsInv, FrameInv, AtSystems
  <2>. QED
    BY <2>3 DEF OwnsInv, Owns, Owned
<1>5. ASSUME UNCHANGED vars \/ UNCHANGED sysVars
      PROVE  UNCHANGED <<loopSystems, at, current, held, owner>>
  BY <1>5 DEF vars, sysVars, listVars, barrierVars
<1>6. 0 \in Programs /\ Tasks \subseteq Programs
  BY TaskPoolAssumption DEF Programs, Tasks
<1>. QED
  BY <1>1, <1>2, <1>3, <1>4, <1>5, <1>6, StepKeepsOwns
  DEF NextFrame, SpuriousStep, MainThread, TaskThread

LEMMA OwnsInvariance == FrameSpec => []OwnsInv
<1>1. InitFrame => OwnsInv
  BY DEF InitFrame, InitSystems, OwnsInv, Owns, Owned
<1>. QED
  BY <1>1, NextOwnsInv, ThreadsInvariance, PTL DEF FrameSpec

\* SystemImpl::Run, Run_1, Component::Lock and Barrier::Ticket: whatever systems there
\* are, in whichever programs, with whatever tickets and components, skipped or not:
\* two of which one changes what the other uses run at the same time only if they have
\* no barrier in common, and the component is not shared or one of them joins it.
THEOREM GuardedAccessesExclude == FrameSpec => []GuardedExclude
<1>1. ASSUME ThreadsInv, OwnsInv, NEW c \in Components, NEW s \in Systems, NEW r \in Systems,
             Clash(s, r, c)
      PROVE  /\ ~ \E b \in Barriers : HasTicket(s, b) /\ HasTicket(r, b)
             /\ c \in Shared => Joins(s) \/ Joins(r)
  <2> DEFINE p == ProgramOf[s]
             q == ProgramOf[r]
  <2>1. p \in Programs /\ q \in Programs /\ Nobody \notin Programs
    BY FrameRunAssumption DEF Programs
  <2>2. /\ System(p) = s /\ System(q) = r /\ p # q
        /\ at[p] = "transform" /\ at[q] = "transform"
        /\ Uses(s, c) /\ Changes(r, c)
    BY <1>1 DEF Clash, InTransform, IsCurrent
  <2>3. ASSUME NEW t \in Systems, System(ProgramOf[t]) = t, at[ProgramOf[t]] = "transform",
               NEW b \in Barriers, HasTicket(t, b)
        PROVE  owner[b] = ProgramOf[t]
    <3>1. t \in Holders(b) /\ ProgramOf[t] \in Programs /\ Tickets(ProgramOf[t]) = TicketsOf[t]
      BY <2>3, TicketIs DEF Holders, Tickets
    <3>2. TicketOn(t, b) \in 1 .. Len(TicketsOf[t]) /\ TicketsOf[t][TicketOn(t, b)].barrier = b
      BY <3>1, TicketIs
    <3>. QED
      BY <1>1, <2>3, <3>1, <3>2 DEF OwnsInv, Owns, Owned
  <2>4. ASSUME NEW b \in Barriers, HasTicket(s, b), HasTicket(r, b)
        PROVE  FALSE
    BY <2>2, <2>3, <2>4
  <2>5. ASSUME c \in Shared, ~Joins(s), ~Joins(r)
        PROVE  FALSE
    <3>1. ASSUME NEW t \in Systems, Uses(t, c), ~Joins(t),
                 System(ProgramOf[t]) = t, at[ProgramOf[t]] = "transform"
          PROVE  /\ ComponentsOf[t][1].component = c
                 /\ Changes(t, c) => ComponentsOf[t][1].is_mutable
                 /\ IF ComponentsOf[t][1].is_mutable
                    THEN writer[c] = ProgramOf[t] ELSE ProgramOf[t] \in readers[c]
      <4>1. ComponentsOf[t] \in Seq([component : Components, is_mutable : BOOLEAN])
        BY FrameRunAssumption
      <4>2. /\ DOMAIN ComponentsOf[t] = 1 .. Len(ComponentsOf[t])
            /\ Len(ComponentsOf[t]) \in Nat
        <5>1. \A T : \A u \in Seq(T) : DOMAIN u = 1 .. Len(u) /\ Len(u) \in Nat
          OBVIOUS
        <5>. QED
          BY <4>1, <5>1
      <4>3. Len(ComponentsOf[t]) = 1
        <5>1. PICK i \in 1 .. Len(ComponentsOf[t]) : ComponentsOf[t][i].component = c
          BY <3>1, <4>2 DEF Uses
        <5>2. ~(Len(ComponentsOf[t]) > 1)
          BY <3>1 DEF Joins
        <5>3. \A n \in Nat : \A k \in 1 .. n : ~(n > 1) => n = 1
          OBVIOUS
        <5>. QED
          BY <4>2, <5>1, <5>2, <5>3, Zenon
      <4>4. DOMAIN ComponentsOf[t] = {1}
        BY <4>2, <4>3
      <4>5. /\ ComponentsOf[t][1].component = c
            /\ Changes(t, c) => ComponentsOf[t][1].is_mutable
        BY <3>1, <4>4 DEF Uses, Changes
      <4>6. ComponentList(ProgramOf[t]) = ComponentsOf[t] /\ ProgramOf[t] \in Programs
        BY <3>1, FrameRunAssumption DEF ComponentList, Programs
      <4>7. HasLock(ProgramOf[t])
        BY <1>1, <3>1, <4>3, <4>6 DEF ThreadsInv, FrameInv, LocksInv, OneComponent
      <4>. QED
        BY <2>5, <4>5, <4>6, <4>7 DEF HasLock
    <3>2. Uses(r, c)
      BY <2>2 DEF Uses, Changes
    <3>3. writer[c] = q /\ (writer[c] = p \/ p \in readers[c])
      BY <2>2, <2>5, <3>1, <3>2
    <3>4. writer[c] # Nobody => readers[c] = {}
      BY <1>1 DEF ThreadsInv, FrameInv, LocksInv
    <3>. HIDE DEF p, q
    <3>. QED
      BY <2>1, <2>2, <3>3, <3>4
  <2>. QED
    BY <2>4, <2>5
<1>2. ThreadsInv /\ OwnsInv => GuardedExclude
  BY <1>1 DEF GuardedExclude
<1>. QED
  BY <1>2, ThreadsInvariance, OwnsInvariance, PTL
-----------------------------------------------------------------------------
\* ProgramImpl::EnableSystem and DisableSystem, SystemImpl::Run: the loops of all
\* programs stay sorted and complete, and every thread inside its own.
THEOREM SystemsTypeCorrect == FrameSpec => []SystemsTypeOK
<1>1. ThreadsInv => SystemsTypeOK
  <2>1. SUFFICES ASSUME ThreadsInv PROVE SystemsTypeOK
    OBVIOUS
  <2>2. TypeOK /\ PlacesTypeOK /\ ListInv /\ BarrierTypeOK /\ \A p \in Programs : PlaceOK(p)
    BY <2>1 DEF ThreadsInv, IInv, FrameInv, PlaceInv
  <2>3. ASSUME NEW p \in Programs
        PROVE  /\ address[p] \in Orderings(p)
               /\ loopSystems[p] \in Seq(SystemsOf(p))
               /\ \A i, j \in DOMAIN loopSystems[p] :
                    i < j => Address(loopSystems[p][i]) < Address(loopSystems[p][j])
               /\ SystemsOf(p) \ Switched \subseteq ToSet(loopSystems[p])
               /\ at[p] = "pick" => current[p] <= Len(loopSystems[p]) + 1
               /\ at[p] \notin {"out", "pick"} => current[p] <= Len(loopSystems[p])
    BY <2>2 DEF ListInv, PlaceOK, ToSet
  <2>4. current \in [Programs -> Nat \ {0}]
    BY <2>2 DEF PlacesTypeOK, PlaceOK
  <2>. QED
    BY <2>2, <2>3, <2>4 DEF SystemsTypeOK, PlacesTypeOK, BarrierTypeOK
<1>. QED
  BY <1>1, ThreadsInvariance, PTL

\* Who is inside a barrier, or past it, is there by his program's place.
LEMMA InsideIs ==
  ASSUME NEW b \in Barriers, NEW s \in Holders(b)
  PROVE  /\ PlaceOf(s, b) = "in" => IsCurrent(s) /\ System(ProgramOf[s]) = s
         /\ PlaceOf(s, b)' = "in" => System(ProgramOf[s])' = s
BY DEF PlaceOf, IsCurrent

\* Barrier::Ticket::lock and unlock: whichever systems hold tickets, of however many
\* barriers, in whatever order their programs list them, their transforms run in the
\* order of the tickets.  It takes that none of them is skipped.
THEOREM TicketsInOrder ==
  ASSUME NobodySkips
  PROVE  FrameSpec => []TransformsInTicketOrder
<1>1. ThreadsInv /\ TicketInv => TransformsInTicketOrder
  <2>1. SUFFICES ASSUME ThreadsInv, TicketInv, NEW b \in Barriers,
                        NEW s \in Holders(b), NEW r \in Holders(b),
                        Inside(s, b), OrderOn(r, b) < OrderOn(s, b)
                 PROVE  Ended(r) \/ (IsCurrent(r) /\ at[ProgramOf[r]] \in {"unlock", "notify"})
    BY DEF TransformsInTicketOrder
  <2>2. /\ ProgramOf[s] # Nobody /\ ProgramOf[r] \in Programs
        /\ OrderOn(s, b) \in Nat /\ OrderOn(r, b) \in Nat /\ serving[b] \in Nat
        /\ at[ProgramOf[r]] \in Places
    BY <2>1, TicketIs, FrameRunAssumption
    DEF Programs, ThreadsInv, BarrierTypeOK, FrameInv, PlacesTypeOK
  <2>3. owner[b] = ProgramOf[s] /\ System(ProgramOf[s]) = s
    BY <2>1 DEF Inside, IsCurrent
  <2>4. PlaceOf(s, b) = "in"
    <3>1. PICK t \in Holders(b) : ProgramOf[t] = owner[b] /\ PlaceOf(t, b) = "in"
      BY <2>1, <2>2, <2>3 DEF TicketInv, TicketsOK, OwnerInside
    <3>2. System(ProgramOf[t]) = t
      BY <3>1, InsideIs
    <3>. QED
      BY <2>3, <3>1, <3>2
  <2>5. serving[b] >= OrderOn(s, b) /\ Served(b)
    BY <2>1, <2>4 DEF TicketInv, TicketsOK, TurnCame
  <2>6. PlaceOf(r, b) \in {"notify", "served"}
    BY <2>1, <2>2, <2>4, <2>5 DEF Served, PastTicket
  <2>7. CASE Ended(r)
    BY <2>7
  <2>8. CASE ~Ended(r)
    <3>1. IsCurrent(r) /\ PlaceAtTicket(ProgramOf[r], TicketOn(r, b)) \in {"notify", "served"}
      BY <2>6, <2>8 DEF PlaceOf
    <3>2. at[ProgramOf[r]] # "out"
      BY <3>1 DEF IsCurrent
    <3>3. at[ProgramOf[r]] \in {"unlock", "notify"}
      <4>1. ASSUME at[ProgramOf[r]] \notin {"unlock", "notify"} PROVE FALSE
        BY <2>2, <3>1, <3>2, <4>1 DEF PlaceAtTicket, Places
      <4>. QED
        BY <4>1
    <3>. QED
      BY <3>1, <3>3
  <2>. QED
    BY <2>7, <2>8
<1>2. FrameSpec => []TicketInv
  BY TicketInvariance
<1>. QED
  BY <1>1, <1>2, ThreadsInvariance, PTL

\* "The first system to use the addbarrier function will be enforced to run first"
\* (include/cubez/cubez.h) is true of such systems.
THEOREM FirstIsFirst ==
  ASSUME NobodySkips
  PROVE  FrameSpec => []FirstRunsFirst
<1>1. TransformsInTicketOrder => FirstRunsFirst
  <2>1. SUFFICES ASSUME TransformsInTicketOrder, NEW b \in Barriers,
                        NEW s \in Holders(b), NEW r \in Holders(b),
                        Inside(s, b), OrderOn(r, b) = 0, r # s
                 PROVE  Ended(r) \/ IsCurrent(r)
    BY DEF FirstRunsFirst
  <2>2. OrderOn(s, b) \in Nat /\ OrderOn(s, b) # OrderOn(r, b)
    BY <2>1, TicketIs, TicketsAssumption
  <2>3. OrderOn(r, b) < OrderOn(s, b)
    BY <2>1, <2>2
  <2>. QED
    BY <2>1, <2>3 DEF TransformsInTicketOrder
<1>2. FrameSpec => []TransformsInTicketOrder
  BY TicketsInOrder
<1>. QED
  BY <1>1, <1>2, PTL
-----------------------------------------------------------------------------
(* Every barrier implements module Barrier.                                *)

\* Ticket k and its owner.
LEMMA OwnerIs ==
  ASSUME NEW b \in Barriers
  PROVE  /\ \A k \in 0 .. QueueSize(b) - 1 :
              OwnerOf(b, k) \in Holders(b) /\ OrderOn(OwnerOf(b, k), b) = k
         /\ \A s \in Holders(b) :
              OrderOn(s, b) \in 0 .. QueueSize(b) - 1 /\ OwnerOf(b, OrderOn(s, b)) = s
<1>1. QueueSize(b) \in Nat /\ \A s \in Holders(b) : OrderOn(s, b) \in Nat
  BY QueueSizeIsNat, TicketIs
<1>2. ASSUME NEW k \in 0 .. QueueSize(b) - 1
      PROVE  OwnerOf(b, k) \in Holders(b) /\ OrderOn(OwnerOf(b, k), b) = k
  <2>1. \E s \in Holders(b) : OrderOn(s, b) = k
    BY TicketsAssumption
  <2>. QED
    BY <2>1 DEF OwnerOf
<1>3. ASSUME NEW s \in Holders(b)
      PROVE  OrderOn(s, b) \in 0 .. QueueSize(b) - 1 /\ OwnerOf(b, OrderOn(s, b)) = s
  <2>1. OrderOn(s, b) \in Nat /\ OrderOn(s, b) < QueueSize(b)
    BY <1>1, TicketsAssumption
  <2>2. OrderOn(s, b) \in 0 .. QueueSize(b) - 1
    BY <1>1, <2>1
  <2>. QED
    BY <1>2, <2>2, TicketsAssumption
<1>. QED
  BY <1>2, <1>3

\* The mutex of a barrier stays with the ticket that is inside while its owner does.
LEMMA TicketInsideIs ==
  ASSUME NEW b \in Barriers, TicketsOK(b), TicketsOK(b)'
  PROVE  /\ owner[b] = Nobody => TicketInside(b) = Nobody
         /\ owner'[b] = Nobody => TicketInside(b)' = Nobody
         /\ \A s \in Holders(b) :
              PlaceOf(s, b)' = "in" /\ owner'[b] = ProgramOf[s] => TicketInside(b)' = OrderOn(s, b)
         /\ owner'[b] = owner[b] /\ (\A s \in Holders(b) : PlaceOf(s, b)' = "in" <=> PlaceOf(s, b) = "in")
              => TicketInside(b)' = TicketInside(b)
<1>1. \A s \in Holders(b) : ProgramOf[s] # Nobody
  BY TicketIs, FrameRunAssumption DEF Programs
<1>2. ASSUME NEW s \in Holders(b), PlaceOf(s, b)' = "in", owner'[b] = ProgramOf[s]
      PROVE  TicketInside(b)' = OrderOn(s, b)
  <2>1. System(ProgramOf[s])' = s
    BY <1>2, InsideIs
  <2>2. PICK p : p = owner'[b] /\ p = ProgramOf[s] /\ p # Nobody
    BY <1>1, <1>2
  <2>3. System(owner[b])' = s
    BY <2>1, <2>2 DEF System
  <2>. QED
    BY <2>2, <2>3 DEF TicketInside, OrderOn, TicketOn
<1>3. ASSUME owner'[b] = owner[b],
             \A s \in Holders(b) : PlaceOf(s, b)' = "in" <=> PlaceOf(s, b) = "in"
      PROVE  TicketInside(b)' = TicketInside(b)
  <2>1. CASE owner[b] = Nobody
    BY <1>3, <2>1 DEF TicketInside
  <2>2. CASE owner[b] # Nobody
    <3>1. PICK s \in Holders(b) : ProgramOf[s] = owner[b] /\ PlaceOf(s, b) = "in"
      BY <2>2 DEF TicketsOK, OwnerInside
    <3>2. System(owner[b]) = s
      BY <3>1, InsideIs
    <3>3. TicketInside(b) = OrderOn(s, b)
      BY <2>2, <3>2 DEF TicketInside
    <3>. QED
      BY <1>2, <1>3, <3>1, <3>3
  <2>. QED
    BY <2>1, <2>2
<1>. QED
  BY <1>2, <1>3 DEF TicketInside

LEMMA StepImplements ==
  ASSUME BarrierTypeOK, NEW b \in Barriers, TicketsOK(b), TicketsOK(b)', BarrierStep(b)
  PROVE  OneBarrier(b)!Next \/ UNCHANGED OneBarrier(b)!vars
<1> DEFINE K == 0 .. QueueSize(b) - 1
           pc == [k \in K |-> PlaceOf(OwnerOf(b, k), b)]
<1>1. /\ \A k \in K : OwnerOf(b, k) \in Holders(b) /\ OrderOn(OwnerOf(b, k), b) = k
      /\ \A s \in Holders(b) : OrderOn(s, b) \in K /\ OwnerOf(b, OrderOn(s, b)) = s
  BY OwnerIs
<1>2. /\ QueueSize(b) \in Nat /\ QueueSize(b)' = QueueSize(b)
      /\ OneBarrier(b)!Made = K /\ OneBarrier(b)!Tickets = K
      /\ \A k \in K : OneBarrier(b)!Order(k) = k
  <2>1. QueueSize(b) \in Nat /\ QueueSize(b) <= 256
    BY QueueSizeIsNat, TicketsAssumption
  <2>. QED
    BY <2>1 DEF OneBarrier!Made, OneBarrier!Tickets, OneBarrier!Order, QueueSize
<1>3. \A k \in K : OwnerOf(b, k)' = OwnerOf(b, k)
  BY DEF OwnerOf, Holders, HasTicket, OrderOn, TicketOn
<1>4. ASSUME NEW k \in K, NEW s, s = OwnerOf(b, k)
      PROVE  pc[k] = PlaceOf(s, b) /\ pc'[k] = PlaceOf(s, b)'
  BY <1>3, <1>4
<1>5. /\ \A s \in Holders(b) : /\ pc[OrderOn(s, b)] = PlaceOf(s, b)
                               /\ pc'[OrderOn(s, b)] = PlaceOf(s, b)'
      /\ pc = [k \in K |-> pc[k]] /\ pc' = [k \in K |-> pc'[k]]
  BY <1>1, <1>4
<1>6. ASSUME NEW s \in Holders(b), NEW to, PlaceOf(s, b)' = to,
             \A r \in Holders(b) \ {s} : PlaceOf(r, b)' = PlaceOf(r, b)
      PROVE  pc' = [pc EXCEPT ![OrderOn(s, b)] = to]
  <2>1. ASSUME NEW k \in K PROVE pc'[k] = IF k = OrderOn(s, b) THEN to ELSE pc[k]
    BY <1>1, <1>4, <1>6, <2>1
  <2>. QED
    BY <1>1, <1>5, <2>1
<1>7. ASSUME UNCHANGED <<owner[b], serving[b]>>,
             \A s \in Holders(b) : PlaceOf(s, b)' = "in" <=> PlaceOf(s, b) = "in"
      PROVE  UNCHANGED <<QueueSize(b), serving[b], TicketInside(b)>>
  BY <1>2, <1>7, TicketInsideIs
<1>8. CASE Quiet(b)
  <2>1. UNCHANGED <<QueueSize(b), serving[b], TicketInside(b)>>
    BY <1>7, <1>8 DEF Quiet, SameBarrier
  <2>2. \A k \in K : pc'[k] = pc[k]
    BY <1>1, <1>4, <1>8 DEF Quiet
  <2>3. pc' = pc
    BY <1>5, <2>2
  <2>. QED
    BY <2>1, <2>3 DEF OneBarrier!vars
<1>9. CASE StartsAnew(b)
  <2>1. UNCHANGED <<QueueSize(b), serving[b], TicketInside(b)>>
    BY <1>7, <1>9 DEF StartsAnew, SameBarrier
  <2>2. \A k \in K : pc[k] = "served" /\ pc'[k] = "idle"
    BY <1>1, <1>4, <1>9 DEF StartsAnew
  <2>3. pc' = [k \in K |-> "idle"] /\ K # {}
    BY <1>1, <1>5, <1>9, <2>2 DEF StartsAnew
  <2>. QED
    BY <1>2, <2>1, <2>2, <2>3 DEF OneBarrier!Next, OneBarrier!NextFrame
<1>10. ASSUME NEW s \in Holders(b), Arrives(s, b) \/ Wakes(s, b)
       PROVE  OneBarrier(b)!Next
  <2>1. UNCHANGED <<QueueSize(b), serving[b], TicketInside(b)>>
    BY <1>7, <1>10 DEF Arrives, Wakes, Moves, SameBarrier
  <2>2. PICK k \in K : k = OrderOn(s, b)
    BY <1>1
  <2>3. pc' = [pc EXCEPT ![k] = "want"]
    BY <1>6, <1>10, <2>2 DEF Arrives, Wakes, Moves
  <2>4. pc[k] \in {"idle", "asleep"}
    BY <1>5, <1>10, <2>2 DEF Arrives, Wakes, Moves
  <2>5. OneBarrier(b)!Arrive(k) \/ OneBarrier(b)!SpuriousWakeup(k)
    BY <2>1, <2>3, <2>4 DEF OneBarrier!Arrive, OneBarrier!SpuriousWakeup
  <2>. QED
    BY <1>2, <2>5 DEF OneBarrier!Next
<1>11. ASSUME NEW s \in Holders(b), Sleeps(s, b)
       PROVE  OneBarrier(b)!Next
  <2>1. UNCHANGED <<QueueSize(b), serving[b], TicketInside(b)>>
    BY <1>7, <1>11 DEF Sleeps, Moves, SameBarrier
  <2>2. PICK k \in K : k = OrderOn(s, b)
    BY <1>1
  <2>3. pc' = [pc EXCEPT ![k] = "asleep"]
    BY <1>6, <1>11, <2>2 DEF Sleeps, Moves
  <2>4. pc[k] = "want" /\ TicketInside(b) = Nobody /\ ~(serving[b] >= k)
    BY <1>5, <1>11, <2>2, TicketInsideIs DEF Sleeps, Moves
  <2>5. OneBarrier(b)!Sleep(k)
    BY <1>2, <2>1, <2>3, <2>4 DEF OneBarrier!Sleep, OneBarrier!MyTurn
  <2>. QED
    BY <1>2, <2>5 DEF OneBarrier!Next
<1>12. ASSUME NEW s \in Holders(b), Enters(s, b)
       PROVE  OneBarrier(b)!Next
  <2>1. PICK k \in K : k = OrderOn(s, b)
    BY <1>1
  <2>2. UNCHANGED <<QueueSize(b), serving[b]>> /\ TicketInside(b)' = k
    BY <1>2, <1>12, <2>1, TicketInsideIs DEF Enters, Moves
  <2>3. pc' = [pc EXCEPT ![k] = "in"]
    BY <1>6, <1>12, <2>1 DEF Enters, Moves
  <2>4. pc[k] = "want" /\ TicketInside(b) = Nobody /\ serving[b] >= k
    BY <1>5, <1>12, <2>1, TicketInsideIs DEF Enters, Moves
  <2>5. OneBarrier(b)!Enter(k)
    BY <1>2, <2>2, <2>3, <2>4 DEF OneBarrier!Enter, OneBarrier!MyTurn
  <2>. QED
    BY <1>2, <2>5 DEF OneBarrier!Next
<1>13. ASSUME NEW s \in Holders(b), Leaves(s, b)
       PROVE  OneBarrier(b)!Next
  <2>1. PICK k \in K : k = OrderOn(s, b)
    BY <1>1
  <2>2. QueueSize(b)' = QueueSize(b) /\ serving'[b] = NextServing(b) /\ TicketInside(b)' = Nobody
    BY <1>2, <1>13, TicketInsideIs DEF Leaves
  <2>3. pc' = [pc EXCEPT ![k] = "notify"]
    BY <1>6, <1>13, <2>1 DEF Leaves, Moves
  <2>4. pc[k] = "in"
    BY <1>5, <1>13, <2>1 DEF Leaves, Moves
  <2>5. OneBarrier(b)!Release(k)
    BY <2>2, <2>3, <2>4 DEF OneBarrier!Release, OneBarrier!NextServing, NextServing
  <2>. QED
    BY <1>2, <2>5 DEF OneBarrier!Next
<1>14. ASSUME NEW s \in Holders(b), Notifies(s, b)
       PROVE  OneBarrier(b)!Next
  <2>1. UNCHANGED <<QueueSize(b), serving[b], TicketInside(b)>>
    BY <1>7, <1>14 DEF Notifies, SameBarrier
  <2>2. PICK k \in K : k = OrderOn(s, b)
    BY <1>1
  <2>3. pc[k] = "notify" /\ pc'[k] = "served"
    BY <1>5, <1>14, <2>2 DEF Notifies
  <2>4. \A j \in K \ {k} : pc'[j] = IF pc[j] = "asleep" THEN "want" ELSE pc[j]
    BY <1>1, <1>4, <1>14, <2>2 DEF Notifies
  <2>5. pc' = OneBarrier(b)!Woken([pc EXCEPT ![k] = "served"])
    BY <1>2, <1>5, <2>3, <2>4 DEF OneBarrier!Woken
  <2>6. OneBarrier(b)!NotifyAll(k)
    BY <2>1, <2>3, <2>5 DEF OneBarrier!NotifyAll
  <2>. QED
    BY <1>2, <2>6 DEF OneBarrier!Next
<1>. QED
  BY <1>8, <1>9, <1>10, <1>11, <1>12, <1>13, <1>14 DEF BarrierStep

\* So all that is proved of Barrier holds of every barrier of a frame, also where a
\* system holds tickets of several and where others come between.
THEOREM BarrierRefinement ==
  ASSUME NobodySkips
  PROVE  FrameSpec => ImplementsBarrier
<1>1. /\ ThreadsInv /\ ThreadsInv' /\ TicketInv /\ TicketInv' /\ [NextFrame]_vars
      => \A b \in Barriers : OneBarrier(b)!Next \/ UNCHANGED OneBarrier(b)!vars
  <2>1. SUFFICES ASSUME ThreadsInv, ThreadsInv', TicketInv, TicketInv', [NextFrame]_vars,
                        NEW b \in Barriers
                 PROVE  OneBarrier(b)!Next \/ UNCHANGED OneBarrier(b)!vars
    OBVIOUS
  <2>2. BarrierStep(b)
    BY <2>1, NextMovesBarrier DEF ThreadsInv, SystemsInv
  <2>3. TicketsOK(b) /\ TicketsOK(b)'
    BY <2>1 DEF TicketInv
  <2>. QED
    BY <2>1, <2>2, <2>3, StepImplements DEF ThreadsInv
<1>2. FrameSpec => []TicketInv
  BY TicketInvariance
<1>. QED
  BY <1>1, <1>2, ThreadsInvariance, PTL DEF FrameSpec, ImplementsBarrier
=============================================================================
