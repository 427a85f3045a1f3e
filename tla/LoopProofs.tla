----------------------------- MODULE LoopProofs -----------------------------
(***************************************************************************)
(* What qb_loop runs, a frame of programs and then the coroutines:         *)
(*  - programs and scenes, for every set of programs and of scenes and any *)
(*    depth of handlers within handlers: the current scenes exist, a       *)
(*    program is run by one thread at a time, and on a scene that exists;  *)
(*  - coroutines, for every finite set of them, any number of workers and  *)
(*    any bodies: nothing runs after its end, the turns are fair, what a   *)
(*    peek has shown may be destroyed, and the schedulers keep the promise *)
(*    of Future.                                                           *)
(***************************************************************************)
EXTENDS Programs, CoroScheduler, SequenceTheorems, FiniteSetTheorems, TLAPS

CallStages == {"ondeactivate", "onactivate", "ondestroy", "deleting", "reset", "flush"}
CallRecords == [stage : CallStages, scene : Scenes, old : Scenes]

\* The scene of call i is being destroyed.
Destroying(i) == calls[i].stage \in {"ondestroy", "deleting"}

\* A scene that a call will use again is there; the one being destroyed is not
\* used by the calls that were in progress when its destruction began.  No handler
\* runs while there is no current scene, and the flush of a frame is no handler's.
CallOK(i) ==
  /\ calls[i].stage # "reset" => calls[i].scene \in live /\ calls[i].old \in live
  /\ calls[i].stage = "reset" => i = Len(calls)
  /\ calls[i].stage = "flush" => i = 1
  /\ Destroying(i) =>
       /\ calls[i].scene # Global
       /\ \A j \in 1 .. i - 1 : calls[i].scene # calls[j].scene /\ calls[i].scene # calls[j].old

CurrentOK ==
  IF Stage("reset") THEN active = None /\ working = None ELSE active \in live /\ working \in live

ScenesInv ==
  /\ live \subseteq Scenes /\ Global \in live
  /\ CurrentOK
  /\ calls \in Seq(CallRecords)
  /\ \A i \in 1 .. Len(calls) : CallOK(i)

ProgramsTypeOK ==
  /\ place \in [Progs -> {"absent", "joined", "detached", "releasing"}]
  /\ frame \in Scenes \cup {None}
  /\ progress \in [Progs -> {"ready", "running", "done"}]
  /\ inline \in Progs \cup {None}
  /\ thread \in [Progs -> {"none", "test", "call", "run"}]
  /\ on \in [Progs -> Scenes \cup {None}]

Idle == inline = None /\ calls = <<>> /\ \A p \in Progs : place[p] # "releasing"

\* What keeps the threads apart: a frame, an inline run and a join take place
\* alone, and a thread is there for detached programs only.
ThreadsInv ==
  /\ frame # None => Idle /\ frame \in live
  /\ \A p \in Progs : place[p] = "releasing" => calls = <<>> /\ inline = None
  /\ inline # None => calls = <<>> /\ place[inline] = "joined"
  /\ \A p \in Progs :
       /\ frame # None /\ progress[p] # "done" => place[p] = "joined"
       /\ thread[p] # "none" => place[p] \in {"detached", "releasing"}

IInv == ScenesInv /\ ProgramsTypeOK /\ ThreadsInv
-----------------------------------------------------------------------------
\* What is left of a stack.
LEMMA FrontProperties ==
  ASSUME NEW S, NEW s \in Seq(S), s # <<>>
  PROVE  /\ Front(s) \in Seq(S) /\ Len(Front(s)) = Len(s) - 1
         /\ \A i \in 1 .. Len(s) - 1 : Front(s)[i] = s[i]
<1>1. Len(s) - 1 \in Nat /\ \A i \in 1 .. Len(s) - 1 : s[i] \in S
  OBVIOUS
<1>2. PICK k \in Nat : k = Len(s) - 1
  BY <1>1
<1>3. /\ k \in Int /\ 1 \in Int /\ \A i \in 1 .. k : s[i] \in S
  BY <1>1, <1>2
<1>4. Len(SubSeq(s, 1, k)) = IF 1 <= k THEN k - 1 + 1 ELSE 0
  BY ONLY <1>3, SubSeqProperties
<1>5. Len(Front(s)) = Len(s) - 1
  BY <1>1, <1>2, <1>4 DEF Front
<1>6. Front(s) \in Seq(S)
  BY DEF Front
<1>7. \A i \in 1 .. Len(s) - 1 : Front(s)[i] = s[i]
  BY DEF Front
<1>. QED
  BY <1>5, <1>6, <1>7

LEMMA InitIInv == ProgramsInit => IInv
BY ScenesAssumption, ProgramsAssumption
DEF ProgramsInit, SceneInit, IInv, ScenesInv, CurrentOK, Stage, ProgramsTypeOK, ThreadsInv, Idle

\* The innermost call is one of the calls.
LEMMA TopCall ==
  ASSUME ScenesInv, calls # <<>>
  PROVE  /\ Len(calls) \in Nat \ {0} /\ Len(calls) \in 1 .. Len(calls)
         /\ Top = calls[Len(calls)] /\ Top \in CallRecords /\ CallOK(Len(calls))
BY DEF ScenesInv, Top, Last

\* A call that begins: no handler runs while there is no current scene.
LEMMA PushKeeps ==
  ASSUME ScenesInv, ~Stage("reset"), live' = live, active' \in live, working' \in live,
         NEW r \in CallRecords, Push(r), r.scene \in live, r.old \in live,
         r.stage # "reset", r.stage = "flush" => calls = <<>>,
         r.stage \in {"ondestroy", "deleting"} => r.scene \notin InUse \cup {Global}
  PROVE  ScenesInv'
<1>0. PICK n \in Nat : n = Len(calls)
  BY DEF ScenesInv
<1>1. /\ calls' \in Seq(CallRecords) /\ Len(calls') = n + 1
      /\ calls'[n + 1] = r /\ calls' # <<>>
      /\ \A i \in 1 .. n : calls'[i] = calls[i]
  BY <1>0 DEF Push, ScenesInv
<1>2. Top' = r
  BY <1>1 DEF Top, Last
<1>3. CurrentOK'
  BY <1>2 DEF CurrentOK, Stage
<1>4. ASSUME NEW i, i = n + 1 PROVE CallOK(i)'
  <2>1. i - 1 = n /\ calls'[i] = r /\ i = Len(calls')
    BY <1>1, <1>4
  <2>2. r.stage = "flush" => i = 1
    BY <1>0, <1>4
  <2>3. ASSUME Destroying(i)', NEW j \in 1 .. n
        PROVE  r.scene # calls'[j].scene /\ r.scene # calls'[j].old
    <3>1. r.scene \notin InUse /\ j \in DOMAIN calls /\ calls'[j] = calls[j]
      BY <1>0, <1>1, <2>1, <2>3 DEF Destroying, ScenesInv
    <3>. QED
      BY <3>1 DEF InUse
  <2>. QED
    BY <2>1, <2>2, <2>3 DEF CallOK, Destroying
<1>5. ASSUME NEW i \in 1 .. n PROVE CallOK(i)'
  <2>1. CallOK(i) /\ calls'[i] = calls[i] /\ \A j \in 1 .. i - 1 : calls'[j] = calls[j]
    BY <1>0, <1>1, <1>5 DEF ScenesInv
  <2>2. calls[i].stage # "reset"
    <3>1. ASSUME calls[i].stage = "reset" PROVE Stage("reset")
      <4>1. i = Len(calls) /\ calls # <<>>
        BY <1>0, <2>1, <3>1 DEF CallOK
      <4>. QED
        BY <3>1, <4>1, TopCall DEF Stage
    <3>. QED
      BY <3>1
  <2>. QED
    BY <2>1, <2>2 DEF CallOK, Destroying
<1>6. \A i \in 1 .. n + 1 : i = n + 1 \/ i \in 1 .. n
  BY <1>1
<1>. QED
  BY <1>0, <1>1, <1>3, <1>4, <1>5, <1>6 DEF ScenesInv

\* A call that goes on to its next stage, or is replaced by the one it makes.
LEMMA ReplaceKeeps ==
  ASSUME ScenesInv, calls # <<>>, live' \subseteq Scenes, Global \in live',
         NEW r \in CallRecords, calls' = Append(Front(calls), r), r.stage # "flush",
         \A i \in 1 .. Len(calls) - 1 : calls[i].scene \in live' /\ calls[i].old \in live',
         r.stage \in {"ondestroy", "deleting"} => Destroying(Len(calls)) /\ r.scene = Top.scene,
         r.stage # "reset" => r.scene \in live' /\ r.old \in live',
         IF r.stage = "reset" THEN active' = None /\ working' = None
                              ELSE active' \in live' /\ working' \in live'
  PROVE  ScenesInv'
<1>0. PICK n \in Nat \ {0} : n = Len(calls)
  BY TopCall
<1>1. /\ Front(calls) \in Seq(CallRecords) /\ Len(Front(calls)) = n - 1
      /\ \A i \in 1 .. n - 1 : Front(calls)[i] = calls[i]
  BY <1>0, FrontProperties DEF ScenesInv
<1>2. Top = calls[n] /\ CallOK(n)
  BY <1>0, TopCall
<1>3. /\ calls' \in Seq(CallRecords) /\ Len(calls') = n /\ calls'[n] = r
      /\ \A i \in 1 .. n - 1 : calls'[i] = calls[i]
  BY <1>0, <1>1 DEF ScenesInv
<1>4. Top' = r /\ calls' # <<>>
  BY <1>0, <1>3 DEF Top, Last
<1>5. CurrentOK'
  BY <1>4 DEF CurrentOK, Stage
<1>6. CallOK(n)'
  BY <1>0, <1>2, <1>3 DEF CallOK, Destroying
<1>7. ASSUME NEW i \in 1 .. n - 1 PROVE CallOK(i)'
  <2>1. i \in 1 .. n /\ i # n /\ \A j \in 1 .. i - 1 : j \in 1 .. n - 1
    BY <1>0, <1>7
  <2>2. CallOK(i) /\ calls'[i] = calls[i] /\ \A j \in 1 .. i - 1 : calls'[j] = calls[j]
    BY <1>0, <1>3, <1>7, <2>1 DEF ScenesInv
  <2>3. calls[i].scene \in live' /\ calls[i].old \in live' /\ calls[i].stage # "reset"
    BY <1>0, <1>7, <2>1, <2>2 DEF CallOK
  <2>. QED
    BY <2>2, <2>3 DEF CallOK, Destroying
<1>8. \A i \in 1 .. n : i = n \/ i \in 1 .. n - 1
  BY <1>0
<1>. QED
  BY <1>3, <1>5, <1>6, <1>7, <1>8 DEF ScenesInv

\* A call that returns to the one it was made in.
LEMMA PopKeeps ==
  ASSUME ScenesInv, calls # <<>>, calls' = Front(calls), live' = live,
         active' \in live, working' \in live
  PROVE  ScenesInv'
<1>1. PICK n \in Nat \ {0} : n = Len(calls)
  BY TopCall
<1>2. /\ calls' \in Seq(CallRecords) /\ Len(calls') = n - 1
      /\ \A i \in 1 .. n - 1 : calls'[i] = calls[i]
  BY <1>1, FrontProperties DEF ScenesInv
<1>3. ASSUME NEW i \in 1 .. n - 1
      PROVE  /\ calls'[i] = calls[i] /\ calls[i].stage # "reset" /\ CallOK(i)
             /\ \A j \in 1 .. i - 1 : calls'[j] = calls[j]
  <2>1. i \in 1 .. n /\ i # n /\ \A j \in 1 .. i - 1 : j \in 1 .. n - 1
    BY <1>1, <1>3
  <2>2. CallOK(i)
    BY <1>1, <2>1 DEF ScenesInv
  <2>. QED
    BY <1>1, <1>2, <1>3, <2>1, <2>2 DEF CallOK
<1>4. \A i \in 1 .. n - 1 : CallOK(i)'
  BY <1>3 DEF CallOK, Destroying
<1>5. ~Stage("reset")'
  <2>1. CASE n - 1 = 0
    <3>1. calls' = <<>>
      BY <1>2, <2>1
    <3>. QED
      BY <3>1 DEF Stage
  <2>2. CASE n - 1 # 0
    <3>1. n - 1 \in 1 .. n - 1
      BY <1>1, <2>2
    <3>2. Top' = calls[n - 1]
      BY <1>2, <1>3, <3>1 DEF Top, Last
    <3>. QED
      BY <1>3, <3>1, <3>2 DEF Stage
  <2>. QED
    BY <2>1, <2>2
<1>. QED
  BY <1>2, <1>4, <1>5 DEF ScenesInv, CurrentOK
-----------------------------------------------------------------------------
(* Scenes.                                                                 *)

\* The scenes that calls in progress use.
LEMMA UsedAreLive ==
  ASSUME ScenesInv, calls # <<>>
  PROVE  /\ \A i \in 1 .. Len(calls) - 1 : calls[i].scene \in live /\ calls[i].old \in live
         /\ Top.stage # "reset" => Top.scene \in live /\ Top.old \in live
<1>1. Len(calls) \in Nat \ {0} /\ Top = calls[Len(calls)] /\ CallOK(Len(calls))
  BY TopCall
<1>2. ASSUME NEW i \in 1 .. Len(calls) - 1
      PROVE  calls[i].scene \in live /\ calls[i].old \in live
  <2>1. i \in 1 .. Len(calls) /\ i # Len(calls)
    BY <1>1, <1>2
  <2>2. CallOK(i)
    BY <2>1 DEF ScenesInv
  <2>. QED
    BY <2>1, <2>2 DEF CallOK
<1>. QED
  BY <1>1, <1>2 DEF CallOK

\* The record of a call in its next stage.
LEMMA NextStage ==
  ASSUME ScenesInv, calls # <<>>, NEW s \in CallStages, GoOn(s)
  PROVE  \E r \in CallRecords :
           r.stage = s /\ r.scene = Top.scene /\ r.old = Top.old /\ calls' = Append(Front(calls), r)
<1>1. Top \in CallRecords
  BY TopCall
<1>. QED
  BY <1>1 DEF GoOn, CallRecords

\* A call that returns from its handlers, in whichever stage it is.
LEMMA HandlersReturnKeeps ==
  ASSUME ScenesInv, HandlersReturn
  PROVE  ScenesInv'
<1>1. /\ calls # <<>> /\ Len(calls) \in Nat \ {0}
      /\ Top = calls[Len(calls)] /\ Top \in CallRecords /\ CallOK(Len(calls))
  BY TopCall DEF HandlersReturn, Deactivated, Activated, Destroyed, Deleted, Reset, Stage
<1>2. /\ \A i \in 1 .. Len(calls) - 1 : calls[i].scene \in live /\ calls[i].old \in live
      /\ Top.stage # "reset" => Top.scene \in live /\ Top.old \in live
      /\ live \subseteq Scenes /\ Global \in live
  BY <1>1, UsedAreLive DEF ScenesInv
<1>3. CASE Deactivated
  <2>1. /\ Top.stage = "ondeactivate" /\ live' = live
        /\ active' = Top.scene /\ working' = Top.scene
    BY <1>3 DEF Deactivated, Stage
  <2>2. PICK r \in CallRecords : /\ r.stage = "onactivate" /\ r.scene = Top.scene
                                 /\ r.old = Top.old /\ calls' = Append(Front(calls), r)
    BY <1>1, <1>3, NextStage DEF Deactivated, CallStages
  <2>. QED
    BY <1>1, <1>2, <2>1, <2>2, ReplaceKeeps
<1>4. CASE Activated
  BY <1>1, <1>2, <1>4, PopKeeps DEF Activated, Stage, ScenesInv, CurrentOK
<1>5. CASE Destroyed
  <2>1. /\ Top.stage = "ondestroy" /\ live' = live /\ active' = active /\ working' = working
        /\ active \in live /\ working \in live
    BY <1>5 DEF Destroyed, Stage, ScenesInv, CurrentOK
  <2>2. PICK r \in CallRecords : /\ r.stage = "deleting" /\ r.scene = Top.scene
                                 /\ r.old = Top.old /\ calls' = Append(Front(calls), r)
    BY <1>1, <1>5, NextStage DEF Destroyed, CallStages
  <2>3. Destroying(Len(calls))
    BY <1>1, <2>1 DEF Destroying
  <2>. QED
    BY <1>1, <1>2, <2>1, <2>2, <2>3, ReplaceKeeps
<1>6. CASE Deleted
  <2>1. /\ Top.stage = "deleting" /\ live' = live \ {Top.scene}
        /\ active' = None /\ working' = None
    BY <1>6 DEF Deleted, Stage
  <2>2. PICK r \in CallRecords : r.stage = "reset" /\ calls' = Append(Front(calls), r)
    BY <1>1, <1>6, NextStage DEF Deleted, CallStages
  <2>3. /\ Top.scene # Global
        /\ \A i \in 1 .. Len(calls) - 1 : Top.scene # calls[i].scene /\ Top.scene # calls[i].old
    BY <1>1, <2>1 DEF CallOK, Destroying
  <2>4. \A i \in 1 .. Len(calls) - 1 : calls[i].scene \in live' /\ calls[i].old \in live'
    BY <1>2, <2>1, <2>3
  <2>. QED
    BY <1>1, <1>2, <2>1, <2>2, <2>3, <2>4, ReplaceKeeps
<1>7. CASE Reset
  <2> DEFINE r == [stage |-> "onactivate", scene |-> Global, old |-> Global]
  <2>1. live' = live /\ active' = Global /\ working' = Global /\ calls' = Append(Front(calls), r)
    BY <1>7 DEF Reset
  <2>2. /\ r \in CallRecords /\ r.stage = "onactivate" /\ r.scene = Global /\ r.old = Global
    BY ScenesAssumption DEF CallRecords, CallStages
  <2>. HIDE DEF r
  <2>. QED
    BY <1>1, <1>2, <2>1, <2>2, ReplaceKeeps
<1>. QED
  BY <1>3, <1>4, <1>5, <1>6, <1>7 DEF HandlersReturn

\* What the host and handlers may call.
LEMMA SceneCallKeeps ==
  ASSUME ScenesInv, ~Stage("reset"), SceneCall \/ \E s \in Scenes : scene_destroy(s)
  PROVE  ScenesInv'
<1>1. live \subseteq Scenes /\ active \in live /\ working \in live
  BY DEF ScenesInv, CurrentOK
<1>2. ASSUME calls' = calls, live \subseteq live', live' \subseteq Scenes,
             active' \in live', working' \in live'
      PROVE  ScenesInv'
  <2>1. ~Stage("reset")'
    BY <1>2 DEF Stage, Top
  <2>2. \A i \in 1 .. Len(calls) : CallOK(i)'
    BY <1>2 DEF ScenesInv, CallOK, Destroying
  <2>. QED
    BY <1>2, <2>1, <2>2 DEF ScenesInv, CurrentOK
<1>3. ASSUME NEW s \in Scenes, scene_create(s) \/ scene_set(s)
      PROVE  ScenesInv'
  BY <1>1, <1>2, <1>3 DEF scene_create, scene_set
<1>4. CASE scene_reset
  BY <1>1, <1>2, <1>4 DEF scene_reset
<1>5. ASSUME NEW s \in Scenes, scene_activate(s)
      PROVE  ScenesInv'
  <2> DEFINE r == [stage |-> "ondeactivate", scene |-> s, old |-> active]
  <2>1. /\ r \in CallRecords /\ r.scene \in live /\ r.old \in live
        /\ r.stage = "ondeactivate" /\ Push(r) /\ UNCHANGED <<live, active, working>>
    BY <1>1, <1>5 DEF scene_activate, CallRecords, CallStages
  <2>. HIDE DEF r
  <2>. QED
    BY <1>1, <2>1, PushKeeps
<1>6. ASSUME NEW s \in Scenes, scene_destroy(s)
      PROVE  ScenesInv'
  <2> DEFINE r == [stage |-> "ondestroy", scene |-> s, old |-> s]
  <2>1. /\ r \in CallRecords /\ r.scene \in live /\ r.old \in live /\ r.stage = "ondestroy"
        /\ r.scene \notin InUse \cup {Global} /\ Push(r)
        /\ UNCHANGED <<live, active, working>>
    BY <1>6 DEF scene_destroy, CallRecords, CallStages
  <2>. HIDE DEF r
  <2>. QED
    BY <1>1, <2>1, PushKeeps
<1>. QED
  BY <1>3, <1>4, <1>5, <1>6 DEF SceneCall
-----------------------------------------------------------------------------
(* Programs and their threads.                                             *)

\* A call of the API, or a return from handlers: no frame and no join goes on.
LEMMA SceneStepKeeps ==
  ASSUME IInv, ScenesInv', UNCHANGED programVars, frame = None, inline = None,
         \A p \in Progs : place[p] # "releasing"
  PROVE  IInv'
<1>1. ProgramsTypeOK'
  BY DEF IInv, ProgramsTypeOK, programVars
<1>2. ThreadsInv'
  BY DEF IInv, ThreadsInv, programVars
<1>. QED
  BY <1>1, <1>2 DEF IInv

LEMMA ScenesSame ==
  ASSUME ScenesInv, UNCHANGED sceneVars
  PROVE  ScenesInv' /\ calls' = calls /\ live' = live
BY DEF ScenesInv, CurrentOK, CallOK, Stage, Top, sceneVars, Destroying

LEMMA SceningKeeps ==
  ASSUME IInv, Scening
  PROVE  IInv'
BY SceneCallKeeps, SceneStepKeeps DEF IInv, Scening, InUserCode

\* Handlers run while there is no frame, no inline run and no join.
LEMMA InCall ==
  ASSUME IInv, calls # <<>>
  PROVE  frame = None /\ inline = None /\ \A p \in Progs : place[p] # "releasing"
BY DEF IInv, ThreadsInv, Idle

\* A flush begins outside all handlers, and the frame on the scene it leaves.
LEMMA RunProgramsKeeps ==
  ASSUME IInv, RunPrograms
  PROVE  IInv'
<1>1. calls # <<>> /\ Top.stage = "flush" /\ calls' = Front(calls) /\ live' = live
      /\ active' = active /\ working' = working
  BY DEF RunPrograms, Stage
<1>2. ScenesInv /\ active \in live /\ working \in live /\ working \in Scenes
  BY <1>1 DEF IInv, ScenesInv, CurrentOK, Stage
<1>3. ScenesInv'
  BY <1>1, <1>2, PopKeeps
<1>4. calls' = <<>>
  <2>1. Len(calls) = 1 /\ calls \in Seq(CallRecords)
    BY <1>1, <1>2, TopCall DEF CallOK, ScenesInv
  <2>2. Front(calls) \in Seq(CallRecords) /\ Len(Front(calls)) = Len(calls) - 1
    BY <1>1, <2>1, FrontProperties
  <2>. QED
    BY <1>1, <2>1, <2>2
<1>5. frame = None /\ inline = None /\ \A p \in Progs : place[p] # "releasing"
  BY <1>1, InCall
<1>6. /\ frame' = working /\ UNCHANGED <<place, inline, is_running, thread, on>>
      /\ progress' = [p \in Progs |-> IF InFrame(p) THEN "ready" ELSE "done"]
  BY DEF RunPrograms
<1>7. ProgramsTypeOK'
  BY <1>2, <1>6 DEF IInv, ProgramsTypeOK
<1>8. ThreadsInv'
  BY <1>1, <1>2, <1>4, <1>5, <1>6 DEF IInv, ThreadsInv, Idle, InFrame
<1>. QED
  BY <1>3, <1>7, <1>8 DEF IInv

LEMMA ReturningKeeps ==
  ASSUME IInv, Returning
  PROVE  IInv'
<1>1. CASE HandlersReturn /\ UNCHANGED programVars
  <2>1. calls # <<>>
    BY <1>1 DEF HandlersReturn, Deactivated, Activated, Destroyed, Deleted, Reset, Stage
  <2>2. frame = None /\ inline = None /\ \A p \in Progs : place[p] # "releasing"
    BY <2>1, InCall
  <2>. QED
    BY <1>1, <2>2, HandlersReturnKeeps, SceneStepKeeps DEF IInv
<1>. QED
  BY <1>1, RunProgramsKeeps DEF Returning

\* The host creates, detaches, joins and runs programs.
LEMMA HostKeeps ==
  ASSUME IInv, NEW p \in Progs,
         CreateProgram(p) \/ DetatchProgram(p) \/ Release(p) \/ Joined(p) \/ RunProgram(p)
  PROVE  IInv'
<1>1. ScenesInv' /\ calls' = calls /\ live' = live
  BY ScenesSame DEF IInv, CreateProgram, DetatchProgram, Release, Joined, RunProgram
<1>2. CASE CreateProgram(p)
  <2>1. ProgramsTypeOK'
    BY <1>2 DEF IInv, ProgramsTypeOK, CreateProgram
  <2>2. ThreadsInv'
    BY <1>1, <1>2 DEF IInv, ThreadsInv, ProgramsTypeOK, CreateProgram, InHost, InUserCode
  <2>. QED
    BY <1>1, <2>1, <2>2 DEF IInv
<1>3. CASE DetatchProgram(p)
  <2>1. ProgramsTypeOK'
    BY <1>3 DEF IInv, ProgramsTypeOK, DetatchProgram
  <2>2. ThreadsInv'
    BY <1>1, <1>3 DEF IInv, ThreadsInv, ProgramsTypeOK, DetatchProgram, InHost, InUserCode
  <2>. QED
    BY <1>1, <2>1, <2>2 DEF IInv
<1>4. CASE Release(p)
  <2>1. ProgramsTypeOK'
    BY <1>4 DEF IInv, ProgramsTypeOK, Release
  <2>2. ThreadsInv'
    BY <1>1, <1>4 DEF IInv, ThreadsInv, ProgramsTypeOK, Release, InHost, InUserCode
  <2>. QED
    BY <1>1, <2>1, <2>2 DEF IInv
<1>5. CASE Joined(p)
  <2>1. ProgramsTypeOK'
    BY <1>5 DEF IInv, ProgramsTypeOK, Joined
  <2>2. frame = None /\ inline = None /\ calls = <<>> /\ thread[p] = "none"
    BY <1>5 DEF IInv, ThreadsInv, Idle, Joined, ThreadEnded
  <2>3. ThreadsInv'
    BY <1>1, <1>5, <2>2 DEF IInv, ThreadsInv, ProgramsTypeOK, Joined
  <2>. QED
    BY <1>1, <2>1, <2>3 DEF IInv
<1>6. CASE RunProgram(p)
  <2>1. ProgramsTypeOK'
    BY <1>6 DEF IInv, ProgramsTypeOK, RunProgram
  <2>2. ThreadsInv'
    BY <1>1, <1>6 DEF IInv, ThreadsInv, ProgramsTypeOK, RunProgram, InHost, InUserCode
  <2>. QED
    BY <1>1, <2>1, <2>2 DEF IInv
<1>. QED
  BY <1>2, <1>3, <1>4, <1>5, <1>6

LEMMA ReturnKeeps ==
  ASSUME IInv, ProgramReturns
  PROVE  IInv'
<1>1. ScenesInv' /\ calls' = calls /\ live' = live
  BY ScenesSame DEF IInv, ProgramReturns
<1>2. ProgramsTypeOK'
  BY DEF IInv, ProgramsTypeOK, ProgramReturns
<1>3. ThreadsInv'
  BY <1>1 DEF IInv, ThreadsInv, Idle, ProgramReturns
<1>. QED
  BY <1>1, <1>2, <1>3 DEF IInv

LEMMA BeginFrameKeeps ==
  ASSUME IInv, BeginFrame
  PROVE  IInv'
<1> DEFINE r == [stage |-> "flush", scene |-> active, old |-> active]
<1>1. /\ ScenesInv /\ calls = <<>> /\ ~Stage("reset") /\ UNCHANGED programVars
      /\ frame = None /\ inline = None /\ \A p \in Progs : place[p] # "releasing"
  BY DEF IInv, BeginFrame, InHost, InUserCode
<1>2. /\ live' = live /\ active' = active /\ working' = active /\ Push(r)
      /\ active \in live /\ active \in Scenes
  BY <1>1 DEF BeginFrame, ScenesInv, CurrentOK
<1>3. r \in CallRecords /\ r.stage = "flush" /\ r.scene = active /\ r.old = active
  BY <1>2 DEF CallRecords, CallStages
<1>. HIDE DEF r
<1>4. ScenesInv'
  BY <1>1, <1>2, <1>3, PushKeeps
<1>. QED
  BY <1>1, <1>4, SceneStepKeeps

LEMMA FrameStepKeeps ==
  ASSUME IInv, EndFrame \/ \E p \in Progs : FrameStep(p)
  PROVE  IInv'
<1>1. ScenesInv' /\ calls' = calls /\ live' = live
  BY ScenesSame DEF IInv, EndFrame, FrameStep, StartProgram, FinishProgram
<1>2. CASE EndFrame
  <2>1. ProgramsTypeOK'
    BY <1>2 DEF IInv, ProgramsTypeOK, EndFrame
  <2>2. ThreadsInv'
    BY <1>1, <1>2 DEF IInv, ThreadsInv, EndFrame
  <2>. QED
    BY <1>1, <2>1, <2>2 DEF IInv
<1>3. ASSUME NEW p \in Progs, FrameStep(p)
      PROVE  IInv'
  <2>1. /\ frame # None /\ progress[p] # "done"
        /\ UNCHANGED <<place, frame, inline, thread, on>>
    BY <1>3 DEF FrameStep, StartProgram, FinishProgram
  <2>2. PICK now \in {"running", "done"} : progress' = [progress EXCEPT ![p] = now]
    BY <1>3 DEF FrameStep, StartProgram, FinishProgram
  <2>3. ProgramsTypeOK'
    BY <2>1, <2>2 DEF IInv, ProgramsTypeOK
  <2>4. ThreadsInv'
    BY <1>1, <2>1, <2>2 DEF IInv, ThreadsInv, ProgramsTypeOK, Idle
  <2>. QED
    BY <1>1, <2>3, <2>4 DEF IInv
<1>. QED
  BY <1>2, <1>3

LEMMA ThreadStepKeeps ==
  ASSUME IInv, NEW p \in Progs, ThreadStep(p)
  PROVE  IInv'
<1>1. ScenesInv' /\ calls' = calls /\ live' = live
  BY ScenesSame DEF IInv, ThreadStep, TestRunning, CallProgram, EndRun
<1>2. working \in Scenes \cup {None}
  BY DEF IInv, ScenesInv, CurrentOK
<1>3. thread[p] # "none" /\ UNCHANGED <<place, frame, progress, inline>>
  BY DEF ThreadStep, TestRunning, CallProgram, EndRun
<1>4. CASE TestRunning(p)
  <2>1. ProgramsTypeOK'
    BY <1>4 DEF IInv, ProgramsTypeOK, TestRunning
  <2>2. ThreadsInv'
    BY <1>1, <1>3, <1>4 DEF IInv, ThreadsInv, ProgramsTypeOK, Idle, TestRunning
  <2>. QED
    BY <1>1, <2>1, <2>2 DEF IInv
<1>5. CASE CallProgram(p)
  <2>1. ProgramsTypeOK'
    BY <1>2, <1>5 DEF IInv, ProgramsTypeOK, CallProgram
  <2>2. ThreadsInv'
    BY <1>1, <1>2, <1>3, <1>5 DEF IInv, ThreadsInv, ProgramsTypeOK, Idle, CallProgram
  <2>. QED
    BY <1>1, <2>1, <2>2 DEF IInv
<1>6. CASE EndRun(p)
  <2>1. ProgramsTypeOK'
    BY <1>6 DEF IInv, ProgramsTypeOK, EndRun
  <2>2. ThreadsInv'
    BY <1>1, <1>3, <1>6 DEF IInv, ThreadsInv, ProgramsTypeOK, Idle, EndRun
  <2>. QED
    BY <1>1, <2>1, <2>2 DEF IInv
<1>. QED
  BY <1>4, <1>5, <1>6 DEF ThreadStep

LEMMA NextIInv == IInv /\ [ProgramsNext]_allVars => IInv'
<1>. SUFFICES ASSUME IInv, [ProgramsNext]_allVars PROVE IInv'
  OBVIOUS
<1>1. CASE UNCHANGED allVars
  <2>1. ScenesInv' /\ calls' = calls /\ live' = live
    BY <1>1, ScenesSame DEF IInv, allVars
  <2>2. ProgramsTypeOK'
    BY <1>1 DEF IInv, ProgramsTypeOK, allVars, programVars
  <2>3. ThreadsInv'
    BY <1>1, <2>1 DEF IInv, ThreadsInv, Idle, allVars, programVars
  <2>. QED
    BY <2>1, <2>2, <2>3 DEF IInv
<1>2. CASE Scening \/ Returning \/ BeginFrame
  BY <1>2, SceningKeeps, ReturningKeeps, BeginFrameKeeps
<1>3. CASE HostWaits
  BY <1>3, ReturnKeeps, FrameStepKeeps, HostKeeps DEF HostWaits
<1>4. ASSUME NEW p \in Progs,
             \/ CreateProgram(p) \/ DetatchProgram(p) \/ Release(p) \/ RunProgram(p)
             \/ FrameStep(p) \/ ThreadStep(p)
      PROVE  IInv'
  BY <1>4, HostKeeps, FrameStepKeeps, ThreadStepKeeps
<1>. QED
  BY <1>1, <1>2, <1>3, <1>4 DEF ProgramsNext

LEMMA Invariance == ProgramsSpec => []IInv
BY InitIInv, NextIInv, PTL DEF ProgramsSpec
-----------------------------------------------------------------------------
\* PrivateUniverse: whatever handlers call within handlers, the active and the
\* working scene exist whenever code of users runs.
THEOREM CurrentScenesExist == ProgramsSpec => []CurrentScenesLive
<1>1. IInv => CurrentScenesLive
  BY DEF IInv, ScenesInv, CurrentOK, CurrentScenesLive
<1>. QED
  BY <1>1, Invariance, PTL

\* ProgramRegistry and ProgramThread: the frame, the thread a program was
\* detached to and the host never run one program at the same time.
THEOREM ProgramsHaveOneRunner == ProgramsSpec => []OneRunner
<1>1. IInv => OneRunner
  BY ProgramsAssumption
  DEF IInv, ThreadsInv, Idle, ProgramsTypeOK, OneRunner, RunsInFrame, RunsDetached
<1>. QED
  BY <1>1, Invariance, PTL

\* game_state_fn, JoinProgram and scene_destroy: frames run on scenes that exist, and
\* a detached program gets to a destroyed scene, or to none, only if it is still
\* detached while a scene is destroyed.
THEOREM ProgramsRunOnLiveScenes == ProgramsSpec => RunOnLiveScenes
<1>1. ASSUME IInv, IInv', [ProgramsNext]_allVars
      PROVE  frame' # None => frame' \in live'
  BY <1>1 DEF IInv, ThreadsInv
<1>2. ASSUME IInv, IInv', [ProgramsNext]_allVars, NEW p \in Progs, Lost(p)', ~Lost(p)
      PROVE  place[p] = "detached" /\ InDestroy
  <2>1. ASSUME InDestroy, thread[p] # "none"
        PROVE  place[p] = "detached"
    BY <1>2, <2>1 DEF IInv, ThreadsInv, InDestroy, Stage
  <2>2. thread'[p] = "run" /\ on'[p] \notin live'
    BY <1>2 DEF Lost, RunsDetached
  <2>3. CASE CallProgram(p)
    <3>1. thread[p] = "call" /\ working \notin live
      BY <1>2, <2>2, <2>3 DEF CallProgram, sceneVars, IInv, ProgramsTypeOK
    <3>2. Stage("reset")
      BY <1>2, <3>1 DEF IInv, ScenesInv, CurrentOK
    <3>. QED
      BY <2>1, <3>1, <3>2 DEF InDestroy
  <2>4. CASE ~CallProgram(p)
    <3>1. thread[p] = "run" /\ on[p] = on'[p]
      BY <1>2, <2>2, <2>4 DEF IInv, ProgramsTypeOK, ProgramsNext, Scening, Returning, BeginFrame,
         RunPrograms, HostWaits, ProgramReturns, EndFrame, Joined, CreateProgram, DetatchProgram,
         Release, RunProgram, FrameStep, StartProgram, FinishProgram, ThreadStep, TestRunning,
         CallProgram, EndRun, programVars, allVars
    <3>2. on[p] \in live /\ on[p] \notin live'
      BY <1>2, <2>2, <3>1 DEF Lost, RunsDetached
    <3>3. Deleted
      BY <1>2, <3>2 DEF ProgramsNext, Scening, SceneCall, scene_create, scene_set, scene_reset,
         scene_activate, scene_destroy, Returning, HandlersReturn, Deactivated, Activated, Destroyed,
         Reset, BeginFrame, RunPrograms, HostWaits, ProgramReturns, EndFrame, Joined, CreateProgram,
         DetatchProgram, Release, RunProgram, FrameStep, StartProgram, FinishProgram, ThreadStep,
         TestRunning, CallProgram, EndRun, sceneVars, allVars
    <3>. QED
      BY <2>1, <3>1, <3>3 DEF InDestroy, Deleted
  <2>. QED
    BY <2>3, <2>4
<1>3. IInv /\ IInv' /\ [ProgramsNext]_allVars =>
        [ /\ frame' # None => frame' \in live'
          /\ \A p \in Progs :
               Lost(p)' => Lost(p) \/ (place[p] = "detached" /\ InDestroy) ]_allVars
  BY <1>1, <1>2
<1>. QED
  BY <1>3, Invariance, PTL DEF ProgramsSpec, RunOnLiveScenes
-----------------------------------------------------------------------------
(* Coroutines.                                                             *)

Contexts == Coros \cup {Sync}

CoroTypes ==
  /\ kind \in [Coros -> {"none", "sync", "async", "own", "destroyed"}]
  /\ home \in [Coros -> Threads \cup {Nobody}]
  /\ cur \in [Threads -> Contexts \cup Threads]
  /\ value \in [Threads -> Values]
  /\ parent \in [Contexts -> Contexts \cup Threads \cup {Nobody}]
  /\ is_done \in [Coros -> BOOLEAN]
  /\ ret \in [Coros -> Values]
  /\ coros \in Seq(Coros) /\ new_coros \in Seq(Coros)
  /\ delete_coros \in Seq(Coros) /\ tasks \in Seq(Coros)
  /\ pos \in Nat \ {0}
  /\ job \in [Workers -> Coros \cup {Nobody}]
  /\ called \in BOOLEAN
  /\ passed \in [Coros -> SUBSET Coros]

\* What a thread may have in progress: the coroutines it made itself; on the
\* main thread the scheduler, called by the host, and the one of the list that
\* the pass has come to; on a worker the task it has taken.
BelongsTo(c, t) ==
  \/ c = Sync /\ t = Main /\ parent[Sync] = Main
  \/ /\ c \in Coros /\ ~is_done[c]
     /\ \/ kind[c] = "own" /\ home[c] = t
        \/ kind[c] = "sync" /\ t = Main /\ called /\ pos <= Len(coros) /\ coros[pos] = c
        \/ kind[c] = "async" /\ t \in Workers /\ job[t] = c

\* The contexts S hold the one that runs, and whom each of them would yield to.
Held(t, S) ==
  /\ S \subseteq Contexts /\ cur[t] \in S \cup {t}
  /\ \A c \in S : parent[c] \in S \cup {t} /\ BelongsTo(c, t)

StackInv == \A t \in Threads : \E S \in SUBSET Contexts : Held(t, S)

NoRepeat(s) == \A i, j \in 1 .. Len(s) : s[i] = s[j] => i = j

ListInv ==
  /\ NoRepeat(coros) /\ NoRepeat(new_coros)
  /\ pos <= Len(coros) + 1 /\ (called => pos <= Len(coros))
  /\ \A i \in 1 .. Len(coros) :
       /\ kind[coros[i]] \in {"sync", "destroyed"}
       /\ is_done[coros[i]] => \/ i < pos /\ coros[i] \in ToSet(delete_coros)
                               \/ i = pos /\ called
  /\ \A i \in 1 .. Len(new_coros) :
       /\ kind[new_coros[i]] = "sync" /\ ~is_done[new_coros[i]]
       /\ \A j \in 1 .. Len(coros) : coros[j] # new_coros[i]

JobsInv ==
  /\ NoRepeat(tasks)
  /\ \A i \in 1 .. Len(tasks) :
       /\ kind[tasks[i]] = "async" /\ ~is_done[tasks[i]]
       /\ \A w \in Workers : job[w] # tasks[i]
  /\ \A w \in Workers : job[w] \in Coros =>
       kind[job[w]] = "async" /\ \A v \in Workers : job[v] = job[w] => v = w

AnswerInv ==
  \A c \in Coros :
    /\ kind[c] = "none" => ~is_done[c]
    /\ kind[c] = "destroyed" => ret[c] # Unset
    /\ ret[c] # Unset =>
         /\ is_done[c]
         /\ \A i \in pos .. Len(coros) : coros[i] # c
         /\ \A w \in Workers : job[w] # c

\* Those that have had their turn of the pass, and the one that has it.
Turns == IF called THEN pos ELSE pos - 1

\* Who has had a turn since the last one of another: of two before the place of
\* the pass, or of two after it, the later one; otherwise the one before it.
PassedInv ==
  /\ \A i, j \in 1 .. Len(coros) : coros[i] \in passed[coros[j]] =>
       \/ i <= Turns /\ Turns < j
       \/ j < i /\ (i <= Turns \/ Turns < j)
  /\ \A d \in Coros : \A c \in passed[d] :
       /\ kind[c] \in {"sync", "destroyed"}
       /\ \A i \in 1 .. Len(new_coros) : new_coros[i] # c
  /\ \A d \in Coros : kind[d] = "none" => passed[d] = {}
  /\ \A i \in 1 .. Len(new_coros) : passed[new_coros[i]] = {}

QueuesInv == ListInv /\ JobsInv /\ AnswerInv
CoroInv == CoroTypes /\ QueuesInv /\ StackInv /\ PassedInv

-----------------------------------------------------------------------------
LEMMA ListMembers ==
  ASSUME NEW S, NEW s \in Seq(S), NEW x
  PROVE  x \in ToSet(s) <=> \E i \in 1 .. Len(s) : s[i] = x
<1>1. DOMAIN s = 1 .. Len(s)
  OBVIOUS
<1>2. QED
  BY <1>1 DEF ToSet

LEMMA ListPush ==
  ASSUME NEW S, NEW s \in Seq(S), NEW x \in S
  PROVE  /\ Append(s, x) \in Seq(S) /\ Len(Append(s, x)) = Len(s) + 1
         /\ \A i \in 1 .. Len(s) : Append(s, x)[i] = s[i]
         /\ Append(s, x)[Len(s) + 1] = x
         /\ \A i \in 1 .. Len(s) + 1 : i \in 1 .. Len(s) \/ i = Len(s) + 1
  OBVIOUS

LEMMA ListPop ==
  ASSUME NEW S, NEW s \in Seq(S), s # <<>>
  PROVE  /\ 1 \in 1 .. Len(s) /\ Head(s) = s[1] /\ Head(s) \in S
         /\ Tail(s) \in Seq(S) /\ Len(Tail(s)) = Len(s) - 1
         /\ \A i \in 1 .. Len(Tail(s)) : i + 1 \in 1 .. Len(s) /\ Tail(s)[i] = s[i + 1]
  OBVIOUS

LEMMA CoroNames ==
  /\ Main \in Threads /\ Workers \subseteq Threads /\ Main \notin Workers
  /\ \A t \in Threads : t \notin Coros /\ t # Sync /\ t \notin Contexts
  /\ Sync \in Contexts /\ Sync \notin Coros /\ Coros \subseteq Contexts
  /\ Nobody \notin Coros /\ Nobody # Sync /\ Nobody \notin Contexts
BY CoroAssumption DEF Threads, Contexts

LEMMA InitCoroInv == CoroInit => CoroInv
<1> SUFFICES ASSUME CoroInit PROVE CoroInv
  OBVIOUS
<1> USE CoroNames DEF CoroInit
<1>1. CoroTypes
  <2>1. /\ <<>> \in Seq(Coros) /\ 1 \in Nat \ {0} /\ FALSE \in BOOLEAN
        /\ Unset \in Values /\ {} \in SUBSET Coros
    BY DEF Values
  <2>2. /\ kind \in [Coros -> {"none", "sync", "async", "own", "destroyed"}]
        /\ home \in [Coros -> Threads \cup {Nobody}]
        /\ cur \in [Threads -> Contexts \cup Threads]
        /\ parent \in [Contexts -> Contexts \cup Threads \cup {Nobody}]
        /\ job \in [Workers -> Coros \cup {Nobody}]
    BY DEF Contexts
  <2>3. /\ value \in [Threads -> Values] /\ is_done \in [Coros -> BOOLEAN]
        /\ ret \in [Coros -> Values] /\ passed \in [Coros -> SUBSET Coros]
    BY <2>1
  <2>4. QED
    BY <2>1, <2>2, <2>3 DEF CoroTypes
<1>2. QueuesInv
  <2>1. Len(coros) = 0 /\ Len(new_coros) = 0 /\ Len(tasks) = 0
    OBVIOUS
  <2>2. ListInv
    BY <2>1 DEF ListInv, NoRepeat
  <2>3. JobsInv
    BY <2>1 DEF JobsInv, NoRepeat
  <2>4. AnswerInv
    BY <2>1 DEF AnswerInv, Values
  <2>5. QED
    BY <2>2, <2>3, <2>4 DEF QueuesInv
<1>3. StackInv
  <2>1. \A t \in Threads : Held(t, {})
    BY DEF Held
  <2>2. QED
    BY <2>1 DEF StackInv
<1>4. PassedInv
  <2>1. Len(coros) = 0 /\ Len(new_coros) = 0
    OBVIOUS
  <2>2. QED
    BY <2>1 DEF PassedInv
<1>5. QED
  BY <1>1, <1>2, <1>3, <1>4 DEF CoroInv

\* A context is in progress on one thread at most.
LEMMA BelongsToOne ==
  ASSUME CoroTypes, JobsInv, NEW t \in Threads, NEW u \in Threads,
         NEW c \in Contexts, BelongsTo(c, t), BelongsTo(c, u)
  PROVE  t = u
<1>1. CASE c = Sync
  BY <1>1, CoroNames DEF BelongsTo
<1>2. CASE c \in Coros
  BY <1>2, CoroNames DEF BelongsTo, JobsInv, CoroTypes
<1>3. QED
  BY <1>1, <1>2 DEF Contexts

\* A step of one thread leaves the others as they are.
LEMMA OthersKeep ==
  ASSUME StackInv, NEW t \in Threads, NEW S \in SUBSET Contexts, Held(t, S)',
         \A u \in Threads \ {t} :
           /\ cur'[u] = cur[u]
           /\ \A c \in Contexts : BelongsTo(c, u) =>
                parent'[c] = parent[c] /\ BelongsTo(c, u)'
  PROVE  StackInv'
<1>1. ASSUME NEW u \in Threads PROVE \E R \in SUBSET Contexts : Held(u, R)'
  <2>1. CASE u = t
    BY <2>1
  <2>2. CASE u # t
    <3>1. PICK R \in SUBSET Contexts : Held(u, R)
      BY DEF StackInv
    <3>2. /\ R \subseteq Contexts /\ cur[u] \in R \cup {u}
          /\ \A c \in R : parent[c] \in R \cup {u} /\ BelongsTo(c, u)
      BY <3>1 DEF Held
    <3>3. cur'[u] = cur[u]
      BY <2>2
    <3>4. \A c \in R : parent'[c] \in R \cup {u} /\ BelongsTo(c, u)'
      BY <3>2, <2>2
    <3>5. Held(u, R)'
      BY <3>2, <3>3, <3>4 DEF Held
    <3>6. QED
      BY <3>5
  <2>3. QED
    BY <2>1, <2>2
<1>2. QED
  BY <1>1 DEF StackInv

\* A body that runs has not ended.
LEMMA BodyRuns ==
  ASSUME CoroTypes, StackInv, NEW t \in Threads, cur[t] \in Coros
  PROVE  /\ BelongsTo(cur[t], t) /\ ~is_done[cur[t]]
         /\ kind[cur[t]] \in {"sync", "async", "own"}
<1>1. PICK S \in SUBSET Contexts : Held(t, S)
  BY DEF StackInv
<1>2. cur[t] \in S
  BY <1>1, CoroNames DEF Held
<1>3. BelongsTo(cur[t], t)
  BY <1>1, <1>2 DEF Held
<1>4. QED
  BY <1>3, CoroNames DEF BelongsTo

\* What no step of a body or of a scheduler but those that follow disturbs.
LEMMA QueuesSame ==
  ASSUME QueuesInv, PassedInv,
         UNCHANGED <<kind, is_done, ret, coros, pos, delete_coros, new_coros, passed,
                     tasks, job, called>>
  PROVE  QueuesInv' /\ PassedInv'
<1>1. ListInv' /\ JobsInv'
  BY DEF QueuesInv, ListInv, JobsInv, NoRepeat
<1>2. AnswerInv'
  BY DEF QueuesInv, AnswerInv
<1>3. PassedInv'
  BY DEF PassedInv, Turns
<1>4. QED
  BY <1>1, <1>2, <1>3 DEF QueuesInv

\* Going back to the caller.
LEMMA YieldKeeps ==
  ASSUME CoroTypes, StackInv, NEW t \in Threads, cur[t] \in Contexts, coro_yield(t),
         UNCHANGED <<kind, home, is_done, coros, pos, job, called>>
  PROVE  /\ cur' \in [Threads -> Contexts \cup Threads] /\ value' \in [Threads -> Values]
         /\ StackInv'
<1>1. PICK S \in SUBSET Contexts : Held(t, S)
  BY DEF StackInv
<1>2. /\ S \subseteq Contexts /\ cur[t] \in S
      /\ \A c \in S : parent[c] \in S \cup {t} /\ BelongsTo(c, t)
  BY <1>1, CoroNames DEF Held
<1>3. /\ cur' = [cur EXCEPT ![t] = parent[cur[t]]]
      /\ value' = [value EXCEPT ![t] = Unset] /\ parent' = parent
  BY DEF coro_yield, SwitchTo
<1>4. cur'[t] = parent[cur[t]] /\ \A u \in Threads \ {t} : cur'[u] = cur[u]
  BY <1>3 DEF CoroTypes
<1>5. \A c \in Contexts : \A u \in Threads : BelongsTo(c, u) => BelongsTo(c, u)'
  BY <1>3 DEF BelongsTo
<1>6. Held(t, S)'
  <2>1. cur'[t] \in S \cup {t}
    BY <1>2, <1>4
  <2>2. \A c \in S : parent'[c] \in S \cup {t} /\ BelongsTo(c, t)'
    BY <1>2, <1>3, <1>5
  <2>3. QED
    BY <1>2, <2>1, <2>2 DEF Held
<1>7. StackInv'
  BY <1>3, <1>4, <1>5, <1>6, OthersKeep
<1>8. cur' \in [Threads -> Contexts \cup Threads]
  BY <1>2, <1>3 DEF CoroTypes
<1>9. value' \in [Threads -> Values]
  BY <1>3 DEF CoroTypes, Values
<1>10. QED
  BY <1>7, <1>8, <1>9

\* Calling a context that nobody has in progress, or that the thread has.
LEMMA CallKeeps ==
  ASSUME CoroTypes, JobsInv, StackInv, NEW t \in Threads, NEW c \in Contexts, NEW v \in Values,
         coro_call(t, c, v),
         NEW S \in SUBSET Contexts, cur[t] \in S \cup {t},
         \A d \in S : parent[d] \in S \cup {t},
         \A d \in S \cup {c} : BelongsTo(d, t)',
         \A u \in Threads \ {t} : ~BelongsTo(c, u),
         \A u \in Threads \ {t} : \A d \in Contexts : BelongsTo(d, u) => BelongsTo(d, u)'
  PROVE  /\ cur' \in [Threads -> Contexts \cup Threads] /\ value' \in [Threads -> Values]
         /\ parent' \in [Contexts -> Contexts \cup Threads \cup {Nobody}]
         /\ StackInv'
<1>1. /\ cur' = [cur EXCEPT ![t] = c] /\ value' = [value EXCEPT ![t] = v]
      /\ parent' = [parent EXCEPT ![c] = cur[t]]
  BY DEF coro_call, SwitchTo
<1>2. /\ cur' \in [Threads -> Contexts \cup Threads] /\ value' \in [Threads -> Values]
      /\ parent' \in [Contexts -> Contexts \cup Threads \cup {Nobody}]
  BY <1>1 DEF CoroTypes
<1>3. /\ cur'[t] = c /\ \A u \in Threads \ {t} : cur'[u] = cur[u]
      /\ parent'[c] = cur[t] /\ \A d \in Contexts \ {c} : parent'[d] = parent[d]
  BY <1>1 DEF CoroTypes
<1> DEFINE R == S \cup {c}
<1>4. R \in SUBSET Contexts
  OBVIOUS
<1>5. Held(t, R)'
  <2>1. \A d \in R : parent'[d] \in R \cup {t} /\ BelongsTo(d, t)'
    BY <1>3
  <2>2. QED
    BY <1>3, <1>4, <2>1 DEF Held
<1> HIDE DEF R
<1>6. \A u \in Threads \ {t} : \A d \in Contexts : BelongsTo(d, u) =>
        parent'[d] = parent[d] /\ BelongsTo(d, u)'
  BY <1>3
<1>7. StackInv'
  BY <1>3, <1>4, <1>5, <1>6, OthersKeep
<1>8. QED
  BY <1>2, <1>7

LEMMA CoroYieldKeeps ==
  ASSUME CoroInv, NEW t \in Threads, Yield(t) \/ AwaitYields(t)
  PROVE  CoroInv'
<1> USE DEF CoroInv
<1>1. /\ cur[t] \in Coros /\ coro_yield(t) /\ parent' = parent
      /\ UNCHANGED <<kind, home, is_done, called, syncVars, poolVars, ret>>
  BY DEF Yield, AwaitYields, InBody, Awaits, coro_yield, bodyVars
<1>2. UNCHANGED <<kind, home, is_done, ret, coros, pos, delete_coros, new_coros, passed,
                  tasks, job, called>>
  BY <1>1 DEF syncVars, poolVars
<1>3. QueuesInv' /\ PassedInv'
  BY <1>2, QueuesSame
<1>4. cur' \in [Threads -> Contexts \cup Threads] /\ value' \in [Threads -> Values] /\ StackInv'
  <2>1. cur[t] \in Contexts
    BY <1>1 DEF Contexts
  <2>2. QED
    BY <1>1, <1>2, <2>1, YieldKeeps
<1>5. CoroTypes'
  BY <1>1, <1>2, <1>4 DEF CoroTypes
<1>6. QED
  BY <1>3, <1>4, <1>5

LEMMA CoroWaitKeeps ==
  ASSUME CoroInv, NEW t \in Threads,
         AwaitReturns(t) \/ \E c \in Coros : await(t, c)
  PROVE  CoroInv'
<1>1. UNCHANGED <<kind, home, cur, value, parent, is_done, ret, coros, pos, delete_coros,
                  new_coros, passed, tasks, job, called>>
  BY DEF AwaitReturns, await, switchVars, syncVars, poolVars
<1>2. QueuesInv' /\ PassedInv'
  BY <1>1, QueuesSame DEF CoroInv
<1>3. CoroTypes'
  BY <1>1 DEF CoroInv, CoroTypes
<1>4. StackInv'
  BY <1>1 DEF CoroInv, StackInv, Held, BelongsTo
<1>5. QED
  BY <1>2, <1>3, <1>4 DEF CoroInv

LEMMA RunSyncKeeps == CoroInv /\ run_sync => CoroInv'
<1> SUFFICES ASSUME CoroInv, run_sync PROVE CoroInv'
  OBVIOUS
<1> USE DEF CoroInv
<1>1. /\ cur[Main] = Main /\ coro_call(Main, Sync, "coros")
      /\ UNCHANGED <<kind, home, is_done, ret, coros, pos, delete_coros, new_coros, passed,
                     tasks, job, called>>
  BY DEF run_sync, HostRuns, bodyVars, syncVars, poolVars
<1>2. QueuesInv' /\ PassedInv'
  BY <1>1, QueuesSame
<1>3. parent'[Sync] = Main /\ \A d \in Coros : parent'[d] = parent[d]
  BY <1>1, CoroNames DEF coro_call, CoroTypes
<1>4. BelongsTo(Sync, Main)'
  BY <1>3 DEF BelongsTo
<1>5. \A u \in Threads \ {Main} : \A d \in Contexts : BelongsTo(d, u) => BelongsTo(d, u)'
  BY <1>1 DEF BelongsTo
<1>6. \A u \in Threads \ {Main} : ~BelongsTo(Sync, u)
  BY CoroNames DEF BelongsTo
<1>7. /\ cur' \in [Threads -> Contexts \cup Threads] /\ value' \in [Threads -> Values]
      /\ parent' \in [Contexts -> Contexts \cup Threads \cup {Nobody}]
      /\ StackInv'
  <2>1. Main \in Threads /\ Sync \in Contexts /\ "coros" \in Values /\ JobsInv
    BY CoroNames DEF Values, QueuesInv
  <2>2. /\ {} \in SUBSET Contexts /\ cur[Main] \in {} \cup {Main}
        /\ \A d \in {} : parent[d] \in {} \cup {Main}
        /\ \A d \in {} \cup {Sync} : BelongsTo(d, Main)'
    BY <1>1, <1>4
  <2>3. QED
    BY <1>1, <1>5, <1>6, <2>1, <2>2, CallKeeps
<1>8. CoroTypes'
  BY <1>1, <1>7 DEF CoroTypes
<1>9. QED
  BY <1>2, <1>7, <1>8

LEMMA StackStays ==
  ASSUME StackInv, UNCHANGED <<cur, parent>>,
         \A u \in Threads : \A d \in Contexts : BelongsTo(d, u) => BelongsTo(d, u)'
  PROVE  StackInv'
<1>1. ASSUME NEW u \in Threads PROVE \E S \in SUBSET Contexts : Held(u, S)'
  <2>1. PICK S \in SUBSET Contexts : Held(u, S)
    BY DEF StackInv
  <2>2. Held(u, S)'
    <3>1. /\ S \subseteq Contexts /\ cur[u] \in S \cup {u}
          /\ \A d \in S : parent[d] \in S \cup {u} /\ BelongsTo(d, u)
      BY <2>1 DEF Held
    <3>2. \A d \in S : BelongsTo(d, u)'
      BY <3>1
    <3>3. QED
      BY <3>1, <3>2 DEF Held
  <2>3. QED
    BY <2>2
<1>2. QED
  BY <1>1 DEF StackInv

LEMMA ListedOnes ==
  ASSUME CoroInv
  PROVE  /\ \A i \in 1 .. Len(coros) :
              coros[i] \in Coros /\ kind[coros[i]] \in {"sync", "destroyed"}
         /\ \A i \in 1 .. Len(new_coros) :
              /\ new_coros[i] \in Coros /\ kind[new_coros[i]] = "sync"
              /\ \A j \in 1 .. Len(coros) : coros[j] # new_coros[i]
         /\ \A i, j \in 1 .. Len(coros) : coros[i] = coros[j] => i = j
         /\ pos \in Nat \ {0} /\ pos <= Len(coros) + 1
         /\ called => pos \in 1 .. Len(coros)
<1>1. /\ coros \in Seq(Coros) /\ new_coros \in Seq(Coros) /\ pos \in Nat \ {0}
  BY DEF CoroInv, CoroTypes
<1>2. /\ \A i \in 1 .. Len(coros) : coros[i] \in Coros
      /\ \A i \in 1 .. Len(new_coros) : new_coros[i] \in Coros
      /\ called /\ pos <= Len(coros) => pos \in 1 .. Len(coros)
  BY <1>1
<1>3. QED
  BY <1>1, <1>2 DEF CoroInv, QueuesInv, ListInv, NoRepeat

LEMMA QueuedTasks ==
  ASSUME CoroInv
  PROVE  /\ \A i \in 1 .. Len(tasks) :
              /\ tasks[i] \in Coros /\ kind[tasks[i]] = "async" /\ ~is_done[tasks[i]]
              /\ \A w \in Workers : job[w] # tasks[i]
         /\ \A i, j \in 1 .. Len(tasks) : tasks[i] = tasks[j] => i = j
         /\ \A w \in Workers : job[w] \in Coros =>
              kind[job[w]] = "async" /\ \A v \in Workers : job[v] = job[w] => v = w
<1>1. \A i \in 1 .. Len(tasks) : tasks[i] \in Coros
  BY DEF CoroInv, CoroTypes
<1>2. QED
  BY <1>1 DEF CoroInv, QueuesInv, JobsInv, NoRepeat

LEMMA CallOwnKeeps ==
  ASSUME CoroInv, NEW t \in Threads, NEW c \in Coros, CallOwn(t, c)
  PROVE  CoroInv'
<1> USE DEF CoroInv
<1>1. /\ coro_call(t, c, "arg")
      /\ \/ kind[c] = "none"
         \/ kind[c] = "own" /\ home[c] = t /\ ~is_done[c]
      /\ kind' = [kind EXCEPT ![c] = "own"] /\ home' = [home EXCEPT ![c] = t]
      /\ UNCHANGED <<is_done, ret, coros, pos, delete_coros, new_coros, passed,
                     tasks, job, called>>
  BY DEF CallOwn, syncVars, poolVars
<1>2. /\ kind' \in [Coros -> {"none", "sync", "async", "own", "destroyed"}]
      /\ home' \in [Coros -> Threads \cup {Nobody}]
      /\ kind'[c] = "own" /\ home'[c] = t /\ ~is_done[c]
      /\ \A d \in Coros \ {c} : kind'[d] = kind[d] /\ home'[d] = home[d]
  BY <1>1 DEF CoroTypes, QueuesInv, AnswerInv
<1>3. QueuesInv'
  <2>1. ListInv'
    <3>1. \A i \in 1 .. Len(coros) : coros[i] \in Coros \ {c}
      BY <1>1, ListedOnes
    <3>2. \A i \in 1 .. Len(new_coros) : new_coros[i] \in Coros \ {c}
      BY <1>1, ListedOnes
    <3>3. QED
      BY <1>1, <1>2, <3>1, <3>2 DEF QueuesInv, ListInv, NoRepeat
  <2>2. JobsInv'
    <3>1. \A i \in 1 .. Len(tasks) : tasks[i] \in Coros \ {c}
      BY <1>1 DEF CoroTypes, QueuesInv, JobsInv
    <3>2. \A w \in Workers : job[w] # c
      BY <1>1 DEF CoroTypes, QueuesInv, JobsInv
    <3>3. QED
      BY <1>1, <1>2, <3>1, <3>2 DEF QueuesInv, JobsInv, NoRepeat
  <2>3. AnswerInv'
    BY <1>1, <1>2 DEF QueuesInv, AnswerInv
  <2>4. QED
    BY <2>1, <2>2, <2>3 DEF QueuesInv
<1>4. PassedInv'
  <2>1. Turns' = Turns
    BY <1>1 DEF Turns
  <2>2. \A d \in Coros : \A e \in passed[d] : e \in Coros \ {c}
    BY <1>1 DEF CoroTypes, PassedInv
  <2>3. QED
    BY <1>1, <1>2, <2>1, <2>2 DEF PassedInv
<1>5. \A u \in Threads : \A d \in Contexts : BelongsTo(d, u) /\ d # c => BelongsTo(d, u)'
  <2>1. ASSUME NEW u \in Threads, NEW d \in Coros \ {c}, BelongsTo(d, u) PROVE BelongsTo(d, u)'
    BY <1>1, <1>2, <2>1, CoroNames DEF BelongsTo
  <2>2. ASSUME NEW u \in Threads, BelongsTo(Sync, u) PROVE BelongsTo(Sync, u)'
    <3>1. u = Main /\ parent[Sync] = Main
      BY <2>2, CoroNames DEF BelongsTo
    <3>2. parent'[Sync] = parent[Sync]
      BY <1>1, CoroNames DEF coro_call, CoroTypes
    <3>3. QED
      BY <3>1, <3>2 DEF BelongsTo
  <2>3. QED
    BY <2>1, <2>2 DEF Contexts
<1>6. \A u \in Threads \ {t} : ~BelongsTo(c, u)
  BY <1>1, CoroNames DEF BelongsTo
<1>7. BelongsTo(c, t)'
  BY <1>1, <1>2 DEF BelongsTo
<1>8. /\ cur' \in [Threads -> Contexts \cup Threads] /\ value' \in [Threads -> Values]
      /\ parent' \in [Contexts -> Contexts \cup Threads \cup {Nobody}]
      /\ StackInv'
  <2>1. PICK S \in SUBSET Contexts : Held(t, S)
    BY DEF StackInv
  <2>2. /\ cur[t] \in S \cup {t} /\ \A d \in S : parent[d] \in S \cup {t}
        /\ \A d \in S \cup {c} : BelongsTo(d, t)'
    BY <1>5, <1>7, <2>1 DEF Held
  <2>3. \A u \in Threads \ {t} : \A d \in Contexts : BelongsTo(d, u) => BelongsTo(d, u)'
    BY <1>5, <1>6
  <2>4. c \in Contexts /\ "arg" \in Values /\ JobsInv
    BY DEF Contexts, Values, QueuesInv
  <2>5. QED
    BY <1>1, <1>6, <2>2, <2>3, <2>4, CallKeeps
<1>9. CoroTypes'
  BY <1>1, <1>2, <1>8 DEF CoroTypes
<1>10. QED
  BY <1>3, <1>4, <1>8, <1>9

LEMMA EndOfEntryKeeps ==
  ASSUME CoroInv, NEW t \in Threads, EndOfEntry(t)
  PROVE  CoroInv'
<1> USE DEF CoroInv
<1>1. PICK v \in {"handle", Unset} : SwitchTo(t, t, v)
  BY DEF EndOfEntry
<1>2. PICK c \in Coros : c = cur[t]
  BY DEF EndOfEntry, InBody
<1>3. /\ is_done' = [is_done EXCEPT ![c] = TRUE]
      /\ cur' = [cur EXCEPT ![t] = t] /\ value' = [value EXCEPT ![t] = v]
      /\ UNCHANGED <<kind, home, parent, ret, coros, pos, delete_coros, new_coros, passed,
                     tasks, job, called>>
  BY <1>1, <1>2 DEF EndOfEntry, SwitchTo, syncVars, poolVars
<1>4. /\ is_done' \in [Coros -> BOOLEAN] /\ is_done'[c]
      /\ \A d \in Coros \ {c} : is_done'[d] = is_done[d]
      /\ cur' \in [Threads -> Contexts \cup Threads] /\ value' \in [Threads -> Values]
      /\ cur'[t] = t /\ \A u \in Threads \ {t} : cur'[u] = cur[u]
  BY <1>3 DEF CoroTypes, Values
<1>5. BelongsTo(c, t) /\ ~is_done[c] /\ kind[c] \in {"sync", "async", "own"}
  BY <1>2, BodyRuns
<1>6. QueuesInv'
  <2>1. ListInv'
    <3>1. ASSUME NEW i \in 1 .. Len(coros), coros[i] = c PROVE i = pos /\ called
      <4>1. kind[c] = "sync" /\ called /\ pos \in 1 .. Len(coros) /\ coros[pos] = c
        BY <1>5, <3>1, CoroNames, ListedOnes DEF BelongsTo
      <4>2. QED
        BY <3>1, <4>1, ListedOnes
    <3>2. \A i \in 1 .. Len(new_coros) : new_coros[i] # c
      BY <1>5, CoroNames DEF BelongsTo, QueuesInv, ListInv, CoroTypes
    <3>3. /\ \A i \in 1 .. Len(coros) : coros[i] \in Coros
          /\ \A i \in 1 .. Len(new_coros) : new_coros[i] \in Coros
      BY DEF CoroTypes
    <3>4. \A i \in 1 .. Len(coros) : is_done'[coros[i]] =>
            \/ i < pos /\ coros[i] \in ToSet(delete_coros)
            \/ i = pos /\ called
      BY <1>4, <3>1, <3>3 DEF QueuesInv, ListInv
    <3>5. \A i \in 1 .. Len(new_coros) : ~is_done'[new_coros[i]]
      BY <1>4, <3>2, <3>3 DEF QueuesInv, ListInv
    <3>6. QED
      BY <1>3, <3>4, <3>5 DEF QueuesInv, ListInv, NoRepeat
  <2>2. JobsInv'
    <3>1. \A i \in 1 .. Len(tasks) : tasks[i] \in Coros \ {c}
      <4>1. kind[c] = "async" => c = job[t] /\ t \in Workers
        BY <1>5, CoroNames DEF BelongsTo
      <4>2. QED
        BY <1>5, <4>1, QueuedTasks
    <3>2. QED
      BY <1>3, <1>4, <3>1 DEF QueuesInv, JobsInv, NoRepeat
  <2>3. AnswerInv'
    BY <1>3, <1>4, <1>5 DEF QueuesInv, AnswerInv
  <2>4. QED
    BY <2>1, <2>2, <2>3 DEF QueuesInv
<1>7. PassedInv'
  BY <1>3 DEF PassedInv, Turns
<1>8. StackInv'
  <2>1. {} \in SUBSET Contexts /\ Held(t, {})'
    BY <1>4 DEF Held
  <2>2. ASSUME NEW u \in Threads \ {t}, NEW d \in Contexts, BelongsTo(d, u)
        PROVE  BelongsTo(d, u)'
    <3>1. d # c
      BY <1>5, <2>2, BelongsToOne DEF QueuesInv
    <3>2. QED
      BY <1>3, <1>4, <2>2, <3>1 DEF BelongsTo
  <2>3. \A u \in Threads \ {t} :
           /\ cur'[u] = cur[u]
           /\ \A d \in Contexts : BelongsTo(d, u) =>
                parent'[d] = parent[d] /\ BelongsTo(d, u)'
    BY <1>3, <1>4, <2>2
  <2>4. QED
    BY <2>1, <2>3, OthersKeep
<1>9. CoroTypes'
  BY <1>3, <1>4 DEF CoroTypes
<1>10. QED
  BY <1>6, <1>7, <1>8, <1>9

LEMMA ScheduleSyncKeeps ==
  ASSUME CoroInv, NEW t \in Threads, NEW c \in Coros, schedule_sync(t, c)
  PROVE  CoroInv'
<1> USE DEF CoroInv
<1>1. /\ kind[c] = "none" /\ kind' = [kind EXCEPT ![c] = "sync"]
      /\ new_coros' = Append(new_coros, c)
      /\ UNCHANGED <<home, is_done, coros, pos, delete_coros, passed,
                     tasks, job, cur, value, parent, called, ret>>
  BY DEF schedule_sync, switchVars, poolVars
<1>2. /\ kind' \in [Coros -> {"none", "sync", "async", "own", "destroyed"}]
      /\ kind'[c] = "sync" /\ ~is_done[c]
      /\ \A d \in Coros \ {c} : kind'[d] = kind[d]
  BY <1>1 DEF CoroTypes, QueuesInv, AnswerInv
<1>3. /\ new_coros' \in Seq(Coros) /\ Len(new_coros') = Len(new_coros) + 1
      /\ \A i \in 1 .. Len(new_coros) : new_coros'[i] = new_coros[i]
      /\ new_coros'[Len(new_coros) + 1] = c
      /\ \A i \in 1 .. Len(new_coros) + 1 : i \in 1 .. Len(new_coros) \/ i = Len(new_coros) + 1
  BY <1>1, ListPush DEF CoroTypes
<1>4. \A i \in 1 .. Len(coros) : coros[i] \in Coros \ {c}
  BY <1>1, ListedOnes
<1>5. \A i \in 1 .. Len(new_coros) : new_coros[i] \in Coros \ {c}
  BY <1>1, ListedOnes
<1>6. ListInv'
  <2>1. NoRepeat(new_coros')
    <3>1. \A i, j \in 1 .. Len(new_coros) : new_coros[i] = new_coros[j] => i = j
      BY DEF QueuesInv, ListInv, NoRepeat
    <3>2. QED
      BY <1>3, <1>5, <3>1 DEF NoRepeat
  <2>2. \A i \in 1 .. Len(coros) :
           /\ kind'[coros[i]] \in {"sync", "destroyed"}
           /\ is_done[coros[i]] => \/ i < pos /\ coros[i] \in ToSet(delete_coros)
                                   \/ i = pos /\ called
    BY <1>2, <1>4 DEF QueuesInv, ListInv
  <2>3. \A i \in 1 .. Len(new_coros) :
           /\ kind'[new_coros[i]] = "sync" /\ ~is_done[new_coros[i]]
           /\ \A j \in 1 .. Len(coros) : coros[j] # new_coros[i]
    BY <1>2, <1>5 DEF QueuesInv, ListInv
  <2>4. \A i \in 1 .. Len(new_coros') :
           /\ kind'[new_coros'[i]] = "sync" /\ ~is_done[new_coros'[i]]
           /\ \A j \in 1 .. Len(coros) : coros[j] # new_coros'[i]
    BY <1>2, <1>3, <1>4, <2>3
  <2>5. QED
    BY <1>1, <2>1, <2>2, <2>4 DEF QueuesInv, ListInv, NoRepeat
<1>7. JobsInv'
  <2>1. \A i \in 1 .. Len(tasks) : tasks[i] \in Coros \ {c}
    BY <1>1 DEF CoroTypes, QueuesInv, JobsInv
  <2>2. \A w \in Workers : job[w] # c
    BY <1>1 DEF CoroTypes, QueuesInv, JobsInv
  <2>3. QED
    BY <1>1, <1>2, <2>1, <2>2 DEF QueuesInv, JobsInv, NoRepeat
<1>8. AnswerInv'
  BY <1>1, <1>2 DEF QueuesInv, AnswerInv
<1>9. PassedInv'
  <2>1. Turns' = Turns
    BY <1>1 DEF Turns
  <2>2. \A d \in Coros : \A e \in passed[d] :
          e \in Coros \ {c} /\ \A i \in 1 .. Len(new_coros') : new_coros'[i] # e
    BY <1>1, <1>3 DEF CoroTypes, PassedInv
  <2>3. \A i \in 1 .. Len(new_coros') : passed[new_coros'[i]] = {}
    BY <1>1, <1>3 DEF PassedInv
  <2>4. QED
    BY <1>1, <1>2, <2>1, <2>2, <2>3 DEF PassedInv
<1>10. StackInv'
  <2>1. \A u \in Threads : \A d \in Contexts : BelongsTo(d, u) => BelongsTo(d, u)'
    BY <1>1, <1>2 DEF BelongsTo
  <2>2. QED
    BY <1>1, <2>1, StackStays
<1>11. CoroTypes'
  BY <1>1, <1>2, <1>3 DEF CoroTypes
<1>12. QED
  BY <1>6, <1>7, <1>8, <1>9, <1>10, <1>11 DEF QueuesInv

LEMMA ScheduleAsyncKeeps ==
  ASSUME CoroInv, NEW t \in Threads, NEW c \in Coros, schedule_async(t, c)
  PROVE  CoroInv'
<1> USE DEF CoroInv
<1>1. /\ kind[c] = "none" /\ kind' = [kind EXCEPT ![c] = "async"]
      /\ tasks' = Append(tasks, c)
      /\ UNCHANGED <<home, is_done, coros, pos, delete_coros, new_coros, passed,
                     job, cur, value, parent, called, ret>>
  BY DEF schedule_async, switchVars, syncVars
<1>2. /\ kind' \in [Coros -> {"none", "sync", "async", "own", "destroyed"}]
      /\ kind'[c] = "async" /\ ~is_done[c]
      /\ \A d \in Coros \ {c} : kind'[d] = kind[d]
  BY <1>1 DEF CoroTypes, QueuesInv, AnswerInv
<1>3. /\ tasks' \in Seq(Coros) /\ Len(tasks') = Len(tasks) + 1
      /\ \A i \in 1 .. Len(tasks) : tasks'[i] = tasks[i]
      /\ tasks'[Len(tasks) + 1] = c
      /\ \A i \in 1 .. Len(tasks) + 1 : i \in 1 .. Len(tasks) \/ i = Len(tasks) + 1
  BY <1>1, ListPush DEF CoroTypes
<1>4. /\ \A i \in 1 .. Len(coros) : coros[i] \in Coros \ {c}
      /\ \A i \in 1 .. Len(new_coros) : new_coros[i] \in Coros \ {c}
  BY <1>1, ListedOnes
<1>5. /\ \A i \in 1 .. Len(tasks) : tasks[i] \in Coros \ {c}
      /\ \A w \in Workers : job[w] # c
  BY <1>1, QueuedTasks
<1>6. ListInv'
  BY <1>1, <1>2, <1>4 DEF QueuesInv, ListInv, NoRepeat
<1>7. JobsInv'
  <2>1. NoRepeat(tasks')
    <3>1. \A i, j \in 1 .. Len(tasks) : tasks[i] = tasks[j] => i = j
      BY QueuedTasks
    <3>2. QED
      BY <1>3, <1>5, <3>1 DEF NoRepeat
  <2>2. \A i \in 1 .. Len(tasks') :
           /\ kind'[tasks'[i]] = "async" /\ ~is_done[tasks'[i]]
           /\ \A w \in Workers : job[w] # tasks'[i]
    BY <1>2, <1>3, <1>5, QueuedTasks
  <2>3. \A w \in Workers : job[w] \in Coros =>
          kind'[job[w]] = "async" /\ \A v \in Workers : job[v] = job[w] => v = w
    BY <1>2, <1>5, QueuedTasks
  <2>4. QED
    BY <1>1, <2>1, <2>2, <2>3 DEF JobsInv, NoRepeat
<1>8. AnswerInv'
  BY <1>1, <1>2 DEF QueuesInv, AnswerInv
<1>9. PassedInv'
  <2>1. Turns' = Turns
    BY <1>1 DEF Turns
  <2>2. \A d \in Coros : \A e \in passed[d] : e \in Coros \ {c}
    BY <1>1 DEF CoroTypes, PassedInv
  <2>3. QED
    BY <1>1, <1>2, <2>1, <2>2 DEF PassedInv
<1>10. StackInv'
  <2>1. \A u \in Threads : \A d \in Contexts : BelongsTo(d, u) => BelongsTo(d, u)'
    BY <1>1, <1>2 DEF BelongsTo
  <2>2. QED
    BY <1>1, <2>1, StackStays
<1>11. CoroTypes'
  BY <1>1, <1>2, <1>3 DEF CoroTypes
<1>12. QED
  BY <1>6, <1>7, <1>8, <1>9, <1>10, <1>11 DEF QueuesInv

LEMMA DestroyKeepsCoros ==
  ASSUME CoroInv, NEW t \in Threads, NEW c \in Coros, Destroy(t, c)
  PROVE  CoroInv'
<1> USE DEF CoroInv
<1>1. /\ kind[c] \in {"sync", "async"} /\ ret[c] # Unset
      /\ kind' = [kind EXCEPT ![c] = "destroyed"]
      /\ UNCHANGED <<home, is_done, coros, pos, delete_coros, new_coros, passed, tasks,
                     job, cur, value, parent, called, ret>>
  BY DEF Destroy, Scheduled, switchVars, syncVars, poolVars
<1>2. /\ kind' \in [Coros -> {"none", "sync", "async", "own", "destroyed"}]
      /\ kind'[c] = "destroyed" /\ is_done[c] /\ \A w \in Workers : job[w] # c
      /\ \A d \in Coros \ {c} : kind'[d] = kind[d]
  BY <1>1 DEF CoroTypes, QueuesInv, AnswerInv
<1>3. /\ \A i \in 1 .. Len(new_coros) : new_coros[i] \in Coros \ {c}
      /\ \A i \in 1 .. Len(tasks) : tasks[i] \in Coros \ {c}
  BY <1>2, ListedOnes, QueuedTasks DEF QueuesInv, ListInv
<1>4. \A i \in 1 .. Len(coros) : coros[i] \in Coros /\ kind'[coros[i]] \in {"sync", "destroyed"}
  BY <1>2, ListedOnes
<1>5. ListInv'
  BY <1>1, <1>2, <1>3, <1>4 DEF QueuesInv, ListInv, NoRepeat
<1>6. JobsInv'
  <2>1. /\ \A i \in 1 .. Len(tasks) : kind'[tasks[i]] = "async"
        /\ \A w \in Workers : job[w] \in Coros => kind'[job[w]] = "async"
    BY <1>2, <1>3, QueuedTasks
  <2>2. QED
    BY <1>1, <2>1 DEF QueuesInv, JobsInv, NoRepeat
<1>7. AnswerInv'
  BY <1>1, <1>2 DEF QueuesInv, AnswerInv
<1>8. PassedInv'
  <2>1. Turns' = Turns
    BY <1>1 DEF Turns
  <2>2. \A d \in Coros : \A e \in passed[d] : e \in Coros /\ kind'[e] \in {"sync", "destroyed"}
    BY <1>2 DEF CoroTypes, PassedInv
  <2>3. QED
    BY <1>1, <1>2, <2>1, <2>2 DEF PassedInv
<1>9. StackInv'
  <2>1. \A u \in Threads : \A d \in Contexts : BelongsTo(d, u) => BelongsTo(d, u)'
    BY <1>1, <1>2 DEF BelongsTo
  <2>2. QED
    BY <1>1, <2>1, StackStays
<1>10. CoroTypes'
  BY <1>1, <1>2 DEF CoroTypes
<1>11. QED
  BY <1>5, <1>6, <1>7, <1>8, <1>9, <1>10 DEF QueuesInv

LEMMA CallAgainKeeps ==
  ASSUME CoroInv, NEW w \in Workers, CallAgain(w)
  PROVE  CoroInv'
<1> USE DEF CoroInv
<1>1. PICK c \in Coros : c = job[w]
  BY DEF CallAgain, CoroTypes
<1>2. /\ cur[w] = w /\ coro_call(w, c, "arg") /\ ~is_done[c]
      /\ UNCHANGED <<kind, home, is_done, ret, coros, pos, delete_coros, new_coros, passed,
                     tasks, job, called>>
  BY <1>1 DEF CallAgain, coro_done, bodyVars, syncVars, poolVars
<1>3. QueuesInv' /\ PassedInv'
  BY <1>2, QueuesSame
<1>4. kind[c] = "async" /\ BelongsTo(c, w)
  BY <1>1, <1>2, QueuedTasks DEF BelongsTo
<1>5. w \in Threads /\ c \in Contexts /\ "arg" \in Values /\ JobsInv /\ w # Main
  BY CoroNames DEF Contexts, Values, QueuesInv
<1>6. \A d \in Contexts : \A u \in Threads : BelongsTo(d, u) /\ d # Sync => BelongsTo(d, u)'
  BY <1>2, CoroNames DEF BelongsTo
<1>7. parent'[Sync] = parent[Sync]
  BY <1>2, CoroNames DEF coro_call, CoroTypes
<1>8. \A d \in Contexts : \A u \in Threads : BelongsTo(d, u) => BelongsTo(d, u)'
  BY <1>6, <1>7, CoroNames DEF BelongsTo
<1>9. \A u \in Threads \ {w} : ~BelongsTo(c, u)
  BY <1>4, <1>5, BelongsToOne
<1>10. /\ cur' \in [Threads -> Contexts \cup Threads] /\ value' \in [Threads -> Values]
       /\ parent' \in [Contexts -> Contexts \cup Threads \cup {Nobody}]
       /\ StackInv'
  <2>1. PICK S \in SUBSET Contexts : S = {}
    OBVIOUS
  <2>2. /\ cur[w] \in S \cup {w} /\ \A d \in S : parent[d] \in S \cup {w}
        /\ \A d \in S \cup {c} : BelongsTo(d, w)'
    BY <1>2, <1>4, <1>5, <1>8, <2>1
  <2>3. coro_call(w, c, "arg")
    BY <1>2
  <2>4. \A u \in Threads \ {w} : \A d \in Contexts : BelongsTo(d, u) => BelongsTo(d, u)'
    BY <1>8
  <2>5. QED
    BY <1>5, <1>9, <2>2, <2>3, <2>4, CallKeeps
<1>11. CoroTypes'
  BY <1>2, <1>10 DEF CoroTypes
<1>12. QED
  BY <1>3, <1>10, <1>11

LEMMA TakeTaskKeeps ==
  ASSUME CoroInv, NEW w \in Workers, TakeTask(w)
  PROVE  CoroInv'
<1> USE DEF CoroInv
<1>1. PICK c \in Coros : c = Head(tasks)
  BY ListPop DEF TakeTask, CoroTypes
<1>2. /\ cur[w] = w /\ job[w] = Nobody /\ tasks # <<>> /\ coro_call(w, c, "arg")
      /\ job' = [job EXCEPT ![w] = c] /\ tasks' = Tail(tasks)
      /\ UNCHANGED <<kind, home, is_done, ret, coros, pos, delete_coros, new_coros, passed, called>>
  BY <1>1 DEF TakeTask, bodyVars, syncVars
<1>3. /\ 1 \in 1 .. Len(tasks) /\ c = tasks[1]
      /\ tasks' \in Seq(Coros) /\ Len(tasks') = Len(tasks) - 1
      /\ \A i \in 1 .. Len(tasks') : i + 1 \in 1 .. Len(tasks) /\ tasks'[i] = tasks[i + 1]
  BY <1>1, <1>2, ListPop DEF CoroTypes
<1>4. /\ kind[c] = "async" /\ ~is_done[c] /\ \A v \in Workers : job[v] # c
  BY <1>3, QueuedTasks
<1>5. /\ job' \in [Workers -> Coros \cup {Nobody}] /\ job'[w] = c
      /\ \A v \in Workers \ {w} : job'[v] = job[v]
  BY <1>2 DEF CoroTypes
<1>6. ListInv'
  BY <1>2 DEF QueuesInv, ListInv, NoRepeat
<1>7. JobsInv'
  <2>1. \A i \in 1 .. Len(tasks') :
          /\ tasks'[i] \in Coros /\ kind[tasks'[i]] = "async" /\ ~is_done[tasks'[i]]
          /\ \A v \in Workers : job[v] # tasks'[i]
    BY <1>3, QueuedTasks
  <2>2. \A i \in 1 .. Len(tasks') : tasks'[i] # c
    <3>1. \A i \in 1 .. Len(tasks') : i + 1 # 1
      OBVIOUS
    <3>2. QED
      BY <1>3, <3>1, QueuedTasks
  <2>3. NoRepeat(tasks')
    <3>1. SUFFICES ASSUME NEW i \in 1 .. Len(tasks'), NEW j \in 1 .. Len(tasks'),
                          tasks'[i] = tasks'[j]
                   PROVE  i = j
      BY DEF NoRepeat
    <3>2. i + 1 = j + 1
      BY <1>3, <3>1, QueuedTasks
    <3>3. QED
      BY <3>2
  <2>4. \A v \in Workers : job'[v] # Nobody /\ job'[v] \in Coros =>
          kind[job'[v]] = "async" /\ \A u \in Workers : job'[u] = job'[v] => u = v
    BY <1>4, <1>5, QueuedTasks
  <2>5. \A i \in 1 .. Len(tasks') : \A v \in Workers : job'[v] # tasks'[i]
    BY <1>5, <2>1, <2>2
  <2>6. QED
    BY <1>2, <2>1, <2>3, <2>4, <2>5, CoroNames DEF JobsInv, NoRepeat
<1>8. AnswerInv'
  BY <1>2, <1>4, <1>5 DEF QueuesInv, AnswerInv
<1>9. PassedInv'
  BY <1>2 DEF PassedInv, Turns
<1>10. w \in Threads /\ c \in Contexts /\ "arg" \in Values /\ JobsInv /\ w # Main
  BY CoroNames DEF Contexts, Values, QueuesInv
<1>11. parent'[Sync] = parent[Sync]
  BY <1>2, CoroNames DEF coro_call, CoroTypes
<1>12. \A d \in Contexts : \A u \in Threads : BelongsTo(d, u) => BelongsTo(d, u)'
  BY <1>2, <1>5, <1>11, CoroNames DEF BelongsTo
<1>13. \A u \in Threads \ {w} : ~BelongsTo(c, u)
  BY <1>4, CoroNames DEF BelongsTo
<1>14. BelongsTo(c, w)'
  BY <1>2, <1>4, <1>5 DEF BelongsTo
<1>15. /\ cur' \in [Threads -> Contexts \cup Threads] /\ value' \in [Threads -> Values]
       /\ parent' \in [Contexts -> Contexts \cup Threads \cup {Nobody}]
       /\ StackInv'
  <2>1. PICK S \in SUBSET Contexts : S = {}
    OBVIOUS
  <2>2. /\ cur[w] \in S \cup {w} /\ \A d \in S : parent[d] \in S \cup {w}
        /\ \A d \in S \cup {c} : BelongsTo(d, w)'
    BY <1>2, <1>14, <2>1
  <2>3. coro_call(w, c, "arg")
    BY <1>2
  <2>4. \A u \in Threads \ {w} : \A d \in Contexts : BelongsTo(d, u) => BelongsTo(d, u)'
    BY <1>12
  <2>5. QED
    BY <1>10, <1>13, <2>2, <2>3, <2>4, CallKeeps
<1>16. CoroTypes'
  BY <1>2, <1>3, <1>5, <1>15 DEF CoroTypes
<1>17. QED
  BY <1>6, <1>7, <1>8, <1>9, <1>15, <1>16 DEF QueuesInv

LEMMA StoreAnswerKeeps ==
  ASSUME CoroInv, NEW w \in Workers, StoreAnswer(w)
  PROVE  CoroInv'
<1> USE DEF CoroInv
<1>1. PICK c \in Coros : c = job[w]
  BY DEF StoreAnswer, CoroTypes
<1>2. /\ cur[w] = w /\ is_done[c]
      /\ ret' = [ret EXCEPT ![c] = value[w]] /\ job' = [job EXCEPT ![w] = Nobody]
      /\ UNCHANGED <<kind, home, is_done, coros, pos, delete_coros, new_coros, passed,
                     tasks, called, cur, value, parent>>
  BY <1>1 DEF StoreAnswer, coro_done, bodyVars, syncVars, switchVars
<1>3. kind[c] = "async" /\ \A v \in Workers : job[v] = c => v = w
  BY <1>1, QueuedTasks
<1>4. /\ job' \in [Workers -> Coros \cup {Nobody}] /\ job'[w] = Nobody
      /\ \A v \in Workers \ {w} : job'[v] = job[v]
      /\ ret' \in [Coros -> Values] /\ \A d \in Coros \ {c} : ret'[d] = ret[d]
  BY <1>2, CoroNames DEF CoroTypes
<1>5. ListInv'
  BY <1>2 DEF QueuesInv, ListInv, NoRepeat
<1>6. JobsInv'
  <2>1. \A i \in 1 .. Len(tasks) : \A v \in Workers : job'[v] # tasks[i]
    BY <1>4, QueuedTasks, CoroNames
  <2>2. \A v \in Workers : job'[v] \in Coros =>
          kind[job'[v]] = "async" /\ \A u \in Workers : job'[u] = job'[v] => u = v
    BY <1>4, QueuedTasks, CoroNames
  <2>3. QED
    BY <1>2, <2>1, <2>2 DEF QueuesInv, JobsInv, NoRepeat
<1>7. AnswerInv'
  <2>1. \A i \in pos .. Len(coros) : coros[i] # c
    <3>1. \A i \in pos .. Len(coros) : i \in 1 .. Len(coros)
      BY ListedOnes
    <3>2. QED
      BY <1>3, <3>1, ListedOnes
  <2>2. \A v \in Workers : job'[v] # c
    BY <1>3, <1>4, CoroNames
  <2>3. \A d \in Coros \ {c} : \A v \in Workers : job[v] # d => job'[v] # d
    BY <1>4, CoroNames
  <2>4. \A d \in Coros \ {c} :
          /\ kind[d] = "none" => ~is_done[d]
          /\ kind[d] = "destroyed" => ret'[d] # Unset
          /\ ret'[d] # Unset =>
               /\ is_done[d]
               /\ \A i \in pos .. Len(coros) : coros[i] # d
               /\ \A v \in Workers : job'[v] # d
    BY <1>4, <2>3 DEF QueuesInv, AnswerInv
  <2>5. QED
    BY <1>2, <1>3, <2>1, <2>2, <2>4 DEF AnswerInv
<1>8. PassedInv'
  BY <1>2 DEF PassedInv, Turns
<1>9. StackInv'
  <2>1. \A u \in Threads : \A d \in Contexts : BelongsTo(d, u) => BelongsTo(d, u)'
    BY <1>1, <1>2, <1>4 DEF BelongsTo
  <2>2. QED
    BY <1>2, <2>1, StackStays
<1>10. CoroTypes'
  BY <1>2, <1>4 DEF CoroTypes
<1>11. QED
  BY <1>5, <1>6, <1>7, <1>8, <1>9, <1>10 DEF QueuesInv

\* On the main thread, the scheduler is in progress when it runs.
LEMMA SyncRuns ==
  ASSUME CoroTypes, StackInv, InSync
  PROVE  parent[Sync] = Main /\ BelongsTo(Sync, Main)
<1>1. PICK S \in SUBSET Contexts : Held(Main, S)
  BY CoroNames DEF StackInv
<1>2. Sync \in S
  BY <1>1, CoroNames DEF Held, InSync
<1>3. QED
  BY <1>1, <1>2, CoroNames DEF Held, BelongsTo

\* What the lists say of two coroutines that have a place in them.
LEMMA CallNextKeeps == CoroInv /\ CallNext => CoroInv'
<1> SUFFICES ASSUME CoroInv, CallNext PROVE CoroInv'
  OBVIOUS
<1> USE DEF CoroInv
<1>1. pos \in 1 .. Len(coros) /\ ~called /\ called'
  <2>1. pos <= Len(coros) /\ ~called /\ called'
    BY DEF CallNext
  <2>2. pos \in Nat \ {0} /\ coros \in Seq(Coros)
    BY DEF CoroTypes
  <2>3. QED
    BY <2>1, <2>2
<1>2. PICK c \in Coros : c = coros[pos]
  BY <1>1, ListedOnes
<1>3. /\ InSync /\ coro_call(Main, c, "arg")
      /\ passed' = [d \in Coros |-> IF d = c \/ d \notin ToSet(coros) THEN {}
                                    ELSE passed[d] \cup {c}]
      /\ UNCHANGED <<kind, home, is_done, ret, coros, pos, delete_coros, new_coros, tasks, job>>
  BY <1>2 DEF CallNext, bodyVars, poolVars
<1>4. kind[c] = "sync" /\ ~is_done[c]
  <2>1. ~is_done[c]
    BY <1>1, <1>2 DEF QueuesInv, ListInv
  <2>2. kind[c] # "destroyed"
    BY <2>1 DEF QueuesInv, AnswerInv
  <2>3. QED
    BY <1>1, <1>2, <2>1, <2>2, ListedOnes
<1>5. ListInv'
  BY <1>1, <1>3 DEF QueuesInv, ListInv, NoRepeat
<1>6. JobsInv' /\ AnswerInv'
  <2>1. JobsInv'
    BY <1>3 DEF QueuesInv, JobsInv, NoRepeat
  <2>2. AnswerInv'
    BY <1>3 DEF QueuesInv, AnswerInv
  <2>3. QED
    BY <2>1, <2>2
<1>7. PassedInv'
  <2>1. /\ Turns' = pos /\ Turns = pos - 1
        /\ pos \in Nat \ {0} /\ coros \in Seq(Coros) /\ Len(coros) \in Nat
    BY <1>1, <1>3 DEF Turns, CoroTypes
  <2>2. /\ passed' \in [Coros -> SUBSET Coros]
        /\ passed'[c] = {} /\ \A d \in Coros : d \notin ToSet(coros) => passed'[d] = {}
        /\ \A d \in Coros : passed'[d] \subseteq passed[d] \cup {c}
    BY <1>3 DEF CoroTypes
  <2>3. ASSUME NEW i \in 1 .. Len(coros), NEW j \in 1 .. Len(coros),
               coros[i] \in passed'[coros[j]]
        PROVE  \/ i <= pos /\ pos < j
               \/ j < i /\ (i <= pos \/ pos < j)
    <3>1. /\ coros[i] \in Coros /\ coros[j] \in Coros
          /\ (coros[i] = c => i = pos) /\ (coros[j] = c => j = pos)
      BY <1>1, <1>2, ListedOnes
    <3>2. j # pos
      BY <1>2, <2>2, <2>3
    <3>3. CASE i = pos
      BY <2>1, <3>2, <3>3
    <3>4. CASE i # pos
      <4>1. coros[i] \in passed[coros[j]]
        BY <2>2, <2>3, <3>1, <3>4
      <4>2. \/ i <= pos - 1 /\ pos - 1 < j
            \/ j < i /\ (i <= pos - 1 \/ pos - 1 < j)
        BY <2>1, <4>1 DEF PassedInv
      <4>3. QED
        BY <2>1, <3>2, <4>2
    <3>5. QED
      BY <3>3, <3>4
  <2>4. ASSUME NEW d \in Coros, NEW e \in passed'[d]
        PROVE  /\ kind[e] \in {"sync", "destroyed"}
               /\ \A i \in 1 .. Len(new_coros) : new_coros[i] # e
    <3>1. CASE e = c
      BY <1>1, <1>2, <1>4, <3>1, ListedOnes
    <3>2. CASE e \in passed[d]
      BY <3>2 DEF PassedInv
    <3>3. QED
      BY <2>2, <3>1, <3>2
  <2>5. ASSUME NEW d \in Coros, d \notin ToSet(coros) PROVE passed'[d] = {}
    BY <2>2, <2>5
  <2>6. \A d \in Coros : kind[d] = "none" => passed'[d] = {}
    <3>1. ASSUME NEW d \in Coros, kind[d] = "none", d \in ToSet(coros) PROVE FALSE
      <4>1. coros \in Seq(Coros)
        BY DEF CoroTypes
      <4>2. PICK i \in 1 .. Len(coros) : coros[i] = d
        BY <3>1, <4>1, ListMembers
      <4>3. QED
        BY <3>1, <4>2, ListedOnes
    <3>2. QED
      BY <2>5, <3>1
  <2>7. \A i \in 1 .. Len(new_coros) : passed'[new_coros[i]] = {}
    <3>1. \A i \in 1 .. Len(new_coros) : new_coros[i] \in Coros /\ new_coros[i] \notin ToSet(coros)
      BY ListMembers, ListedOnes DEF CoroTypes
    <3>2. QED
      BY <2>5, <3>1
  <2>8. UNCHANGED <<coros, new_coros, kind>> /\ Turns' = pos
    BY <1>3, <2>1
  <2>9. QED
    BY <2>3, <2>4, <2>6, <2>7, <2>8 DEF PassedInv
<1>8. /\ Main \in Threads /\ Sync \in Contexts /\ c \in Contexts /\ "arg" \in Values /\ JobsInv
      /\ c # Sync
  BY CoroNames DEF Contexts, Values, QueuesInv
<1>9. parent[Sync] = Main /\ parent'[Sync] = parent[Sync]
  BY <1>3, <1>8, SyncRuns DEF coro_call, CoroTypes
<1>10. \A d \in Contexts : \A u \in Threads \ {Main} : BelongsTo(d, u) => BelongsTo(d, u)'
  BY <1>3 DEF BelongsTo
<1>11. \A u \in Threads \ {Main} : ~BelongsTo(c, u)
  BY <1>4, <1>8 DEF BelongsTo
<1>12. BelongsTo(c, Main)' /\ BelongsTo(Sync, Main)'
  BY <1>1, <1>2, <1>3, <1>4, <1>9, ListedOnes DEF BelongsTo
<1>13. /\ cur' \in [Threads -> Contexts \cup Threads] /\ value' \in [Threads -> Values]
       /\ parent' \in [Contexts -> Contexts \cup Threads \cup {Nobody}]
       /\ StackInv'
  <2>1. PICK S \in SUBSET Contexts : S = {Sync}
    BY <1>8
  <2>2. /\ cur[Main] \in S \cup {Main} /\ \A d \in S : parent[d] \in S \cup {Main}
        /\ \A d \in S \cup {c} : BelongsTo(d, Main)'
    BY <1>3, <1>8, <1>9, <1>12, <2>1 DEF InSync
  <2>3. coro_call(Main, c, "arg")
    BY <1>3
  <2>4. \A u \in Threads \ {Main} : \A d \in Contexts : BelongsTo(d, u) => BelongsTo(d, u)'
    BY <1>10
  <2>5. QED
    BY <1>8, <1>11, <2>2, <2>3, <2>4, CallKeeps
<1>14. CoroTypes'
  <2>1. passed' \in [Coros -> SUBSET Coros]
    BY <1>3 DEF CoroTypes
  <2>2. QED
    BY <1>1, <1>3, <1>13, <2>1 DEF CoroTypes
<1>15. QED
  BY <1>5, <1>6, <1>7, <1>13, <1>14 DEF QueuesInv

LEMMA LookAtCalledKeeps == CoroInv /\ LookAtCalled => CoroInv'
<1> SUFFICES ASSUME CoroInv, LookAtCalled PROVE CoroInv'
  OBVIOUS
<1> USE DEF CoroInv
<1>1. InSync /\ called /\ called' = FALSE /\ pos' = pos + 1
  BY DEF LookAtCalled, NextPos
<1>2. pos \in 1 .. Len(coros) /\ pos \in Nat /\ Len(coros) \in Nat
  BY <1>1, ListedOnes DEF CoroTypes
<1>3. PICK c \in Coros : c = coros[pos]
  BY <1>2, ListedOnes
<1>4. UNCHANGED <<cur, value, parent, kind, home, is_done, coros, new_coros, passed, tasks, job>>
  BY DEF LookAtCalled, bodyVars, poolVars
<1>5. /\ is_done[c] => /\ ret' = [ret EXCEPT ![c] = value[Main]]
                       /\ delete_coros' = Append(delete_coros, c)
      /\ ~is_done[c] => ret' = ret /\ delete_coros' = delete_coros
  BY <1>3 DEF LookAtCalled, coro_done
<1>6. /\ ret' \in [Coros -> Values] /\ \A d \in Coros \ {c} : ret'[d] = ret[d]
      /\ ~is_done[c] => ret'[c] = ret[c]
      /\ ret[c] = Unset
  <2>1. /\ ret \in [Coros -> Values] /\ value[Main] \in Values
    BY CoroNames DEF CoroTypes
  <2>2. pos \in pos .. Len(coros)
    BY <1>2
  <2>3. ret[c] = Unset
    BY <1>3, <2>2 DEF QueuesInv, AnswerInv
  <2>4. ret' = ret \/ ret' = [ret EXCEPT ![c] = value[Main]]
    BY <1>5
  <2>5. QED
    BY <1>5, <2>1, <2>3, <2>4
<1>7. /\ delete_coros' \in Seq(Coros)
      /\ \A d \in ToSet(delete_coros) : d \in ToSet(delete_coros')
      /\ is_done[c] => c \in ToSet(delete_coros')
  <2>1. CASE is_done[c]
    <3>1. /\ delete_coros \in Seq(Coros) /\ delete_coros' \in Seq(Coros)
          /\ Len(delete_coros') = Len(delete_coros) + 1
          /\ \A i \in 1 .. Len(delete_coros) : delete_coros'[i] = delete_coros[i]
          /\ delete_coros'[Len(delete_coros) + 1] = c
      <4>1. delete_coros \in Seq(Coros) /\ delete_coros' = Append(delete_coros, c)
        BY <1>5, <2>1 DEF CoroTypes
      <4>2. QED
        BY <4>1, ListPush
    <3>2. /\ \A i \in 1 .. Len(delete_coros) : i \in 1 .. Len(delete_coros')
          /\ Len(delete_coros) + 1 \in 1 .. Len(delete_coros')
      BY <3>1
    <3>3. QED
      BY <3>1, <3>2, ListMembers
  <2>2. CASE ~is_done[c]
    BY <1>5, <2>2 DEF CoroTypes
  <2>3. QED
    BY <2>1, <2>2
<1>8. ListInv'
  <2>1. ASSUME NEW i \in 1 .. Len(coros), is_done[coros[i]]
        PROVE  i < pos + 1 /\ coros[i] \in ToSet(delete_coros')
    <3>1. CASE i = pos
      BY <1>2, <1>3, <1>7, <2>1, <3>1
    <3>2. CASE i # pos
      <4>1. i < pos /\ coros[i] \in ToSet(delete_coros)
        BY <2>1, <3>2 DEF QueuesInv, ListInv
      <4>2. QED
        BY <1>2, <1>7, <4>1
    <3>3. QED
      BY <3>1, <3>2
  <2>2. pos + 1 <= Len(coros) + 1
    BY <1>2
  <2>3. QED
    BY <1>1, <1>4, <2>1, <2>2 DEF QueuesInv, ListInv, NoRepeat
<1>9. JobsInv'
  BY <1>4 DEF QueuesInv, JobsInv, NoRepeat
<1>10. AnswerInv'
  <2>1. kind[c] \in {"sync", "destroyed"} /\ \A w \in Workers : job[w] # c
    BY <1>2, <1>3, ListedOnes, QueuedTasks
  <2>2. kind[c] # "destroyed"
    BY <1>6 DEF QueuesInv, AnswerInv
  <2>3. \A i \in pos + 1 .. Len(coros) : i \in pos .. Len(coros) /\ i \in 1 .. Len(coros) /\ i # pos
    BY <1>2
  <2>4. \A i \in pos + 1 .. Len(coros) : coros[i] # c
    BY <1>2, <1>3, <2>3, ListedOnes
  <2>5. /\ kind[c] = "none" => ~is_done[c]
        /\ kind[c] = "destroyed" => ret'[c] # Unset
        /\ ret'[c] # Unset =>
             /\ is_done[c]
             /\ \A i \in pos + 1 .. Len(coros) : coros[i] # c
             /\ \A w \in Workers : job[w] # c
    BY <1>6, <2>1, <2>2, <2>4
  <2>6. \A d \in Coros \ {c} :
          /\ kind[d] = "none" => ~is_done[d]
          /\ kind[d] = "destroyed" => ret'[d] # Unset
          /\ ret'[d] # Unset =>
               /\ is_done[d]
               /\ \A i \in pos + 1 .. Len(coros) : coros[i] # d
               /\ \A w \in Workers : job[w] # d
    BY <1>6, <2>3 DEF QueuesInv, AnswerInv
  <2>7. QED
    BY <1>1, <1>4, <2>5, <2>6 DEF AnswerInv
<1>11. PassedInv'
  <2>1. Turns' = Turns
    BY <1>1, <1>2 DEF Turns
  <2>2. QED
    BY <1>4, <2>1 DEF PassedInv
<1>12. StackInv'
  <2>1. parent[Sync] = Main
    BY <1>1, SyncRuns
  <2>2. {Sync} \in SUBSET Contexts /\ Main \in Threads
    BY CoroNames
  <2>3. Held(Main, {Sync})'
    BY <1>1, <1>4, <2>1, <2>2 DEF Held, BelongsTo, InSync
  <2>4. \A u \in Threads \ {Main} :
           /\ cur'[u] = cur[u]
           /\ \A d \in Contexts : BelongsTo(d, u) =>
                parent'[d] = parent[d] /\ BelongsTo(d, u)'
    BY <1>4 DEF BelongsTo
  <2>5. QED
    BY <2>2, <2>3, <2>4, OthersKeep
<1>13. CoroTypes'
  <2>1. pos + 1 \in Nat \ {0}
    BY <1>2
  <2>2. QED
    BY <1>1, <1>4, <1>6, <1>7, <2>1 DEF CoroTypes
<1>14. QED
  BY <1>8, <1>9, <1>10, <1>11, <1>12, <1>13 DEF QueuesInv

\* What an end of a pass keeps of the list is in it in the same order.
LEMMA KeptOfList ==
  ASSUME coros \in Seq(Coros), NEW kept \in Remaining
  PROVE  /\ kept \in Seq(Coros)
         /\ \E f : /\ \A i \in 1 .. Len(kept) :
                        /\ f[i] \in 1 .. Len(coros) /\ kept[i] = coros[f[i]]
                        /\ coros[f[i]] \notin ToSet(delete_coros)
                   /\ \A i, j \in 1 .. Len(kept) : i < j => f[i] < f[j]
<1> DEFINE left == {i \in DOMAIN coros : coros[i] \notin ToSet(delete_coros)}
           n == Cardinality(left)
<1>1. PICK f \in Bijection(1 .. n, left) :
        /\ \A i, j \in DOMAIN f : i < j => f[i] < f[j]
        /\ kept = [i \in DOMAIN f |-> coros[f[i]]]
  BY DEF Remaining
<1>2. DOMAIN coros = 1 .. Len(coros) /\ Len(coros) \in Nat
      /\ \A i \in 1 .. Len(coros) : coros[i] \in Coros
  OBVIOUS
<1>3. n \in Nat
  <2>1. IsFiniteSet(1 .. Len(coros))
    BY <1>2, FS_Interval
  <2>2. left \subseteq 1 .. Len(coros)
    BY <1>2
  <2>3. IsFiniteSet(left)
    BY <2>1, <2>2, FS_Subset
  <2>4. QED
    BY <2>3, FS_CardinalityType
<1>4. /\ DOMAIN f = 1 .. n
      /\ \A i \in 1 .. n : /\ f[i] \in 1 .. Len(coros)
                           /\ coros[f[i]] \notin ToSet(delete_coros)
  <2>1. f \in [1 .. n -> left]
    BY <1>1 DEF Bijection, Injection
  <2>2. \A i \in left : i \in 1 .. Len(coros) /\ coros[i] \notin ToSet(delete_coros)
    BY <1>2
  <2> HIDE DEF n, left
  <2>3. QED
    BY <2>1, <2>2
<1> HIDE DEF n
<1>5. kept \in Seq(Coros) /\ Len(kept) = n
  <2>1. kept \in [1 .. n -> Coros]
    BY <1>1, <1>2, <1>4
  <2>2. QED
    BY <1>3, <2>1
<1>6. \A i \in 1 .. n : kept[i] = coros[f[i]]
  BY <1>1, <1>4
<1>7. QED
  BY <1>1, <1>4, <1>5, <1>6

LEMMA EndOfPassKeeps == CoroInv /\ EndOfPass => CoroInv'
<1> SUFFICES ASSUME CoroInv, EndOfPass PROVE CoroInv'
  OBVIOUS
<1> USE DEF CoroInv
<1>1. PICK kept \in Remaining : coros' = kept \o new_coros
  BY DEF EndOfPass, Newcomers
<1>2. /\ InSync /\ ~called /\ pos > Len(coros)
      /\ delete_coros' = <<>> /\ new_coros' = <<>> /\ pos' = 1 /\ coro_yield(Main)
      /\ UNCHANGED <<called, passed, kind, home, is_done, tasks, job, ret>>
  BY DEF EndOfPass, bodyVars, poolVars
<1>3. kept \in Seq(Coros) /\ coros \in Seq(Coros) /\ new_coros \in Seq(Coros)
  BY KeptOfList DEF CoroTypes
<1>4. PICK f : /\ \A i \in 1 .. Len(kept) :
                    /\ f[i] \in 1 .. Len(coros) /\ kept[i] = coros[f[i]]
                    /\ coros[f[i]] \notin ToSet(delete_coros)
               /\ \A i, j \in 1 .. Len(kept) : i < j => f[i] < f[j]
  BY <1>3, KeptOfList
<1> DEFINE n == Len(kept)
           m == Len(new_coros)
<1>5. /\ n \in Nat /\ m \in Nat /\ Len(coros) \in Nat
      /\ coros' \in Seq(Coros) /\ Len(coros') = n + m
      /\ \A i \in 1 .. n : coros'[i] = kept[i]
      /\ \A i \in 1 .. m : coros'[n + i] = new_coros[i]
  BY <1>1, <1>3
<1>6. ASSUME NEW i \in 1 .. Len(coros')
      PROVE  \/ i \in 1 .. n /\ coros'[i] = kept[i]
             \/ i > n /\ i - n \in 1 .. m /\ coros'[i] = new_coros[i - n]
  <2> HIDE DEF n, m
  <2>1. i \in 1 .. n \/ (i > n /\ i - n \in 1 .. m /\ n + (i - n) = i)
    BY <1>5
  <2>2. QED
    BY <1>5, <2>1
<1>7. ASSUME NEW i \in 1 .. n
      PROVE  /\ kept[i] \in Coros /\ kind[kept[i]] \in {"sync", "destroyed"}
             /\ ~is_done[kept[i]]
             /\ \A j \in 1 .. m : kept[i] # new_coros[j]
  <2>1. /\ f[i] \in 1 .. Len(coros) /\ kept[i] = coros[f[i]]
        /\ coros[f[i]] \notin ToSet(delete_coros)
    BY <1>4
  <2>2. ~is_done[kept[i]]
    BY <1>2, <2>1 DEF QueuesInv, ListInv
  <2>3. QED
    BY <2>1, <2>2, ListedOnes
<1>8. ASSUME NEW i \in 1 .. m
      PROVE  /\ new_coros[i] \in Coros /\ kind[new_coros[i]] = "sync"
             /\ ~is_done[new_coros[i]] /\ passed[new_coros[i]] = {}
  BY ListedOnes DEF QueuesInv, ListInv, PassedInv
<1> HIDE DEF n, m
<1>9. \A i \in 1 .. Len(coros') :
        /\ coros'[i] \in Coros /\ kind[coros'[i]] \in {"sync", "destroyed"}
        /\ ~is_done[coros'[i]]
  BY <1>6, <1>7, <1>8
<1>10. NoRepeat(coros')
  <2>1. SUFFICES ASSUME NEW i \in 1 .. Len(coros'), NEW j \in 1 .. Len(coros'),
                        coros'[i] = coros'[j]
                 PROVE  i = j
    BY DEF NoRepeat
  <2>2. CASE i \in 1 .. n /\ j \in 1 .. n
    <3>1. coros[f[i]] = coros[f[j]] /\ f[i] \in 1 .. Len(coros) /\ f[j] \in 1 .. Len(coros)
      BY <1>4, <1>5, <2>1, <2>2 DEF n
    <3>2. f[i] = f[j]
      BY <3>1, ListedOnes
    <3>3. ~(i < j) /\ ~(j < i)
      <4>1. i \in 1 .. Len(kept) /\ j \in 1 .. Len(kept)
        BY <2>2 DEF n
      <4>2. (i < j => f[i] < f[j]) /\ (j < i => f[j] < f[i])
        BY <1>4, <4>1
      <4>3. f[i] \in Int
        BY <3>1
      <4>4. QED
        BY <3>2, <4>2, <4>3
    <3>4. QED
      BY <3>3
  <2>3. CASE i \in 1 .. n /\ j > n
    BY <1>6, <1>7, <2>1, <2>3, <1>5
  <2>4. CASE j \in 1 .. n /\ i > n
    BY <1>6, <1>7, <2>1, <2>4, <1>5
  <2>5. CASE i > n /\ j > n
    <3>1. /\ i - n \in 1 .. m /\ j - n \in 1 .. m
          /\ new_coros[i - n] = new_coros[j - n]
      BY <1>5, <1>6, <2>1, <2>5
    <3>2. i - n = j - n
      BY <3>1 DEF QueuesInv, ListInv, NoRepeat, m
    <3>3. QED
      BY <1>5, <3>2
  <2>6. QED
    BY <1>5, <2>2, <2>3, <2>4, <2>5
<1>11. Len(new_coros') = 0 /\ Len(coros') \in Nat
  BY <1>2, <1>5
<1>12. ListInv'
  <2>1. 1 <= Len(coros') + 1
    BY <1>11
  <2>2. QED
    BY <1>2, <1>9, <1>10, <1>11, <2>1 DEF ListInv, NoRepeat
<1>13. JobsInv'
  BY <1>2 DEF QueuesInv, JobsInv, NoRepeat
<1>14. AnswerInv'
  <2>1. \A d \in Coros : is_done[d] => \A i \in 1 .. Len(coros') : coros'[i] # d
    BY <1>9
  <2>2. QED
    BY <1>2, <2>1 DEF QueuesInv, AnswerInv
<1>15. PassedInv'
  <2>1. Turns' = 0 /\ Turns = Len(coros)
    <3>1. pos = Len(coros) + 1
      BY <1>2, <1>5, ListedOnes
    <3>2. QED
      BY <1>2, <1>5, <3>1 DEF Turns
  <2>2. ASSUME NEW i \in 1 .. Len(coros'), NEW j \in 1 .. Len(coros'),
               coros'[i] \in passed[coros'[j]]
        PROVE  j < i
    <3>1. j \in 1 .. n
      BY <1>6, <1>8, <2>2
    <3>2. i \in 1 .. n
      <4>1. /\ coros'[j] \in Coros
            /\ \A k \in 1 .. m : new_coros[k] # coros'[i]
        BY <1>9, <2>2 DEF PassedInv, m
      <4>2. QED
        BY <1>6, <4>1
    <3>3. /\ f[i] \in 1 .. Len(coros) /\ f[j] \in 1 .. Len(coros)
          /\ coros[f[i]] \in passed[coros[f[j]]]
          /\ i < j => f[i] < f[j]
      BY <1>4, <1>5, <2>2, <3>1, <3>2 DEF n
    <3>4. f[j] < f[i]
      <4>1. \/ f[i] <= Turns /\ Turns < f[j]
            \/ f[j] < f[i] /\ (f[i] <= Turns \/ Turns < f[j])
        BY <3>3 DEF PassedInv
      <4>2. QED
        BY <1>5, <2>1, <3>3, <4>1
    <3>5. i # j
      BY <3>3, <3>4
    <3>6. QED
      BY <3>1, <3>2, <3>3, <3>4, <3>5, <1>5
  <2>3. \A i, j \in 1 .. Len(coros') : coros'[i] \in passed[coros'[j]] => j < i /\ 0 < j
    BY <2>2, <1>11
  <2>4. \A i \in 1 .. Len(new_coros') : FALSE
    BY <1>11
  <2>5. QED
    BY <1>2, <2>1, <2>3, <2>4 DEF PassedInv
<1>16. StackInv' /\ CoroTypes'
  <2>1. Main \in Threads /\ parent[Sync] = Main /\ {} \in SUBSET Contexts
    BY <1>2, CoroNames, SyncRuns
  <2>2. cur' = [cur EXCEPT ![Main] = Main] /\ value' = [value EXCEPT ![Main] = Unset] /\ parent' = parent
    BY <1>2, <2>1 DEF coro_yield, SwitchTo, InSync
  <2>3. cur'[Main] = Main /\ \A u \in Threads \ {Main} : cur'[u] = cur[u]
    BY <2>1, <2>2 DEF CoroTypes
  <2>4. Held(Main, {})'
    BY <2>3 DEF Held
  <2>5. \A u \in Threads \ {Main} : \A d \in Contexts : BelongsTo(d, u) => BelongsTo(d, u)'
    BY <1>2, <2>2 DEF BelongsTo
  <2>6. StackInv'
    BY <2>1, <2>2, <2>3, <2>4, <2>5, OthersKeep
  <2>7. cur' \in [Threads -> Contexts \cup Threads] /\ value' \in [Threads -> Values]
    BY <2>1, <2>2 DEF CoroTypes, Values
  <2>8. <<>> \in Seq(Coros) /\ 1 \in Nat \ {0}
    OBVIOUS
  <2>9. QED
    BY <1>2, <1>5, <2>2, <2>6, <2>7, <2>8 DEF CoroTypes
<1>17. QED
  BY <1>12, <1>13, <1>14, <1>15, <1>16 DEF QueuesInv

LEMMA CoroStutters == CoroInv /\ UNCHANGED coroVars => CoroInv'
<1> SUFFICES ASSUME CoroInv, UNCHANGED coroVars PROVE CoroInv'
  OBVIOUS
<1>1. UNCHANGED <<kind, home, cur, value, parent, is_done, ret, coros, pos, delete_coros,
                  new_coros, passed, tasks, job, called>>
  BY DEF coroVars, bodyVars, syncVars, poolVars, switchVars
<1>2. QueuesInv' /\ PassedInv'
  BY <1>1, QueuesSame DEF CoroInv
<1>3. CoroTypes'
  BY <1>1 DEF CoroInv, CoroTypes
<1>4. StackInv'
  BY <1>1 DEF CoroInv, StackInv, Held, BelongsTo
<1>5. QED
  BY <1>2, <1>3, <1>4 DEF CoroInv

LEMMA NextCoroInv == CoroInv /\ [CoroNext]_coroVars => CoroInv'
<1> SUFFICES ASSUME CoroInv, [CoroNext]_coroVars PROVE CoroInv'
  OBVIOUS
<1>1. ASSUME NEW t \in Threads, UserStep(t) PROVE CoroInv'
  <2>1. CASE EndOfEntry(t)
    BY <2>1, EndOfEntryKeeps
  <2>2. CASE Yield(t) \/ AwaitYields(t)
    BY <2>2, CoroYieldKeeps
  <2>3. CASE AwaitReturns(t) \/ \E c \in Coros : await(t, c)
    BY <2>3, CoroWaitKeeps
  <2>4. ASSUME NEW c \in Coros, schedule_sync(t, c) PROVE CoroInv'
    BY <2>4, ScheduleSyncKeeps
  <2>5. ASSUME NEW c \in Coros, schedule_async(t, c) PROVE CoroInv'
    BY <2>5, ScheduleAsyncKeeps
  <2>6. ASSUME NEW c \in Coros, CallOwn(t, c) PROVE CoroInv'
    BY <2>6, CallOwnKeeps
  <2>7. ASSUME NEW c \in Coros, Destroy(t, c) PROVE CoroInv'
    BY <2>7, DestroyKeepsCoros
  <2>8. QED
    BY <1>1, <2>1, <2>2, <2>3, <2>4, <2>5, <2>6, <2>7 DEF UserStep
<1>2. ASSUME MainStep PROVE CoroInv'
  BY <1>1, <1>2, CoroNames, RunSyncKeeps, CallNextKeeps, LookAtCalledKeeps, EndOfPassKeeps
     DEF MainStep
<1>3. ASSUME NEW w \in Workers, WorkerStep(w) PROVE CoroInv'
  BY <1>1, <1>3, CoroNames, TakeTaskKeeps, CallAgainKeeps, StoreAnswerKeeps DEF WorkerStep
<1>4. QED
  BY <1>2, <1>3, CoroStutters DEF CoroNext

LEMMA CoroInvariance == CoroSpec => []CoroInv
<1>1. QED
  BY InitCoroInv, NextCoroInv, PTL DEF CoroSpec

\* A step that leaves stages and answers alone is a stutter of the future.
LEMMA FutureStutters ==
  ASSUME UNCHANGED <<kind, is_done, ret>>
  PROVE  UNCHANGED <<[c \in Coros |-> StageOf(c)], ret>>
BY DEF StageOf

LEMMA FutureEnds ==
  ASSUME CoroInv, NEW t \in Threads, EndOfEntry(t)
  PROVE  [TheFuture!Next]_<<[c \in Coros |-> StageOf(c)], ret>>
<1>1. PICK c \in Coros : c = cur[t]
  BY DEF EndOfEntry, InBody
<1>2. /\ is_done' = [is_done EXCEPT ![c] = TRUE] /\ UNCHANGED <<kind, ret>>
      /\ is_done \in [Coros -> BOOLEAN]
      /\ ~is_done[c] /\ kind[c] \in {"sync", "async", "own"}
  BY <1>1, BodyRuns DEF CoroInv, CoroTypes, EndOfEntry
<1>3. is_done'[c] /\ \A d \in Coros \ {c} : is_done'[d] = is_done[d]
  BY <1>2
<1>4. \A d \in Coros \ {c} : StageOf(d)' = StageOf(d)
  BY <1>2, <1>3 DEF StageOf
<1>5. CASE kind[c] = "own"
  <2>1. StageOf(c)' = StageOf(c)
    BY <1>2, <1>5 DEF StageOf
  <2>2. UNCHANGED <<[d \in Coros |-> StageOf(d)], ret>>
    BY <1>2, <1>4, <2>1
  <2>3. QED
    BY <2>2
<1>6. CASE kind[c] \in {"sync", "async"}
  <2>1. StageOf(c) = "scheduled" /\ StageOf(c)' = "ended"
    BY <1>2, <1>3, <1>6 DEF StageOf
  <2>2. [d \in Coros |-> StageOf(d)]' = [[d \in Coros |-> StageOf(d)] EXCEPT ![c] = "ended"]
    BY <1>4, <2>1
  <2>3. TheFuture!End(c)
    BY <1>2, <2>1, <2>2 DEF TheFuture!End
  <2>4. QED
    BY <2>3 DEF TheFuture!Next
<1>7. QED
  BY <1>2, <1>5, <1>6

LEMMA FutureSchedules ==
  ASSUME CoroInv, NEW t \in Threads, NEW c \in Coros,
         schedule_sync(t, c) \/ schedule_async(t, c)
  PROVE  TheFuture!Next
<1>1. /\ kind \in [Coros -> {"none", "sync", "async", "own", "destroyed"}]
      /\ kind[c] = "none" /\ ~is_done[c]
      /\ UNCHANGED <<is_done, ret>>
  BY DEF CoroInv, CoroTypes, QueuesInv, AnswerInv, schedule_sync, schedule_async
<1>2. kind'[c] \in {"sync", "async"} /\ \A d \in Coros \ {c} : kind'[d] = kind[d]
  BY <1>1 DEF schedule_sync, schedule_async
<1>3. StageOf(c) = "unscheduled" /\ StageOf(c)' = "scheduled"
  BY <1>1, <1>2 DEF StageOf
<1>4. \A d \in Coros \ {c} : StageOf(d)' = StageOf(d)
  BY <1>1, <1>2 DEF StageOf
<1>5. [d \in Coros |-> StageOf(d)]' = [[d \in Coros |-> StageOf(d)] EXCEPT ![c] = "scheduled"]
  BY <1>3, <1>4
<1>6. TheFuture!Schedule(c)
  BY <1>1, <1>3, <1>5 DEF TheFuture!Schedule
<1>7. QED
  BY <1>6 DEF TheFuture!Next

\* Calls of one's own and destructions are no business of the future.
LEMMA FutureIgnores ==
  ASSUME CoroInv, NEW t \in Threads, NEW c \in Coros, CallOwn(t, c) \/ Destroy(t, c)
  PROVE  UNCHANGED <<[d \in Coros |-> StageOf(d)], ret>>
<1>1. /\ kind \in [Coros -> {"none", "sync", "async", "own", "destroyed"}]
      /\ UNCHANGED <<is_done, ret>>
  BY DEF CoroInv, CoroTypes, CallOwn, Destroy
<1>2. /\ \A d \in Coros \ {c} : kind'[d] = kind[d]
      /\ \/ kind[c] \in {"none", "own"} /\ kind'[c] = "own"
         \/ kind[c] \in {"sync", "async"} /\ kind'[c] = "destroyed"
  BY <1>1 DEF CallOwn, Destroy, Scheduled
<1>3. \A d \in Coros : StageOf(d)' = StageOf(d)
  BY <1>1, <1>2 DEF StageOf
<1>4. QED
  BY <1>1, <1>3

\* A scheduler looks at the one it has called.
LEMMA FutureAnswers ==
  ASSUME CoroInv, LookAtCalled \/ \E w \in Workers : StoreAnswer(w)
  PROVE  [TheFuture!Next]_<<[c \in Coros |-> StageOf(c)], ret>>
<1>1. UNCHANGED <<kind, is_done>>
  BY DEF LookAtCalled, StoreAnswer, bodyVars
<1>2. UNCHANGED [c \in Coros |-> StageOf(c)]
  BY <1>1 DEF StageOf
<1>3. CASE UNCHANGED ret
  BY <1>2, <1>3
<1>4. ASSUME NEW c \in Coros, NEW v \in Values, ret' = [ret EXCEPT ![c] = v],
             is_done[c], kind[c] \in {"sync", "async"}, ret[c] = Unset
      PROVE  [TheFuture!Next]_<<[d \in Coros |-> StageOf(d)], ret>>
  <2>1. CASE v = Unset
    <3>1. ret' = ret
      BY <1>4, <2>1 DEF CoroInv, CoroTypes
    <3>2. QED
      BY <1>2, <3>1
  <2>2. CASE v # Unset
    <3>1. StageOf(c) = "ended"
      BY <1>4 DEF StageOf
    <3>2. TheFuture!Answer(c)
      BY <1>2, <1>4, <2>2, <3>1 DEF TheFuture!Answer
    <3>3. QED
      BY <3>2 DEF TheFuture!Next
  <2>3. QED
    BY <2>1, <2>2
<1>5. CASE LookAtCalled
  <2>1. called /\ pos \in 1 .. Len(coros) /\ pos \in pos .. Len(coros)
    <3>1. called
      BY <1>5 DEF LookAtCalled
    <3>2. pos \in 1 .. Len(coros)
      BY <3>1, ListedOnes
    <3>3. QED
      BY <3>1, <3>2
  <2>2. PICK c \in Coros : c = coros[pos]
    BY <2>1, ListedOnes
  <2>3. ret[c] = Unset /\ kind[c] = "sync"
    BY <2>1, <2>2, ListedOnes DEF CoroInv, QueuesInv, AnswerInv
  <2>4. CASE is_done[c]
    <3>1. ret' = [ret EXCEPT ![c] = value[Main]] /\ value[Main] \in Values
      BY <1>5, <2>2, <2>4, CoroNames DEF LookAtCalled, coro_done, CoroInv, CoroTypes
    <3>2. QED
      BY <1>4, <2>3, <2>4, <3>1
  <2>5. CASE ~is_done[c]
    <3>1. ret' = ret
      BY <1>5, <2>2, <2>5 DEF LookAtCalled, coro_done
    <3>2. QED
      BY <1>3, <3>1
  <2>6. QED
    BY <2>4, <2>5
<1>6. ASSUME NEW w \in Workers, StoreAnswer(w)
      PROVE  [TheFuture!Next]_<<[d \in Coros |-> StageOf(d)], ret>>
  <2>1. PICK c \in Coros : c = job[w]
    BY <1>6 DEF StoreAnswer, CoroInv, CoroTypes
  <2>2. /\ is_done[c] /\ ret' = [ret EXCEPT ![c] = value[w]] /\ value[w] \in Values
    BY <1>6, <2>1, CoroNames DEF StoreAnswer, coro_done, CoroInv, CoroTypes
  <2>3. kind[c] = "async" /\ ret[c] = Unset
    BY <2>1, QueuedTasks DEF CoroInv, QueuesInv, AnswerInv
  <2>4. QED
    BY <1>4, <2>2, <2>3
<1>7. QED
  BY <1>5, <1>6

LEMMA FutureSteps ==
  CoroInv /\ [CoroNext]_coroVars => [TheFuture!Next]_<<[c \in Coros |-> StageOf(c)], ret>>
<1> SUFFICES ASSUME CoroInv, [CoroNext]_coroVars
             PROVE  [TheFuture!Next]_<<[c \in Coros |-> StageOf(c)], ret>>
  OBVIOUS
<1>1. ASSUME UNCHANGED <<kind, is_done, ret>>
      PROVE  [TheFuture!Next]_<<[c \in Coros |-> StageOf(c)], ret>>
  BY <1>1, FutureStutters
<1>2. ASSUME NEW t \in Threads, UserStep(t)
      PROVE  [TheFuture!Next]_<<[c \in Coros |-> StageOf(c)], ret>>
  <2>1. CASE EndOfEntry(t)
    BY <2>1, FutureEnds
  <2>2. CASE Yield(t) \/ AwaitReturns(t) \/ AwaitYields(t) \/ \E c \in Coros : await(t, c)
    <3>1. UNCHANGED <<kind, is_done, ret>>
      BY <2>2 DEF Yield, AwaitReturns, AwaitYields, await, bodyVars
    <3>2. QED
      BY <1>1, <3>1
  <2>3. ASSUME NEW c \in Coros, schedule_sync(t, c) \/ schedule_async(t, c)
        PROVE  [TheFuture!Next]_<<[d \in Coros |-> StageOf(d)], ret>>
    BY <2>3, FutureSchedules
  <2>4. ASSUME NEW c \in Coros, CallOwn(t, c) \/ Destroy(t, c)
        PROVE  [TheFuture!Next]_<<[d \in Coros |-> StageOf(d)], ret>>
    BY <2>4, FutureIgnores
  <2>5. QED
    BY <1>2, <2>1, <2>2, <2>3, <2>4 DEF UserStep
<1>3. ASSUME \/ UNCHANGED coroVars \/ run_sync \/ CallNext \/ EndOfPass
             \/ \E w \in Workers : TakeTask(w) \/ CallAgain(w)
      PROVE  [TheFuture!Next]_<<[c \in Coros |-> StageOf(c)], ret>>
  <2>1. UNCHANGED <<kind, is_done, ret>>
    BY <1>3 DEF coroVars, bodyVars, run_sync, CallNext, EndOfPass, TakeTask, CallAgain
  <2>2. QED
    BY <1>1, <2>1
<1>4. QED
  BY <1>2, <1>3, CoroNames, FutureAnswers DEF CoroNext, MainStep, WorkerStep
-----------------------------------------------------------------------------
\* A coroutine that has ended or was destroyed never runs again: every context
\* that a thread has in progress can still be gone back to (_coro_enter, which
\* leaves for the thread's own context, and coro_yield).
THEOREM NoCoroutineRunsAfterItsEnd == CoroSpec => []NoneRunsAfterEnd
<1>1. CoroInv => NoneRunsAfterEnd
  BY BodyRuns DEF CoroInv, NoneRunsAfterEnd
<1>2. QED
  BY <1>1, CoroInvariance, PTL

\* No scheduler will use a coroutine again once a peek has shown its answer, so
\* that it may be destroyed (qb_coro_destroy).
THEOREM DestroyedOnesAreLetGo == CoroSpec => []SafeToDestroy
<1>1. CoroInv => SafeToDestroy
  <2> SUFFICES ASSUME CoroInv, NEW c \in Coros, kind[c] = "destroyed"
               PROVE  /\ \A i \in pos .. Len(coros) : coros[i] # c
                      /\ c \notin ToSet(new_coros) \cup ToSet(tasks)
                      /\ \A w \in Workers : job[w] # c
    BY DEF SafeToDestroy
  <2>1. /\ is_done[c] /\ \A i \in pos .. Len(coros) : coros[i] # c
        /\ \A w \in Workers : job[w] # c
    BY DEF CoroInv, QueuesInv, AnswerInv
  <2>2. new_coros \in Seq(Coros) /\ tasks \in Seq(Coros)
    BY DEF CoroInv, CoroTypes
  <2>3. c \notin ToSet(new_coros)
    <3>1. \A i \in 1 .. Len(new_coros) : new_coros[i] # c
      BY ListedOnes
    <3>2. QED
      BY <2>2, <3>1, ListMembers
  <2>4. c \notin ToSet(tasks)
    <3>1. \A i \in 1 .. Len(tasks) : tasks[i] # c
      BY QueuedTasks
    <3>2. QED
      BY <2>2, <3>1, ListMembers
  <2>5. QED
    BY <2>1, <2>3, <2>4
<1>2. QED
  BY <1>1, CoroInvariance, PTL

\* A scheduled coroutine is answered once, after its end, and for good: the
\* schedulers implement Future, step by step.
THEOREM CoroutinesAreFutures == CoroSpec => ImplementsFuture
<1>1. CoroInit => TheFuture!Init
  BY DEF CoroInit, TheFuture!Init, StageOf
<1>2. CoroInv /\ [CoroNext]_coroVars => [TheFuture!Next]_<<[c \in Coros |-> StageOf(c)], ret>>
  BY FutureSteps
<1>3. QED
  BY <1>1, <1>2, CoroInvariance, PTL DEF CoroSpec, ImplementsFuture, TheFuture!Spec

\* The scheduler of the synchronous coroutines gives nobody a turn twice while
\* another that is listed waits for one (run_sync, the loop of sync_coro_).
THEOREM CoroutinesTakeTurns == CoroSpec => NoOvertaking
<1> DEFINE Turn ==
      \A c \in Coros : ~called /\ called' /\ cur'[Main] = c =>
        \A d \in ToSet(coros) : c \notin passed[d]
<1>1. CoroInv /\ [CoroNext]_coroVars => Turn
  <2> SUFFICES ASSUME CoroInv, [CoroNext]_coroVars, NEW c \in Coros,
                      ~called, called', cur'[Main] = c, NEW d \in ToSet(coros)
               PROVE  c \notin passed[d]
    OBVIOUS
  <2>1. CASE CallNext
    <3>1. coros \in Seq(Coros) /\ pos <= Len(coros) /\ pos \in Nat \ {0} /\ Len(coros) \in Nat
      BY <2>1 DEF CallNext, CoroInv, CoroTypes
    <3>2. pos \in 1 .. Len(coros) /\ c = coros[pos]
      <4>1. cur'[Main] = coros[pos]
        BY <2>1, CoroNames DEF CallNext, coro_call, SwitchTo, CoroInv, CoroTypes
      <4>2. QED
        BY <3>1, <4>1
    <3>3. PICK j \in 1 .. Len(coros) : coros[j] = d
      BY <3>1, ListMembers
    <3>4. Turns = pos - 1
      BY DEF Turns
    <3>5. ~(pos <= pos - 1 /\ pos - 1 < j) /\ ~(j < pos /\ (pos <= pos - 1 \/ pos - 1 < j))
      BY <3>1, <3>3
    <3>6. QED
      BY <3>2, <3>3, <3>4, <3>5 DEF CoroInv, PassedInv
  <2>2. CASE ~CallNext
    <3>1. \A t \in Threads : UserStep(t) => called' = called
      <4>1. SUFFICES ASSUME NEW t \in Threads, UserStep(t) PROVE called' = called
        OBVIOUS
      <4>2. EndOfEntry(t) \/ Yield(t) \/ AwaitReturns(t) \/ AwaitYields(t) => called' = called
        BY DEF EndOfEntry, Yield, AwaitReturns, AwaitYields, switchVars
      <4>3. \A e \in Coros :
              schedule_sync(t, e) \/ schedule_async(t, e) \/ CallOwn(t, e) \/ await(t, e)
                \/ Destroy(t, e) => called' = called
        BY DEF schedule_sync, schedule_async, CallOwn, await, Destroy, switchVars
      <4>4. QED
        BY <4>1, <4>2, <4>3 DEF UserStep
    <3>2. run_sync \/ LookAtCalled \/ EndOfPass => called' = called \/ called' = FALSE
      BY DEF run_sync, LookAtCalled, EndOfPass
    <3>3. \A w \in Workers : TakeTask(w) \/ CallAgain(w) \/ StoreAnswer(w) => called' = called
      BY DEF TakeTask, CallAgain, StoreAnswer, switchVars
    <3>4. UNCHANGED coroVars => called' = called
      BY DEF coroVars, switchVars
    <3>5. called' = called \/ called' = FALSE
      BY <2>2, <3>1, <3>2, <3>3, <3>4, CoroNames DEF CoroNext, MainStep, WorkerStep
    <3>6. QED
      BY <3>5
  <2>3. QED
    BY <2>1, <2>2
<1> HIDE DEF Turn
<1>2. CoroSpec => [][Turn]_coroVars
  BY <1>1, CoroInvariance, PTL DEF CoroSpec
<1>3. QED
  BY <1>2 DEF Turn, NoOvertaking
=============================================================================
