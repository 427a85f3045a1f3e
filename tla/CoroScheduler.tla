---------------------------- MODULE CoroScheduler ----------------------------
(***************************************************************************)
(* Coroutines: switching between them (src/src/coro.cpp), and the two      *)
(* schedulers (coro_scheduler.cpp, thread_pool.h).                         *)
(*                                                                         *)
(* A thread runs one context at a time, cur[t]: its own one, which is named*)
(* like the thread (_on_exit in the code), a coroutine, or, on the main    *)
(* thread, the scheduler of the synchronous ones, itself a coroutine.      *)
(* Yielding goes back to the context that called; ending goes back to the  *)
(* thread's own context, whoever called.  So a coroutine that ends leaves  *)
(* the scheduler in the middle of its pass, and the next run_sync resumes  *)
(* it there.  The body of a coroutine is any sequence of at most MaxSteps  *)
(* yields, awaits and calls, and of any number of starts and destructions. *)
(***************************************************************************)
EXTENDS Naturals, FiniteSets, Sequences, SequencesExt

CONSTANTS
  Coros,
  Main, Workers,   \* the threads, and their own contexts
  Sync,            \* sync_coro_
  Nobody,
  AwaitOrder,      \* pairs of coroutines: which may await which
  MaxSteps         \* bound: yields, awaits and calls in a body

Threads == Workers \cup {Main}

ASSUME CoroAssumption ==
  /\ MaxSteps \in Nat
  /\ IsFiniteSet(Coros)
  /\ Main \notin Workers
  /\ Coros \cap Threads = {} /\ Sync \notin Coros \cup Threads
  /\ Nobody \notin Coros \cup Threads \cup {Sync}
  /\ AwaitOrder \subseteq Coros \X Coros

VARIABLES
  kind,       \* "none", "sync", "async", "own" (qb_coro_create) or "destroyed"
  home,       \* the thread that made an "own" coroutine, the only one to call it
  cur,        \* _cur of each thread
  value,      \* _value of each thread: what the context switched to is given
  parent,     \* who called it last
  is_done,
  ret,        \* what a peek sees
  awaiting,   \* whom the coroutine awaits
  steps,      \* of each body, and of the host: how many it has taken
  coros, pos, delete_coros, new_coros,  \* SyncCoros, and the position of the loop
  tasks, job, \* the pool's queue, and the task of each worker
  called,     \* sync_coro_ has called coros[pos] and not looked at it since
  passed      \* history: of each listed coroutine, those that had a turn since its last

bodyVars == <<kind, home, is_done, awaiting, steps>>
syncVars == <<coros, pos, delete_coros, new_coros, passed>>
poolVars == <<tasks, job>>
switchVars == <<cur, value, parent, called>>
coroVars == <<bodyVars, syncVars, poolVars, switchVars, ret>>

Scheduled(c) == kind[c] \in {"sync", "async"}

\* What a switch may carry: qbFuture, the argument of a coroutine, that of
\* run_sync, or the handle of a coroutine that has ended.  What its entry returned
\* is dropped.
Unset == "future"
Values == {Unset, "arg", "coros", "handle"}

\* The contexts of a thread that wait for the one it runs, and that one.
Active(t) ==
  LET up[n \in Nat] == IF n = 0 THEN cur[t]
                       ELSE IF up[n - 1] = t THEN t ELSE parent[up[n - 1]]
  IN  {up[n] : n \in 0 .. Cardinality(Coros) + 1}

\* The code of users: the host between two loops, or the body of a coroutine.
InBody(t) == cur[t] \in Coros /\ awaiting[cur[t]] = Nobody
HostRuns(t) == t = Main /\ cur[t] = Main
MayStep(t) == (InBody(t) \/ HostRuns(t)) /\ steps[cur[t]] < MaxSteps
CountStep(t) == steps' = [steps EXCEPT ![cur[t]] = @ + 1]
-----------------------------------------------------------------------------
(* Switching.                                                              *)

SwitchTo(t, c, v) ==
  /\ cur' = [cur EXCEPT ![t] = c]
  /\ value' = [value EXCEPT ![t] = v]

\* Mutants: a caller remembered from the first call only; one that has been
\* called taken for done.
FirstCall(t, c, v) ==
  /\ SwitchTo(t, c, v)
  /\ parent' = [parent EXCEPT ![c] = IF @ = Nobody THEN cur[t] ELSE @]
WasCalled(c) == parent[c] # Nobody

coro_call(t, c, v) ==
  /\ SwitchTo(t, c, v)
  /\ parent' = [parent EXCEPT ![c] = cur[t]]

coro_done(c) == is_done[c]

\* qbFuture or anything else: nobody looks at what a running coroutine yields.
coro_yield(t) ==
  /\ SwitchTo(t, parent[cur[t]], Unset)
  /\ UNCHANGED parent

\* _coro_enter: what start returns is dropped.  Of the qbVar that is passed on
\* only the pointer was written: the tag may be any, the one of qbFuture too.
EndOfEntry(t) ==
  /\ InBody(t)
  /\ is_done' = [is_done EXCEPT ![cur[t]] = TRUE]
  /\ \E v \in {"handle", Unset} : SwitchTo(t, t, v)
  /\ UNCHANGED <<parent, called, kind, home, awaiting, steps, syncVars, poolVars, ret>>
-----------------------------------------------------------------------------
(* What users may call.                                                    *)

schedule_sync(t, c) ==
  /\ InBody(t) \/ HostRuns(t)
  /\ kind[c] = "none"
  /\ kind' = [kind EXCEPT ![c] = "sync"]
  /\ new_coros' = Append(new_coros, c)
  /\ UNCHANGED <<home, is_done, awaiting, steps, coros, pos, delete_coros, passed,
                 poolVars, switchVars, ret>>

schedule_async(t, c) ==
  /\ InBody(t) \/ HostRuns(t)
  /\ kind[c] = "none"
  /\ kind' = [kind EXCEPT ![c] = "async"]
  /\ tasks' = Append(tasks, c)
  /\ UNCHANGED <<home, is_done, awaiting, steps, syncVars, job, switchVars, ret>>

\* qb_coro_create with the first qb_coro_call, and later calls, which are made
\* on the thread that created it, and not while it runs or waits for a call.
CallOwn(t, c) ==
  /\ MayStep(t)
  /\ \/ kind[c] = "none"
     \/ kind[c] = "own" /\ home[c] = t /\ ~is_done[c] /\ c \notin Active(t)
  /\ kind' = [kind EXCEPT ![c] = "own"]
  /\ home' = [home EXCEPT ![c] = t]
  /\ CountStep(t)
  /\ coro_call(t, c, "arg")
  /\ UNCHANGED <<is_done, awaiting, called, syncVars, poolVars, ret>>

Yield(t) ==
  /\ InBody(t) /\ MayStep(t)
  /\ CountStep(t)
  /\ coro_yield(t)
  /\ UNCHANGED <<kind, home, is_done, awaiting, called, syncVars, poolVars, ret>>

\* Of a scheduled coroutine, from within another one.
await(t, c) ==
  /\ InBody(t) /\ MayStep(t)
  /\ Scheduled(c) /\ <<cur[t], c>> \in AwaitOrder
  /\ CountStep(t)
  /\ awaiting' = [awaiting EXCEPT ![cur[t]] = c]
  /\ UNCHANGED <<kind, home, is_done, switchVars, syncVars, poolVars, ret>>

Awaits(t) == cur[t] \in Coros /\ awaiting[cur[t]] # Nobody

AwaitReturns(t) ==
  /\ Awaits(t) /\ ret[awaiting[cur[t]]] # Unset
  /\ awaiting' = [awaiting EXCEPT ![cur[t]] = Nobody]
  /\ UNCHANGED <<kind, home, is_done, steps, switchVars, syncVars, poolVars, ret>>

AwaitYields(t) ==
  /\ Awaits(t) /\ ret[awaiting[cur[t]]] = Unset
  /\ coro_yield(t)
  /\ UNCHANGED <<bodyVars, called, syncVars, poolVars, ret>>

\* qb_coro_destroy of one that a peek shows to be done, and nobody awaits.
Destroy(t, c) ==
  /\ InBody(t) \/ HostRuns(t)
  /\ Scheduled(c) /\ ret[c] # Unset
  /\ \A d \in Coros : awaiting[d] # c
  /\ kind' = [kind EXCEPT ![c] = "destroyed"]
  /\ UNCHANGED <<home, is_done, awaiting, steps, syncVars, poolVars, switchVars, ret>>
-----------------------------------------------------------------------------
(* The scheduler of the synchronous coroutines.                            *)

\* The host's loop calls it after the programs have run.
run_sync ==
  /\ HostRuns(Main)
  /\ coro_call(Main, Sync, "coros")
  /\ UNCHANGED <<called, bodyVars, syncVars, poolVars, ret>>

InSync == cur[Main] = Sync

CallNext ==
  /\ InSync /\ ~called
  /\ pos <= Len(coros)
  /\ LET c == coros[pos]
     IN  /\ coro_call(Main, c, "arg")
         /\ passed' = [d \in Coros |-> IF d = c \/ d \notin ToSet(coros) THEN {}
                                       ELSE passed[d] \cup {c}]
  /\ called' = TRUE
  /\ UNCHANGED <<bodyVars, coros, pos, delete_coros, new_coros, poolVars, ret>>

\* Mutants: the list started over after an end; those that have ended kept;
\* the list of new ones cleared before it is copied.
FirstAfterEnd == IF is_done[coros[pos]] THEN 1 ELSE pos + 1
All == {coros}
ClearedFirst == <<>>

NextPos == pos + 1
Newcomers == new_coros

\* What is left of coros, in the same order.
Remaining ==
  LET left == {i \in DOMAIN coros : coros[i] \notin ToSet(delete_coros)}
  IN  {[i \in DOMAIN order |-> coros[order[i]]] :
         order \in {f \in Bijection(1 .. Cardinality(left), left) :
                      \A i, j \in DOMAIN f : i < j => f[i] < f[j]}}

\* The call returns, by a yield or by the next run_sync.
LookAtCalled ==
  /\ InSync /\ called
  /\ LET c == coros[pos]
     IN  IF coro_done(c)
         THEN /\ ret' = [ret EXCEPT ![c] = value[Main]]
              /\ delete_coros' = Append(delete_coros, c)
         ELSE UNCHANGED <<ret, delete_coros>>
  /\ pos' = NextPos
  /\ called' = FALSE
  /\ UNCHANGED <<cur, value, parent, bodyVars, coros, new_coros, passed, poolVars>>

\* Those that have ended go, new ones come in, and run_sync returns.
EndOfPass ==
  /\ InSync /\ ~called
  /\ pos > Len(coros)
  /\ \E kept \in Remaining : coros' = kept \o Newcomers
  /\ delete_coros' = <<>> /\ new_coros' = <<>>
  /\ pos' = 1
  /\ coro_yield(Main)
  /\ UNCHANGED <<called, passed, bodyVars, poolVars, ret>>
-----------------------------------------------------------------------------
(* The pool.  A worker asleep on the condition variable is one that takes  *)
(* the next task; the predicate is tested under the lock of the queue.     *)

TakeTask(w) ==
  /\ cur[w] = w /\ job[w] = Nobody
  /\ tasks # <<>>
  /\ job' = [job EXCEPT ![w] = Head(tasks)]
  /\ tasks' = Tail(tasks)
  /\ coro_call(w, Head(tasks), "arg")
  /\ UNCHANGED <<called, bodyVars, syncVars, ret>>

\* The do-while loop, when the coroutine has yielded.
CallAgain(w) ==
  /\ cur[w] = w /\ job[w] # Nobody
  /\ ~coro_done(job[w])
  /\ coro_call(w, job[w], "arg")
  /\ UNCHANGED <<called, bodyVars, syncVars, poolVars, ret>>

\* Once it has ended, what it left is stored.
StoreAnswer(w) ==
  /\ cur[w] = w /\ job[w] # Nobody
  /\ coro_done(job[w])
  /\ ret' = [ret EXCEPT ![job[w]] = value[w]]
  /\ job' = [job EXCEPT ![w] = Nobody]
  /\ UNCHANGED <<bodyVars, syncVars, switchVars, tasks>>
-----------------------------------------------------------------------------
CoroInit ==
  /\ kind = [c \in Coros |-> "none"]
  /\ home = [c \in Coros |-> Nobody]
  /\ cur = [t \in Threads |-> t]
  /\ value = [t \in Threads |-> Unset]
  /\ parent = [c \in Coros \cup {Sync} |-> Nobody]
  /\ is_done = [c \in Coros |-> FALSE]
  /\ ret = [c \in Coros |-> Unset]
  /\ awaiting = [c \in Coros |-> Nobody]
  /\ steps = [c \in Coros \cup {Main} |-> 0]
  /\ coros = <<>> /\ pos = 1 /\ delete_coros = <<>> /\ new_coros = <<>>
  /\ tasks = <<>>
  /\ job = [w \in Workers |-> Nobody]
  /\ called = FALSE
  /\ passed = [c \in Coros |-> {}]

UserStep(t) ==
  \/ EndOfEntry(t) \/ Yield(t) \/ AwaitReturns(t) \/ AwaitYields(t)
  \/ \E c \in Coros :
       schedule_sync(t, c) \/ schedule_async(t, c) \/ CallOwn(t, c)
         \/ await(t, c) \/ Destroy(t, c)

MainStep == UserStep(Main) \/ run_sync \/ CallNext \/ LookAtCalled \/ EndOfPass
WorkerStep(w) == UserStep(w) \/ TakeTask(w) \/ CallAgain(w) \/ StoreAnswer(w)

CoroNext == MainStep \/ \E w \in Workers : WorkerStep(w)

\* Threads run, and the host keeps calling qb_loop.
CoroFairness == WF_coroVars(MainStep) /\ \A w \in Workers : WF_coroVars(WorkerStep(w))

CoroSpec == CoroInit /\ [][CoroNext]_coroVars
FairCoroSpec == CoroSpec /\ CoroFairness
-----------------------------------------------------------------------------
(* Refinement and properties.                                              *)

StageOf(c) ==
  IF kind[c] \in {"none", "own"} THEN "unscheduled"
  ELSE IF is_done[c] THEN "ended" ELSE "scheduled"

TheFuture ==
  INSTANCE Future WITH stage <- [c \in Coros |-> StageOf(c)], answer <- ret,
                       Answers <- Values \ {Unset}

\* A scheduled coroutine is answered once, only after its entry has returned,
\* and the answer stays, although the main thread and the workers write it
\* without the lock under which it is read, and a frame after the end.
ImplementsFuture == TheFuture!Spec

\* A coroutine that has ended, or was destroyed, is never switched to again:
\* not by a scheduler, and not by the yield of a coroutine it once called.
NoneRunsAfterEnd ==
  \A t \in Threads : cur[t] \in Coros =>
    ~is_done[cur[t]] /\ kind[cur[t]] # "destroyed"

\* What cubez.h says of qb_coro_destroy: once a peek shows that a coroutine is
\* done, no scheduler will use it again, even in the pass that has listed it.
SafeToDestroy ==
  \A c \in Coros : kind[c] = "destroyed" =>
    /\ \A i \in pos .. Len(coros) : coros[i] # c
    /\ c \notin ToSet(new_coros) \cup ToSet(tasks)
    /\ \A w \in Workers : job[w] # c

\* The synchronous coroutines take turns: between two turns of one, each other
\* that is listed has had one, although every end interrupts the pass and the
\* list changes as coroutines end and new ones come in.
NoOvertaking ==
  [][ \A c \in Coros :
        ~called /\ called' /\ cur'[Main] = c =>
          \A d \in ToSet(coros) : c \notin passed[d] ]_coroVars

\* An asynchronous coroutine whose end was stored with the tag of qbFuture.
Unanswered(c) ==
  kind[c] = "async" /\ is_done[c] /\ ret[c] = Unset /\ \A w \in Workers : job[w] # c

\* Every scheduled coroutine ends, and a synchronous one is answered, unless it
\* awaits one whose answer was lost: ends that cut a pass short, coroutines left
\* in the middle of a call, and awaits on any thread do not keep it from that.
EveryCoroutineEnds ==
  \A c \in Coros :
    Scheduled(c) ~>
      \/ is_done[c] /\ (kind[c] = "sync" => ret[c] # Unset)
      \/ awaiting[c] # Nobody /\ Unanswered(awaiting[c])
=============================================================================
