------------------------------ MODULE FrameRun ------------------------------
(***************************************************************************)
(* A frame with the systems in it: the handshake of TaskPool, each thread  *)
(* running the loop systems of its program (ProgramImpl::Run), each system *)
(* taking the barrier tickets of its attributes around its transform       *)
(* (SystemImpl::Run, Barrier::Ticket), and its shared components.          *)
(*                                                                         *)
(* A system with several tickets locks them in the order addbarrier gave   *)
(* them and keeps all their mutexes until its transform returns.  One that *)
(* walks one component locks it for the walk; one that joins several locks *)
(* and unlocks each of them before it starts.  The lock of a component that*)
(* is not shared does nothing.                                             *)
(***************************************************************************)
EXTENDS TaskPool, Sequences, FiniteSets, SequencesExt

CONSTANTS
  Systems,      \* the loop systems
  Barriers,
  ProgramOf,    \* the program of each system
  TicketsOf,    \* the tickets of each system: a sequence of [barrier, order]
  Conditional,  \* systems that need not run in a frame: their condition may be
                \* false, or they have a callback and no transform
  Switched,     \* systems the host disables and enables between frames
  Components,
  Shared,       \* those that were set to be shared across programs
  ComponentsOf, \* those of each system: a sequence of [component, is_mutable]
  Nobody        \* no thread owns the mutex

ASSUME FrameRunAssumption ==
  /\ ProgramOf \in [Systems -> 0 .. NumTasks]
  /\ DOMAIN TicketsOf = Systems
  /\ ComponentsOf \in [Systems -> Seq([component : Components, is_mutable : BOOLEAN])]
  /\ Conditional \subseteq Systems /\ Switched \subseteq Systems /\ Shared \subseteq Components
  /\ IsFiniteSet(Systems) /\ IsFiniteSet(Barriers)
  /\ Nobody \notin Nat

VARIABLES
  address,      \* the systems of each program, by their addresses
  loopSystems,  \* ProgramImpl::loop_systems_ of each program
  at,           \* where the thread of each program is in SystemImpl::Run
  current,      \* its position in loop_systems_
  held,         \* how many tickets of the current system it has locked, or unlocked
  serving,      \* Barrier::serving_ of each barrier
  owner,        \* the program whose thread owns Barrier::mu_
  readers,      \* of each component, the programs whose thread shares Component::mu_
  writer        \* the program whose thread owns it

listVars == <<address, loopSystems>>
barrierVars == <<held, serving, owner>>
componentVars == <<readers, writer>>
sysVars == <<listVars, at, current, barrierVars, componentVars>>
vars == <<taskVars, sysVars>>

\* "out": not in ProgramImpl::Run; "pick": at the head of its loop; "lock":
\* in t->lock() of the next ticket; "asleep": blocked there on condition_;
\* "component": all tickets locked, in Component::Lock of the next component;
\* "transform": running the transform; "unlock": in t->unlock() of the next
\* ticket; "notify": there, past wait_lock_.unlock().
Places == {"out", "pick", "lock", "asleep", "component", "transform", "unlock", "notify"}

SystemsOf(p) == {s \in Systems : ProgramOf[s] = p}

\* calloc chose the addresses: any order may come out.
Orderings(p) == Bijection(1 .. Cardinality(SystemsOf(p)), SystemsOf(p))

HasTicket(s, b) == \E i \in DOMAIN TicketsOf[s] : TicketsOf[s][i].barrier = b
TicketOn(s, b) == CHOOSE i \in DOMAIN TicketsOf[s] : TicketsOf[s][i].barrier = b
OrderOn(s, b) == TicketsOf[s][TicketOn(s, b)].order
Holders(b) == {s \in Systems : HasTicket(s, b)}

\* Barrier::queue_size_.
QueueSize(b) == Cardinality(Holders(b))

\* MakeTicket numbers the tickets of a barrier from zero, no more of them than
\* the uint8_t order_ can tell apart; a system takes one of a barrier at most (it
\* would wait for itself at the second).
ASSUME TicketsAssumption ==
  /\ \A s \in Systems :
       /\ TicketsOf[s] \in Seq([barrier : Barriers, order : Nat])
       /\ \A i, j \in DOMAIN TicketsOf[s] : TicketsOf[s][i].barrier = TicketsOf[s][j].barrier => i = j
  /\ \A b \in Barriers :
       /\ QueueSize(b) <= 256
       /\ \A k \in 0 .. QueueSize(b) - 1 : \E s \in Holders(b) : OrderOn(s, b) = k
       /\ \A s, r \in Holders(b) : /\ OrderOn(s, b) < QueueSize(b)
                                   /\ OrderOn(s, b) = OrderOn(r, b) => s = r

System(p) == loopSystems[p][current[p]]
Ticket(p) == TicketsOf[System(p)][held[p] + 1]
LastTicket(p) == held[p] + 1 = Len(TicketsOf[System(p)])
Tickets(p) == TicketsOf[System(p)]
ComponentList(p) == ComponentsOf[System(p)]
Component(p) == ComponentList(p)[held[p] + 1].component
IsMutable(p) == ComponentList(p)[held[p] + 1].is_mutable
Address(s) == CHOOSE i \in DOMAIN address[ProgramOf[s]] : address[ProgramOf[s]][i] = s
-----------------------------------------------------------------------------
InitSystems ==
  /\ address \in {f \in [Programs -> UNION {Orderings(p) : p \in Programs}] :
                    \A p \in Programs : f[p] \in Orderings(p)}
  /\ loopSystems = address
  /\ at = [p \in Programs |-> "out"]
  /\ current = [p \in Programs |-> 1]
  /\ held = [p \in Programs |-> 0]
  /\ serving = [b \in Barriers |-> 0]
  /\ owner = [b \in Barriers |-> Nobody]
  /\ readers = [c \in Components |-> {}]
  /\ writer = [c \in Components |-> Nobody]

\* std::sort of the pointers.
SortingOrder(list) ==
  CHOOSE order \in Bijection(DOMAIN list, DOMAIN list) :
    \A i, j \in DOMAIN list : i < j => Address(list[order[i]]) <= Address(list[order[j]])
Sorted(list) == [i \in DOMAIN list |-> list[SortingOrder(list)[i]]]

\* Mutant: a system that is enabled twice runs twice.
Kept(list, s) == list

\* erase(find(...)), if it is there.
WithoutSystem(list, s) == RemoveFirst(list, s)

DisableSystem(s) ==
  /\ mainPc = "idle"
  /\ s \in Switched
  /\ loopSystems' = [loopSystems EXCEPT ![ProgramOf[s]] = WithoutSystem(@, s)]
  /\ UNCHANGED <<address, at, current, barrierVars, componentVars, taskVars>>

\* EnableSystem disables it first.
EnableSystem(s) ==
  /\ mainPc = "idle"
  /\ s \in Switched
  /\ loopSystems' =
       [loopSystems EXCEPT ![ProgramOf[s]] = Sorted(Append(WithoutSystem(@, s), s))]
  /\ UNCHANGED <<address, at, current, barrierVars, componentVars, taskVars>>

\* ProgramImpl::Run begins: the events are flushed (module Events) and the
\* loop over loop_systems_ is entered.
EnterProgram(p) ==
  /\ at' = [at EXCEPT ![p] = "pick"]
  /\ current' = [current EXCEPT ![p] = 1]
  /\ UNCHANGED <<listVars, barrierVars, componentVars>>

LeaveProgram(p) ==
  /\ at[p] = "pick"
  /\ current[p] > Len(loopSystems[p])
  /\ at' = [at EXCEPT ![p] = "out"]
  /\ UNCHANGED <<listVars, current, barrierVars, componentVars>>

\* The condition is false, or there is no transform: no ticket is locked.
SkipSystem(p) ==
  /\ at[p] = "pick"
  /\ current[p] <= Len(loopSystems[p])
  /\ System(p) \in Conditional
  /\ current' = [current EXCEPT ![p] = @ + 1]
  /\ UNCHANGED <<listVars, at, barrierVars, componentVars, taskVars>>

\* Where a system goes that has locked its tickets.
AfterTickets(p) == IF ComponentList(p) = <<>> THEN "transform" ELSE "component"

RunSystem(p) ==
  /\ at[p] = "pick"
  /\ current[p] <= Len(loopSystems[p])
  /\ at' = [at EXCEPT ![p] = IF Tickets(p) = <<>> THEN AfterTickets(p) ELSE "lock"]
  /\ held' = [held EXCEPT ![p] = 0]
  /\ UNCHANGED <<listVars, current, serving, owner, componentVars, taskVars>>

\* Mutants: the predicate off by one, the reset one unlock too late, a wakeup
\* for one waiter only.
MyTurnOffByOne(p) == serving[Ticket(p).barrier] + 1 >= Ticket(p).order
NextServingStrict(b) == IF serving[b] + 1 > QueueSize(b) THEN 0 ELSE serving[b] + 1
WokenOne(b) ==
  LET waiting == {q \in Programs : at[q] = "asleep" /\ Ticket(q).barrier = b}
  IN  {q \in waiting : \A r \in waiting : q <= r}

MyTurn(p) == serving[Ticket(p).barrier] >= Ticket(p).order

\* Ticket::lock() succeeds; the mutex stays locked.
LockTicket(p) ==
  /\ at[p] = "lock"
  /\ owner[Ticket(p).barrier] = Nobody
  /\ MyTurn(p)
  /\ owner' = [owner EXCEPT ![Ticket(p).barrier] = p]
  /\ at' = [at EXCEPT ![p] = IF LastTicket(p) THEN AfterTickets(p) ELSE "lock"]
  /\ held' = [held EXCEPT ![p] = IF LastTicket(p) THEN 0 ELSE @ + 1]
  /\ UNCHANGED <<listVars, current, serving, componentVars, taskVars>>

SleepOnTicket(p) ==
  /\ at[p] = "lock"
  /\ owner[Ticket(p).barrier] = Nobody
  /\ ~MyTurn(p)
  /\ at' = [at EXCEPT ![p] = "asleep"]
  /\ UNCHANGED <<listVars, current, barrierVars, componentVars, taskVars>>

SpuriousTicket(p) ==
  /\ at[p] = "asleep"
  /\ at' = [at EXCEPT ![p] = "lock"]
  /\ UNCHANGED <<listVars, current, barrierVars, componentVars, taskVars>>

\* Mutant: readers let a writer in.
FreeOfWriters(c, is_mutable) == c \in Shared => writer[c] = Nobody

Free(c, is_mutable) ==
  c \in Shared => writer[c] = Nobody /\ (is_mutable => readers[c] = {})

\* Component::Lock, past its wait.
Lock(p, c, is_mutable) ==
  \/ c \notin Shared /\ UNCHANGED componentVars
  \/ /\ c \in Shared /\ is_mutable
     /\ writer' = [writer EXCEPT ![c] = p] /\ UNCHANGED readers
  \/ /\ c \in Shared /\ ~is_mutable
     /\ readers' = [readers EXCEPT ![c] = @ \cup {p}] /\ UNCHANGED writer

\* The only component of a system is locked for as long as it walks it (Run_1).
LockComponent(p) ==
  /\ at[p] = "component" /\ Len(ComponentList(p)) = 1
  /\ Free(Component(p), IsMutable(p))
  /\ Lock(p, Component(p), IsMutable(p))
  /\ at' = [at EXCEPT ![p] = "transform"]
  /\ UNCHANGED <<listVars, current, barrierVars, taskVars>>

\* Before Run_N: a Lock with an Unlock at its heels, component by component.
TouchComponent(p) ==
  /\ at[p] = "component" /\ Len(ComponentList(p)) > 1
  /\ Free(Component(p), IsMutable(p))
  /\ LET last == held[p] + 1 = Len(ComponentList(p))
     IN  /\ at' = [at EXCEPT ![p] = IF last THEN "transform" ELSE "component"]
         /\ held' = [held EXCEPT ![p] = IF last THEN 0 ELSE @ + 1]
  /\ UNCHANGED <<listVars, current, serving, owner, componentVars, taskVars>>

\* The transform has run over its instances, and the component is unlocked.
Transform(p) ==
  /\ at[p] = "transform"
  /\ IF Tickets(p) = <<>>
     THEN at' = [at EXCEPT ![p] = "pick"] /\ current' = [current EXCEPT ![p] = @ + 1]
     ELSE at' = [at EXCEPT ![p] = "unlock"] /\ UNCHANGED current
  /\ readers' = [c \in Components |-> readers[c] \ {p}]
  /\ writer' = [c \in Components |-> IF writer[c] = p THEN Nobody ELSE writer[c]]
  /\ UNCHANGED <<listVars, barrierVars, taskVars>>

NextServing(b) == IF serving[b] + 1 >= QueueSize(b) THEN 0 ELSE serving[b] + 1

\* Ticket::unlock() up to wait_lock_.unlock().
UnlockTicket(p) ==
  /\ at[p] = "unlock"
  /\ LET b == Ticket(p).barrier
     IN  /\ serving' = [serving EXCEPT ![b] = NextServing(b)]
         /\ owner' = [owner EXCEPT ![b] = Nobody]
  /\ at' = [at EXCEPT ![p] = "notify"]
  /\ UNCHANGED <<listVars, current, held, componentVars, taskVars>>

AsleepOn(q, b) == at[q] = "asleep" /\ Ticket(q).barrier = b

Woken(b) == {q \in Programs : AsleepOn(q, b)}

\* notify_all; then the next ticket, or the callback and the next system.
NotifyTicket(p) ==
  /\ at[p] = "notify"
  /\ at' = [q \in Programs |->
              IF q = p THEN IF LastTicket(p) THEN "pick" ELSE "unlock"
              ELSE IF q \in Woken(Ticket(p).barrier) THEN "lock" ELSE at[q]]
  /\ IF LastTicket(p)
     THEN current' = [current EXCEPT ![p] = @ + 1] /\ UNCHANGED held
     ELSE held' = [held EXCEPT ![p] = @ + 1] /\ UNCHANGED current
  /\ UNCHANGED <<listVars, serving, owner, componentVars, taskVars>>

\* What the thread of program p does between entering and leaving its loop.
SystemStep(p) ==
  \/ SkipSystem(p) \/ RunSystem(p) \/ LockTicket(p) \/ SleepOnTicket(p)
  \/ LockComponent(p) \/ TouchComponent(p) \/ Transform(p) \/ UnlockTicket(p) \/ NotifyTicket(p)

\* The thread of qb_loop and those of the Tasks, outside their systems.
MainThread ==
  \/ (RunTask \/ JoinTask \/ SleepOnTask \/ EndFrame) /\ UNCHANGED sysVars
  \/ StartMain /\ EnterProgram(0)
  \/ FinishMain /\ LeaveProgram(0)

TaskThread(t) ==
  \/ SleepTask(t) /\ UNCHANGED sysVars
  \/ StartProgram(t) /\ EnterProgram(t)
  \/ FinishProgram(t) /\ LeaveProgram(t)

SpuriousStep ==
  \/ Spurious /\ UNCHANGED sysVars
  \/ \E p \in Programs : SpuriousTicket(p)

InitFrame == Init /\ InitSystems

NextFrame ==
  \/ \E s \in Systems : DisableSystem(s) \/ EnableSystem(s)
  \/ \E s \in States : BeginFrame(s) /\ UNCHANGED sysVars
  \/ MainThread
  \/ \E t \in Tasks : TaskThread(t)
  \/ \E p \in Programs : SystemStep(p)
  \/ SpuriousStep

FrameSpec == InitFrame /\ [][NextFrame]_vars

\* Every thread that can take a step takes one in the end; transforms and
\* conditions return.  qb_loop need not be called again.
FairFrameSpec ==
  /\ FrameSpec
  /\ WF_vars(MainThread)
  /\ \A t \in Tasks : WF_vars(TaskThread(t))
  /\ \A p \in Programs : WF_vars(SystemStep(p))
-----------------------------------------------------------------------------
\* A program's loop holds each of its systems at most once, by address, and
\* those never disabled always, whatever was enabled and disabled, or enabled
\* twice; and a thread in it is at one of them, or past the last.
SystemsTypeOK ==
  /\ TypeOK
  /\ \A p \in Programs :
       /\ address[p] \in Orderings(p)
       /\ loopSystems[p] \in Seq(SystemsOf(p))
       /\ \A i, j \in DOMAIN loopSystems[p] :
            i < j => Address(loopSystems[p][i]) < Address(loopSystems[p][j])
       /\ SystemsOf(p) \ Switched \subseteq ToSet(loopSystems[p])
       /\ at[p] = "pick" => current[p] <= Len(loopSystems[p]) + 1
       /\ at[p] \notin {"out", "pick"} => current[p] <= Len(loopSystems[p])
  /\ at \in [Programs -> Places]
  /\ current \in [Programs -> Nat \ {0}]
  /\ held \in [Programs -> Nat]
  /\ serving \in [Barriers -> Nat]
  /\ owner \in [Barriers -> Programs \cup {Nobody}]
  /\ readers \in [Components -> SUBSET Programs]
  /\ writer \in [Components -> Programs \cup {Nobody}]

\* Where a system of the frame stands.
Position(s) == CHOOSE i \in DOMAIN loopSystems[ProgramOf[s]] : loopSystems[ProgramOf[s]][i] = s
Ended(s) ==
  LET p == ProgramOf[s]
  IN  \/ FrameProgress[p] = "done"
      \/ FrameProgress[p] = "running" /\ current[p] > Position(s)
IsCurrent(s) ==
  LET p == ProgramOf[s]
  IN  at[p] # "out" /\ current[p] <= Len(loopSystems[p]) /\ System(p) = s

\* The system is inside barrier b: it has locked its ticket and not unlocked it.
Inside(s, b) == IsCurrent(s) /\ owner[b] = ProgramOf[s]

\* Systems that share a barrier run their transforms one after the other in
\* ticket order, whatever the programs they are in, the order in which the
\* addresses put them there and the other barriers they hold.
TransformsInTicketOrder ==
  \A b \in Barriers : \A s, r \in Holders(b) :
    Inside(s, b) /\ OrderOn(r, b) < OrderOn(s, b) =>
      Ended(r) \/ (IsCurrent(r) /\ at[ProgramOf[r]] \in {"unlock", "notify"})

\* "The first system to use the addbarrier function will be enforced to run
\* first" (include/cubez/cubez.h): nobody is inside a barrier while the owner
\* of its first ticket has still to come to it in this frame.
FirstRunsFirst ==
  \A b \in Barriers : \A s, r \in Holders(b) :
    Inside(s, b) /\ OrderOn(r, b) = 0 /\ r # s => Ended(r) \/ IsCurrent(r)

\* Two systems run over a component at the same time, and one of them changes it.
InTransform(s) == IsCurrent(s) /\ at[ProgramOf[s]] = "transform"
Uses(s, c) == \E i \in DOMAIN ComponentsOf[s] : ComponentsOf[s][i].component = c
Changes(s, c) ==
  \E i \in DOMAIN ComponentsOf[s] : ComponentsOf[s][i].component = c /\ ComponentsOf[s][i].is_mutable
Joins(s) == Len(ComponentsOf[s]) > 1
Clash(s, r, c) == s # r /\ InTransform(s) /\ InTransform(r) /\ Uses(s, c) /\ Changes(r, c)

\* Systems clash on a component only where nothing guards it: they have no barrier
\* in common, and the component is not shared or one of the two joins it with
\* others.  Any other two exclude each other, in whichever programs they are,
\* whatever else they lock and whoever is skipped or disabled.
GuardedExclude ==
  \A c \in Components : \A s, r \in Systems : Clash(s, r, c) =>
    /\ ~ \E b \in Barriers : HasTicket(s, b) /\ HasTicket(r, b)
    /\ c \in Shared => Joins(s) \/ Joins(r)

\* "Adding a mutable component adds a writer lock in the engine for accessing if
\* the component is marked as shared" (README.md), a reader lock for a const one,
\* and "to select over multiple components a system can use the setjoin method":
\* systems do not clash on shared components.
SharedExclude == \A c \in Shared : \A s, r \in Systems : ~Clash(s, r, c)
-----------------------------------------------------------------------------
\* Barrier b as module Barrier sees it: where the owner of a ticket is.  A
\* frame has not come to the ticket, is at it (the held-th one), or is past it.
OwnerOf(b, k) == CHOOSE s \in Holders(b) : OrderOn(s, b) = k

PlaceAtTicket(p, i) ==
  LET next == held[p] + 1
  IN  CASE at[p] = "pick" -> "idle"
        [] at[p] \in {"lock", "asleep"} ->
             IF next < i THEN "idle" ELSE IF next > i THEN "in"
             ELSE IF at[p] = "lock" THEN "want" ELSE "asleep"
        [] at[p] \in {"component", "transform"} -> "in"
        [] at[p] \in {"unlock", "notify"} ->
             IF next < i THEN "in" ELSE IF next > i THEN "served"
             ELSE IF at[p] = "unlock" THEN "in" ELSE "notify"

PlaceOf(s, b) ==
  IF mainPc # "idle" /\ Ended(s) THEN "served"
  ELSE IF IsCurrent(s) THEN PlaceAtTicket(ProgramOf[s], TicketOn(s, b))
  ELSE "idle"

TicketInside(b) ==
  IF owner[b] = Nobody THEN Nobody ELSE OrderOn(System(owner[b]), b)

OneBarrier(b) ==
  INSTANCE Barrier
    WITH MaxTickets <- QueueSize(b), OrderSpan <- 256, NoTicket <- Nobody,
         queueSize <- QueueSize(b), serving <- serving[b], owner <- TicketInside(b),
         pc <- [k \in 0 .. QueueSize(b) - 1 |-> PlaceOf(OwnerOf(b, k), b)]

\* Every barrier of the frame does what module Barrier allows, also where a
\* system holds several tickets: so what is proved of Barrier holds here.
ImplementsBarrier ==
  [][\A b \in Barriers : OneBarrier(b)!Next \/ UNCHANGED OneBarrier(b)!vars]_vars
=============================================================================
