------------------------------ MODULE GameState ------------------------------
(***************************************************************************)
(* The entities and component instances of one scene, seen by the thread   *)
(* that runs the main program: src/src/game_state.cpp with the registries  *)
(* it owns (instance_registry.cpp, component.cpp, entity_registry.cpp) and *)
(* the loop of SystemImpl::Run_1 over the instances of a component.        *)
(*                                                                         *)
(* Creating is immediate; destroying and removing are queued and carried   *)
(* out by the Flush that starts the next frame.  Handlers of on-destroy    *)
(* events run inside Flush and may use the same interface; those of        *)
(* on-create events run right after the creation and are steps like any    *)
(* other.  Instance data is left out; an array of instances is the sparse  *)
(* set of its entities.                                                    *)
(***************************************************************************)
EXTENDS EntityRegistry, SequencesExt

CONSTANTS
  Components,
  Attributes,    \* component lists entities are created with
  HandlerMay,    \* what on-destroy handlers do: subset of the operations below
  MaxMade,       \* bound: how often one id is given to an entity
  MaxRequests    \* bound: length of each request queue

Operations == {"create", "add", "remove", "destroy"}

ASSUME GameStateAssumption ==
  /\ \A cs \in Attributes : cs \in Seq(Components) /\ IsInjective(cs)
  /\ HandlerMay \subseteq Operations
  /\ MaxMade \in Nat /\ MaxRequests \in Nat

VARIABLES
  tables,       \* InstanceRegistry::components_: the components that have an
                \* array of instances, in the order in which they got it
  instances,    \* the entities in each of these arrays
  removed,      \* removed_components_[0]; program_id is 0 in every thread
  destroyed,    \* destroyed_entities_[0]
  at,           \* where the thread is
  target,       \* the request that Flush is carrying out
  loop,         \* the innermost range-for: its next position, and its end
  seen,         \* history: the entities the system in the loop was run on
  due,          \* history: those it had to be run on
  made,         \* history: how many entities have had each id
  asked,        \* history: requests made and not carried out
  announced     \* history: instances whose on-destroy handlers have been called

requestVars == <<removed, destroyed, asked>>
dataVars == <<registryVars, tables, instances, made>>
walkVars == <<seen, due>>
stateVars == <<dataVars, requestVars, walkVars, at, target, loop, announced>>

\* "frame": between systems; "run": a system is looping over an array;
\* "remove", "destroy": at the head of the loops of Flush; "removing": the
\* handlers of a removal have been called; "announce": in the first loop of
\* DestroyInstancesFor.
Places == {"frame", "run", "remove", "removing", "destroy", "announce"}

\* A request names an entity by its id; that it means the made-th entity with
\* this id is history.
DestroyRequest(e) == [kind |-> "destroy", entity |-> e, made |-> made[e]]
RemoveRequest(e, c) ==
  [kind |-> "remove", entity |-> e, component |-> c, made |-> made[e]]

NoTarget == [entity |-> Absent]

\* Mutants: a loop that stops one short.
LoopToLast(n) == [next |-> 1, end |-> IF n = 0 THEN 0 ELSE n - 1]

\* Loops run over positions 1, 2, ... up to the end() they saw when they began.
LoopTo(n) == [next |-> 1, end |-> n]
Advanced == [loop EXCEPT !.next = @ + 1]

\* What a loop reads at its position, also past the end of the vector.
ReadAt(q, i) == IF i \in DOMAIN q THEN q[i] ELSE Absent

HasInstance(e, c) == HasKey(instances[c], e)

\* Component::Destroy: what is left of an array of instances.
Without(s, e) == IF HasKey(s, e) THEN Erase(s, e) ELSE s
\* InstanceRegistry::Create for a list of components: those that have no array
\* get one, in the order of the list.
OpenArrays(cs) ==
  LET new == {i \in DOMAIN cs : cs[i] \notin ToSet(tables)}
  IN  \E order \in Bijection(1 .. Cardinality(new), new) :
        /\ \A i, j \in DOMAIN order : i < j => order[i] < order[j]
        /\ tables' = tables \o [i \in DOMAIN order |-> cs[order[i]]]
-----------------------------------------------------------------------------
\* GameState::EntityCreate and CreateInstancesFor.
EntityCreate(cs) ==
  /\ CreateEntity
  /\ made[AllocEntity] < MaxMade
  /\ made' = [made EXCEPT ![AllocEntity] = @ + 1]
  /\ OpenArrays(cs)
  /\ instances' = [c \in Components |->
                     IF c \in ToSet(cs) THEN Insert(instances[c], AllocEntity) ELSE instances[c]]
  /\ UNCHANGED requestVars

\* CreateInstanceFor.  Programs add a component to live entities that do not
\* have it: the code checks neither.
EntityAddComponent(e, c) ==
  /\ e \in Live /\ ~HasInstance(e, c)
  /\ OpenArrays(<<c>>)
  /\ instances' = [instances EXCEPT ![c] = Insert(@, e)]
  /\ UNCHANGED <<registryVars, made, requestVars>>

\* Mutant: an instance is removed at once.
RemoveComponentNow(e, c) ==
  /\ HasInstance(e, c)
  /\ instances' = [instances EXCEPT ![c] = Erase(@, e)]
  /\ UNCHANGED <<registryVars, tables, made, requestVars>>

\* Programs ask for a removal where there is an instance, maybe more than once.
EntityRemoveComponent(e, c) ==
  /\ HasInstance(e, c)
  /\ Len(removed) < MaxRequests
  /\ removed' = Append(removed, RemoveRequest(e, c))
  /\ asked' = asked \cup {RemoveRequest(e, c)}
  /\ UNCHANGED <<dataVars, destroyed>>

EntityDestroy(e) ==
  /\ Len(destroyed) < MaxRequests
  /\ destroyed' = Append(destroyed, DestroyRequest(e))
  /\ asked' = asked \cup {DestroyRequest(e)}
  /\ UNCHANGED <<dataVars, removed>>

\* What programs do.  They destroy entities that are live: a request for an id
\* that is free would hit whoever has it at the next flush.
Operation(op) ==
  CASE op = "create"  -> \E cs \in Attributes : EntityCreate(cs)
    [] op = "add"     -> \E e \in Ids, c \in Components : EntityAddComponent(e, c)
    [] op = "remove"  -> \E e \in Ids, c \in Components : EntityRemoveComponent(e, c)
    [] op = "destroy" -> \E e \in Ids : e \in Live /\ EntityDestroy(e)

\* Systems, between or inside their transforms.
ProgramStep ==
  /\ at \in {"frame", "run"}
  /\ \E op \in Operations : Operation(op)
  /\ UNCHANGED <<walkVars, at, target, loop, announced>>

\* The handlers of an on-destroy event have been called and not returned.
InHandler ==
  \/ at = "removing"
  \/ at = "announce" /\ loop.next > 1 /\ <<target.entity, tables[loop.next - 1]>> \in announced

HandlerStep ==
  /\ InHandler
  /\ \E op \in HandlerMay : Operation(op)
  /\ UNCHANGED <<walkVars, at, target, loop, announced>>
-----------------------------------------------------------------------------
\* SystemImpl::Run_1, for a system over component c.
RunSystem(c) ==
  /\ at = "frame"
  /\ c \in ToSet(tables)
  /\ at' = "run"
  /\ target' = [component |-> c]
  /\ loop' = LoopTo(SizeOf(instances[c]))
  /\ due' = Members(instances[c])
  /\ seen' = <<>>
  /\ UNCHANGED <<dataVars, requestVars, announced>>

Transform ==
  /\ at = "run"
  /\ loop.next <= loop.end
  /\ seen' = Append(seen, ReadAt(instances[target.component].dense, loop.next))
  /\ loop' = Advanced
  /\ UNCHANGED <<dataVars, requestVars, due, at, target, announced>>

SystemDone ==
  /\ at = "run"
  /\ loop.next > loop.end
  /\ at' = "frame"
  /\ target' = NoTarget
  /\ loop' = LoopTo(0)
  /\ seen' = <<>>
  /\ due' = {}
  /\ UNCHANGED <<dataVars, requestVars, announced>>
-----------------------------------------------------------------------------
\* PrivateUniverse::loop starts the next frame: GameState::Flush.
BeginFlush ==
  /\ at = "frame"
  /\ at' = "remove"
  /\ UNCHANGED <<dataVars, requestVars, walkVars, target, loop, announced>>

\* Mutants: the queue is taken from the front while the back is popped; the
\* second loop of DestroyInstancesFor ends one short of the first; a request
\* for a dead entity is not popped.
FrontOf(q) == q[1]
ErasedButLast(e) ==
  [c \in Components |->
     IF c \in {tables[i] : i \in 1 .. loop.end - 1} THEN Without(instances[c], e) ELSE instances[c]]
DropDestroyNever ==
  /\ at = "destroy"
  /\ destroyed # <<>>
  /\ UNCHANGED stateVars

\* removed.back(), destroyed.back()
NextRequest(q) == Back(q)

\* DestroyInstanceFor, up to the call of the handlers.
AnnounceRemoval ==
  /\ at = "remove"
  /\ removed # <<>>
  /\ LET r == NextRequest(removed)
     IN  /\ HasInstance(r.entity, r.component)
         /\ target' = r
         /\ announced' = announced \cup {<<r.entity, r.component>>}
  /\ at' = "removing"
  /\ UNCHANGED <<dataVars, requestVars, walkVars, loop>>

\* The instance goes, then the last request: the one carried out, unless the
\* handlers have made another.
CarryOutRemoval ==
  /\ at = "removing"
  /\ LET e == target.entity
         c == target.component
     IN  /\ instances' = [instances EXCEPT ![c] = Without(@, e)]
         /\ announced' = announced \ {<<e, c>>}
         /\ asked' = {r \in asked : ~(r.kind = "remove" /\ r.entity = e /\ r.component = c)}
  /\ removed' = PopBack(removed)
  /\ at' = "remove"
  /\ target' = NoTarget
  /\ UNCHANGED <<registryVars, tables, made, destroyed, walkVars, loop>>

DropRemoval ==
  /\ at = "remove"
  /\ removed # <<>>
  /\ LET r == NextRequest(removed) IN ~HasInstance(r.entity, r.component)
  /\ removed' = PopBack(removed)
  /\ UNCHANGED <<dataVars, destroyed, asked, walkVars, at, target, loop, announced>>

RemovalsDone ==
  /\ at = "remove"
  /\ removed = <<>>
  /\ at' = "destroy"
  /\ UNCHANGED <<dataVars, requestVars, walkVars, target, loop, announced>>

\* EntityDestroyInternal of an entity that exists: DestroyInstancesFor.
BeginDestroy ==
  /\ at = "destroy"
  /\ destroyed # <<>>
  /\ MayDestroy(NextRequest(destroyed).entity)
  /\ target' = NextRequest(destroyed)
  /\ at' = "announce"
  /\ loop' = LoopTo(Len(tables))
  /\ UNCHANGED <<dataVars, requestVars, walkVars, announced>>

DropDestroy ==
  /\ at = "destroy"
  /\ destroyed # <<>>
  /\ ~MayDestroy(NextRequest(destroyed).entity)
  /\ destroyed' = PopBack(destroyed)
  /\ UNCHANGED <<dataVars, removed, asked, walkVars, at, target, loop, announced>>

AnnounceNext ==
  /\ at = "announce"
  /\ loop.next <= loop.end
  /\ loop' = Advanced
  /\ announced' = IF HasInstance(target.entity, tables[loop.next])
                  THEN announced \cup {<<target.entity, tables[loop.next]>>}
                  ELSE announced
  /\ UNCHANGED <<dataVars, requestVars, walkVars, at, target>>

\* The second loop of DestroyInstancesFor.
Erased(e) == [c \in Components |-> Without(instances[c], e)]

\* All instances go, then the entity, then the last request.
CarryOutDestroy ==
  /\ at = "announce"
  /\ loop.next > loop.end
  /\ LET e == target.entity
     IN  /\ instances' = Erased(e)
         /\ DestroyEntity(e)
         /\ announced' = {x \in announced : x[1] # e}
         /\ asked' = {r \in asked : r.entity # e}
  /\ destroyed' = PopBack(destroyed)
  /\ at' = "destroy"
  /\ target' = NoTarget
  /\ loop' = LoopTo(0)
  /\ UNCHANGED <<tables, made, removed, walkVars>>

EndFlush ==
  /\ at = "destroy"
  /\ destroyed = <<>>
  /\ at' = "frame"
  /\ UNCHANGED <<dataVars, requestVars, walkVars, target, loop, announced>>
-----------------------------------------------------------------------------
InitState ==
  /\ Init
  /\ tables = <<>>
  /\ instances = [c \in Components |-> NewSet]
  /\ removed = <<>> /\ destroyed = <<>>
  /\ at = "frame"
  /\ target = NoTarget
  /\ loop = LoopTo(0)
  /\ seen = <<>> /\ due = {}
  /\ made = [e \in Ids |-> 0]
  /\ asked = {} /\ announced = {}

FlushStep ==
  \/ AnnounceRemoval \/ CarryOutRemoval \/ DropRemoval \/ RemovalsDone
  \/ BeginDestroy \/ DropDestroy \/ AnnounceNext \/ CarryOutDestroy \/ EndFlush

NextState ==
  \/ ProgramStep \/ HandlerStep
  \/ (\E c \in Components : RunSystem(c)) \/ Transform \/ SystemDone
  \/ BeginFlush
  \/ FlushStep

StateSpec == InitState /\ [][NextState]_stateVars

\* Flush is one call: once begun it goes on, and handlers return.
FairStateSpec == StateSpec /\ WF_stateVars(FlushStep)
-----------------------------------------------------------------------------
\* Every array of instances, and the set of entities, stays well formed: their
\* insert and erase check nothing, so this rests on every path that leads to
\* them, handlers included.
ArraysConsistent == SetConsistent /\ \A c \in Components : Consistent(instances[c])

\* A dead entity has no instances, whatever the handlers of its destruction do:
\* else the next entity with its id would inherit them.
NoOrphans == \A c \in Components : Members(instances[c]) \subseteq Live

\* A destruction or removal that was asked for and not carried out is still in
\* its queue: the next Flush will come to it.
NoRequestLost == asked \subseteq ToSet(removed) \cup ToSet(destroyed)

\* No instance goes before its on-destroy handlers have been called ("Is
\* triggered before memory is freed", include/cubez/cubez.h), by either path, as
\* long as handlers add no component: one added to an entity whose destruction
\* has begun goes with it unannounced.
AnnouncedFirst ==
  [][\A c \in Components : \A e \in Members(instances[c]) \ Members(instances'[c]) :
       <<e, c>> \in announced]_stateVars

\* A system runs once on every instance there was when its loop began, although
\* its transforms create and destroy entities: insertions go to the end of the
\* array and nothing leaves it before the next Flush.
SystemRunsOnAll ==
  at = "run" /\ loop.next > loop.end =>
    ToSet(seen) = due /\ Len(seen) = Cardinality(due)

\* Flush returns: every turn of its loops pops a request.
FlushEnds == (at = "remove") ~> (at = "frame")

Scene ==
  INSTANCE World
    WITH live <- Live,
         has <- [e \in Ids |-> {c \in Components : HasInstance(e, c)}],
         doomed <- {r.entity : r \in {q \in asked : q.kind = "destroy"}},
         leaving <- {<<r.entity, r.component>> : r \in {q \in asked : q.kind = "remove"}}

\* The scene implements World as long as handlers make no entities, instances or
\* requests: no request reaches an entity other than the one it was made for,
\* although ids are reused at once, requests name entities by id, and the same
\* request may be queued twice.
ImplementsWorld == Scene!Spec
=============================================================================
