--------------------------- MODULE EntityRegistry ---------------------------
(***************************************************************************)
(* The entities of one scene (src/src/entity_registry.cpp): a sparse set   *)
(* of live ids and a stack of freed ones, which are reused before a new id *)
(* is made.                                                                *)
(***************************************************************************)
EXTENDS SparseSet, FiniteSets

CONSTANT MaxEntities   \* bound: the number of ids ever made

ASSUME EntityRegistryAssumption == MaxEntities \in Nat

VARIABLES
  id,         \* id_: the next id never used
  entities,   \* entities_
  freeIds     \* free_entity_ids_

registryVars == <<id, entities, freeIds>>

Ids == 0 .. MaxEntities - 1
Live == Members(entities)
Freed == {freeIds[i] : i \in 1 .. Len(freeIds)}

\* Mutants: the id is read but not popped; the id last made is given again,
\* whichever was freed.
PoppedNever == freeIds
AllocNewest == IF freeIds = <<>> THEN id ELSE id - 1

\* AllocEntity(): the id it returns, and the stack it leaves.
AllocEntity == IF freeIds = <<>> THEN id ELSE Back(freeIds)
Popped == IF freeIds = <<>> THEN freeIds ELSE PopBack(freeIds)

\* Has(), which guards DestroyEntity here and in GameState.
MayDestroy(e) == HasKey(entities, e)
-----------------------------------------------------------------------------
Init ==
  /\ id = 0
  /\ entities = NewSet
  /\ freeIds = <<>>

CreateEntity ==
  /\ AllocEntity \in Ids
  /\ entities' = Insert(entities, AllocEntity)
  /\ id' = IF freeIds = <<>> THEN id + 1 ELSE id
  /\ freeIds' = Popped

\* A second call for the same entity does nothing.
DestroyEntity(e) ==
  /\ MayDestroy(e)
  /\ entities' = Erase(entities, e)
  /\ freeIds' = Append(freeIds, e)
  /\ UNCHANGED id

Next == CreateEntity \/ \E e \in Ids : DestroyEntity(e)

Spec == Init /\ [][Next]_registryVars
-----------------------------------------------------------------------------
TypeOK ==
  /\ id \in 0 .. MaxEntities
  /\ entities.sparse \in [DOMAIN entities.sparse -> {Absent} \cup Ids]
  /\ entities.dense \in Seq(Ids)
  /\ freeIds \in Seq(Ids)

\* Every id ever made is either live or free, and is free only once: whatever
\* the order of creations and destructions, no id is lost and none can be
\* handed out to two entities.
IdsPartition ==
  /\ Live \cup Freed = 0 .. id - 1
  /\ Live \cap Freed = {}
  /\ \A i, j \in 1 .. Len(freeIds) : freeIds[i] = freeIds[j] => i = j

\* The sparse set stays well formed: its callers never insert an id twice nor
\* erase one that is absent, which insert() and erase() do not check.
SetConsistent == Consistent(entities)

Pool == INSTANCE IdPool WITH live <- Live, count <- SizeOf(entities)

\* The registry hands out ids as IdPool promises: a new entity never gets the
\* id of a live one, and a destruction ends exactly one entity.
ImplementsIdPool == Pool!Spec
=============================================================================
