--------------------------- MODULE GameStateProofs ---------------------------
(***************************************************************************)
(* Entity ids, for every bound on their number: live and free ids are      *)
(* disjoint and cover the ids made, and the registry implements IdPool.    *)
(* Then the arrays of a scene, for every number of entities and components *)
(* and whatever the on-destroy handlers do: they stay well formed and hold *)
(* instances of live entities only; systems run on all instances; nothing  *)
(* is erased unannounced; no request is lost; and the scene implements     *)
(* World.                                                                  *)
(***************************************************************************)
EXTENDS GameState, SparseSetProofs, FiniteSetTheorems

\* The registry.
IInv ==
  /\ id \in Nat /\ id <= MaxEntities
  /\ freeIds \in Seq(Nat)
  /\ SetConsistent
  /\ IdsPartition

LEMMA FreedPush ==
  ASSUME NEW e \in Nat, freeIds \in Seq(Nat)
  PROVE  /\ Append(freeIds, e) \in Seq(Nat)
         /\ {Append(freeIds, e)[i] : i \in 1 .. Len(Append(freeIds, e))} = Freed \cup {e}
         /\ Len(Append(freeIds, e)) = Len(freeIds) + 1
         /\ \A i \in 1 .. Len(freeIds) : Append(freeIds, e)[i] = freeIds[i]
         /\ Append(freeIds, e)[Len(freeIds) + 1] = e
<1>1. /\ Append(freeIds, e) \in Seq(Nat)
      /\ Len(Append(freeIds, e)) = Len(freeIds) + 1
      /\ \A i \in 1 .. Len(freeIds) : Append(freeIds, e)[i] = freeIds[i]
      /\ Append(freeIds, e)[Len(freeIds) + 1] = e
      /\ Len(freeIds) \in Nat
  OBVIOUS
<1>2. {Append(freeIds, e)[i] : i \in 1 .. Len(freeIds) + 1} = Freed \cup {e}
  BY <1>1 DEF Freed
<1>. QED
  BY <1>1, <1>2

LEMMA FreedPop ==
  ASSUME freeIds \in Seq(Nat), freeIds # <<>>, IdsPartition
  PROVE  /\ PopBack(freeIds) \in Seq(Nat)
         /\ Back(freeIds) \in Freed
         /\ {PopBack(freeIds)[i] : i \in 1 .. Len(PopBack(freeIds))} = Freed \ {Back(freeIds)}
         /\ Len(PopBack(freeIds)) = Len(freeIds) - 1
         /\ \A i \in 1 .. Len(freeIds) - 1 : PopBack(freeIds)[i] = freeIds[i]
<1>1. /\ Len(freeIds) \in Nat /\ Len(freeIds) # 0
      /\ Back(freeIds) = freeIds[Len(freeIds)]
  BY DEF Back
<1>2. /\ PopBack(freeIds) \in Seq(Nat)
      /\ Len(PopBack(freeIds)) = Len(freeIds) - 1
      /\ \A i \in 1 .. Len(freeIds) - 1 : PopBack(freeIds)[i] = freeIds[i]
  BY <1>1, PopBackElements
<1>3. \A i \in 1 .. Len(freeIds) - 1 : freeIds[i] # Back(freeIds)
  BY <1>1 DEF IdsPartition
<1> DEFINE n == Len(freeIds)
           left == {PopBack(freeIds)[i] : i \in 1 .. n - 1}
<1>4. n \in Nat /\ n \in 1 .. n /\ freeIds[n] = Back(freeIds)
  BY <1>1
<1>5. left = {freeIds[i] : i \in 1 .. n - 1}
  BY <1>2
<1>6. \A i \in 1 .. n : i = n \/ i \in 1 .. n - 1
  BY <1>4
<1>7. \A i \in 1 .. n - 1 : i \in 1 .. n
  BY <1>4
<1>8. Freed = {freeIds[i] : i \in 1 .. n}
  BY DEF Freed
<1>9. left = Freed \ {Back(freeIds)} /\ Back(freeIds) \in Freed
  <2>. HIDE DEF n, left
  <2>. QED
    BY <1>3, <1>4, <1>5, <1>6, <1>7, <1>8, Zenon DEF n
<1>10. 1 .. Len(PopBack(freeIds)) = 1 .. n - 1
  BY <1>2
<1>. QED
  BY <1>2, <1>9, <1>10

\* The number of entities: insert() adds one, and erase() of one that is there
\* takes one away.
LEMMA Sizes ==
  ASSUME Consistent(entities), NEW e
  PROVE  /\ SizeOf(entities) \in Nat
         /\ SizeOf(Insert(entities, e)) = SizeOf(entities) + 1
         /\ HasKey(entities, e) => SizeOf(Erase(entities, e)) = SizeOf(entities) - 1
<1> DEFINE d == entities.dense
           n == Len(d)
<1>1. d \in Seq(DOMAIN entities.sparse) /\ n \in Nat
  BY DEF Consistent
<1>2. SizeOf(Insert(entities, e)) = n + 1
  <2>1. Insert(entities, e).dense = Append(d, e)
    BY DEF Insert
  <2>. QED
    BY <1>1, <2>1 DEF SizeOf
<1>3. ASSUME HasKey(entities, e)
      PROVE  SizeOf(Erase(entities, e)) = n - 1
  <2> DEFINE i == entities.sparse[e]
             moved == [d EXCEPT ![i + 1] = Back(d)]
  <2>1. i \in 0 .. n - 1
    BY <1>3 DEF HasKey, Members, Consistent, SizeOf
  <2>2. Back(d) \in DOMAIN entities.sparse
    BY <1>1, <2>1 DEF Back
  <2>3. moved \in Seq(DOMAIN entities.sparse) /\ Len(moved) = n
    BY <1>1, <2>2
  <2>4. Erase(entities, e).dense = PopBack(moved)
    BY DEF Erase
  <2>. QED
    BY <1>1, <2>1, <2>3, <2>4 DEF PopBack, SizeOf
<1>. QED
  BY <1>1, <1>2, <1>3 DEF SizeOf

\* What a creation does to the set of live ids.
LEMMA CreateStep ==
  ASSUME IInv, CreateEntity
  PROVE  /\ IInv'
         /\ AllocEntity \notin Live
         /\ Live' = Live \cup {AllocEntity}
         /\ SizeOf(entities') = SizeOf(entities) + 1
<1>1. /\ id \in Nat /\ freeIds \in Seq(Nat) /\ Consistent(entities) /\ IdsPartition
      /\ AllocEntity \in Ids /\ entities' = Insert(entities, AllocEntity)
  BY DEF IInv, SetConsistent, CreateEntity
<1>2. AllocEntity \in Nat
  BY <1>1, EntityRegistryAssumption DEF Ids
<1>3. AllocEntity \notin Live
  <2>1. CASE freeIds = <<>>
    BY <1>1, <2>1 DEF AllocEntity, IdsPartition
  <2>2. CASE freeIds # <<>>
    BY <1>1, <2>2, FreedPop DEF AllocEntity, IdsPartition
  <2>. QED
    BY <2>1, <2>2
<1>4. ~HasKey(entities, AllocEntity)
  BY <1>3 DEF HasKey, Live, Members
<1>5. /\ SetConsistent' /\ Live' = Live \cup {AllocEntity}
      /\ SizeOf(entities') = SizeOf(entities) + 1
  BY <1>1, <1>2, <1>4, InsertAdds, Sizes DEF SetConsistent, Live
<1>6. CASE freeIds = <<>>
  <2>1. id' = id + 1 /\ freeIds' = freeIds /\ AllocEntity = id
    BY <1>6 DEF CreateEntity, AllocEntity, Popped
  <2>2. Freed' = Freed
    BY <2>1 DEF Freed
  <2>3. id' \in Nat /\ id' <= MaxEntities
    BY <1>1, <2>1, EntityRegistryAssumption DEF Ids
  <2>4. 0 .. id' - 1 = (0 .. id - 1) \cup {id}
    BY <1>1, <2>1
  <2>5. IdsPartition'
    BY <1>1, <1>3, <1>5, <1>6, <2>1, <2>2, <2>4 DEF IdsPartition, Freed
  <2>. QED
    BY <1>1, <1>3, <1>5, <2>1, <2>3, <2>5 DEF IInv
<1>7. CASE freeIds # <<>>
  <2>1. id' = id /\ freeIds' = PopBack(freeIds) /\ AllocEntity = Back(freeIds)
    BY <1>7 DEF CreateEntity, AllocEntity, Popped
  <2>2. /\ PopBack(freeIds) \in Seq(Nat)
        /\ Back(freeIds) \in Freed
        /\ {PopBack(freeIds)[i] : i \in 1 .. Len(PopBack(freeIds))} = Freed \ {Back(freeIds)}
        /\ Len(PopBack(freeIds)) = Len(freeIds) - 1
        /\ \A i \in 1 .. Len(freeIds) - 1 : PopBack(freeIds)[i] = freeIds[i]
    BY <1>1, <1>7, FreedPop
  <2>3. freeIds' \in Seq(Nat) /\ AllocEntity \in Freed /\ Freed' = Freed \ {AllocEntity}
    <3>1. Freed' = {PopBack(freeIds)[i] : i \in 1 .. Len(PopBack(freeIds))}
      BY <2>1 DEF Freed
    <3>. QED
      BY <2>1, <2>2, <3>1
  <2>4. \A i, j \in 1 .. Len(freeIds') : freeIds'[i] = freeIds'[j] => i = j
    <3>1. Len(freeIds) \in Nat /\ 1 .. Len(freeIds') = 1 .. Len(freeIds) - 1
      BY <1>1, <2>1, <2>2
    <3>2. \A i \in 1 .. Len(freeIds) - 1 : i \in 1 .. Len(freeIds) /\ freeIds'[i] = freeIds[i]
      BY <2>1, <2>2, <3>1
    <3>3. \A i, j \in 1 .. Len(freeIds) : freeIds[i] = freeIds[j] => i = j
      BY <1>1 DEF IdsPartition
    <3>. QED
      BY <3>1, <3>2, <3>3
  <2>5. IdsPartition'
    BY <1>1, <1>5, <2>1, <2>3, <2>4 DEF IdsPartition
  <2>. QED
    BY <1>1, <1>3, <1>5, <2>1, <2>3, <2>5 DEF IInv
<1>. QED
  BY <1>6, <1>7

\* What a destruction does to the set of live ids.
LEMMA DestroyStep ==
  ASSUME IInv, NEW e \in Ids, DestroyEntity(e)
  PROVE  /\ IInv'
         /\ e \in Live
         /\ Live' = Live \ {e}
         /\ SizeOf(entities') = SizeOf(entities) - 1
<1>1. /\ id \in Nat /\ freeIds \in Seq(Nat) /\ Consistent(entities) /\ IdsPartition
      /\ HasKey(entities, e) /\ entities' = Erase(entities, e)
      /\ freeIds' = Append(freeIds, e) /\ id' = id
      /\ e \in Nat
  BY EntityRegistryAssumption DEF IInv, SetConsistent, DestroyEntity, MayDestroy, Ids
<1>2. e \in Live
  BY <1>1 DEF HasKey, Live, Members
<1>3. /\ SetConsistent' /\ Live' = Live \ {e}
      /\ SizeOf(entities') = SizeOf(entities) - 1
  BY <1>1, EraseRemoves, Sizes DEF SetConsistent, Live
<1>4. /\ freeIds' \in Seq(Nat) /\ Freed' = Freed \cup {e}
      /\ Len(freeIds') = Len(freeIds) + 1 /\ Len(freeIds) \in Nat
      /\ \A i \in 1 .. Len(freeIds) : freeIds'[i] = freeIds[i]
      /\ freeIds'[Len(freeIds) + 1] = e
  BY <1>1, FreedPush DEF Freed
<1>5. \A i \in 1 .. Len(freeIds) : freeIds[i] # e
  BY <1>1, <1>2 DEF IdsPartition, Freed
<1>6. \A i, j \in 1 .. Len(freeIds') : freeIds'[i] = freeIds'[j] => i = j
  BY <1>1, <1>4, <1>5 DEF IdsPartition
<1>7. IdsPartition'
  BY <1>1, <1>2, <1>3, <1>4, <1>6 DEF IdsPartition
<1>. QED
  BY <1>1, <1>2, <1>3, <1>4, <1>7 DEF IInv

LEMMA InitIInv == Init => IInv /\ Live = {} /\ SizeOf(entities) = 0
<1> SUFFICES ASSUME Init
             PROVE  IInv /\ Live = {} /\ SizeOf(entities) = 0
  OBVIOUS
<1>1. id = 0 /\ freeIds = <<>> /\ entities = NewSet
  BY DEF Init
<1>2. DOMAIN entities.sparse = 0 .. InitialSize - 1
  BY <1>1 DEF NewSet
<1>3. Live = {} /\ Members(entities) = {}
  BY <1>1 DEF NewSet, Live, Members
<1>4. SetConsistent
  <2>1. entities.sparse \in [DOMAIN entities.sparse -> Int]
    BY <1>1 DEF NewSet, Absent
  <2>2. entities.dense = <<>>
    BY <1>1 DEF NewSet
  <2>. QED
    BY <1>2, <1>3, <2>1, <2>2, SparseSetAssumption DEF SetConsistent, Consistent, SizeOf
<1>5. IdsPartition
  BY <1>1, <1>3 DEF IdsPartition, Freed
<1>6. SizeOf(entities) = 0
  BY <1>1 DEF NewSet, SizeOf
<1>. QED
  BY <1>1, <1>3, <1>4, <1>5, <1>6, EntityRegistryAssumption DEF IInv

LEMMA NextIInv == IInv /\ [Next]_registryVars => IInv'
<1> SUFFICES ASSUME IInv, [Next]_registryVars
             PROVE  IInv'
  OBVIOUS
<1>1. CASE CreateEntity
  BY <1>1, CreateStep
<1>2. ASSUME NEW e \in Ids, DestroyEntity(e)
      PROVE  IInv'
  BY <1>2, DestroyStep
<1>3. CASE UNCHANGED registryVars
  BY <1>3 DEF registryVars, IInv, SetConsistent, IdsPartition, Live, Freed
<1>. QED
  BY <1>1, <1>2, <1>3 DEF Next

LEMMA Invariance == Spec => []IInv
BY InitIInv, NextIInv, PTL DEF Spec

\* No id is ever live and free, lost, or free twice.
THEOREM IdsArePartitioned == Spec => []IdsPartition
<1>1. IInv => IdsPartition
  BY DEF IInv
<1>. QED
  BY <1>1, Invariance, PTL

\* insert() and erase() are only called within their unchecked preconditions.
THEOREM EntitiesStayConsistent == Spec => []SetConsistent
<1>1. IInv => SetConsistent
  BY DEF IInv
<1>. QED
  BY <1>1, Invariance, PTL

\* The registry implements the pool of ids: every creation gives an id that no
\* live entity has.
THEOREM RegistryRefinement == Spec => ImplementsIdPool
<1>1. Init => Pool!Init
  BY InitIInv DEF Pool!Init
<1>2. IInv /\ [Next]_registryVars => [Pool!Next]_<<Live, SizeOf(entities)>>
  <2> SUFFICES ASSUME IInv, [Next]_registryVars
               PROVE  Pool!Next \/ (Live' = Live /\ SizeOf(entities)' = SizeOf(entities))
    OBVIOUS
  <2>1. CASE CreateEntity
    <3>1. AllocEntity \in Ids
      BY <2>1 DEF CreateEntity
    <3>. QED
      BY <2>1, <3>1, CreateStep DEF Pool!Next, Pool!Create
  <2>2. ASSUME NEW e \in Ids, DestroyEntity(e)
        PROVE  Pool!Next
    BY <2>2, DestroyStep DEF Pool!Next, Pool!Destroy
  <2>3. CASE UNCHANGED registryVars
    BY <2>3 DEF registryVars, Live, SizeOf
  <2>. QED
    BY <2>1, <2>2, <2>3 DEF Next
<1>. QED
  BY <1>1, <1>2, Invariance, PTL DEF Spec, ImplementsIdPool, Pool!Spec
-----------------------------------------------------------------------------
\* The scene.
RemoveRequests ==
  [kind : {"remove"}, entity : Ids, component : Components, made : Nat]

\* The arrays, without the place of the thread.
ArraysInv ==
  /\ instances = [c \in Components |-> instances[c]]
  /\ \A c \in Components : Consistent(instances[c])
  /\ NoOrphans

\* The instance whose handlers Flush has called is still there.
TargetInv ==
  at = "removing" =>
    /\ target.component \in Components
    /\ HasInstance(target.entity, target.component)

StateInv ==
  /\ IInv
  /\ ArraysInv
  /\ removed \in Seq(RemoveRequests)
  /\ made \in [Ids -> Nat]
  /\ TargetInv

\* What holds of the data when an operation begins.
DataInv == IInv /\ ArraysInv /\ removed \in Seq(RemoveRequests) /\ made \in [Ids -> Nat]

\* No operation takes an instance away.
Kept == \A c \in Components : Members(instances[c]) \subseteq Members(instances'[c])

LEMMA LiveIsId == IInv => Live \subseteq Ids
  BY EntityRegistryAssumption DEF IInv, IdsPartition, Ids

LEMMA HasIsMember ==
  ASSUME NEW s, NEW e
  PROVE  HasKey(s, e) <=> e \in Members(s)
  BY DEF HasKey, Members

LEMMA CreateKeeps ==
  ASSUME DataInv, NEW cs \in Attributes, EntityCreate(cs)
  PROVE  DataInv' /\ Kept
<1> DEFINE e == AllocEntity
<1>1. IInv' /\ e \notin Live /\ Live' = Live \cup {e}
  BY CreateStep DEF DataInv, EntityCreate
<1>2. e \in Ids /\ e \in Nat
  BY EntityRegistryAssumption DEF EntityCreate, CreateEntity, Ids
<1>3. instances' = [c \in Components |-> IF c \in ToSet(cs) THEN Insert(instances[c], e) ELSE instances[c]]
  BY DEF EntityCreate
<1>4. ASSUME NEW c \in Components
      PROVE  /\ Consistent(instances'[c])
             /\ Members(instances[c]) \subseteq Members(instances'[c])
             /\ Members(instances'[c]) \subseteq Members(instances[c]) \cup {e}
  <2>1. Consistent(instances[c]) /\ ~HasKey(instances[c], e)
    BY <1>1, HasIsMember DEF DataInv, ArraysInv, NoOrphans
  <2>2. CASE c \in ToSet(cs)
    <3>1. instances'[c] = Insert(instances[c], e)
      BY <1>3, <2>2
    <3>. QED
      BY <1>2, <2>1, <3>1, InsertAdds
  <2>3. CASE c \notin ToSet(cs)
    BY <1>3, <2>1, <2>3
  <2>. QED
    BY <2>2, <2>3
<1>5. NoOrphans'
  BY <1>1, <1>4 DEF DataInv, ArraysInv, NoOrphans
<1>6. instances' = [c \in Components |-> instances'[c]]
  BY <1>3
<1>7. made' \in [Ids -> Nat] /\ removed' = removed
  BY <1>2 DEF DataInv, EntityCreate, requestVars
<1>. QED
  BY <1>1, <1>4, <1>5, <1>6, <1>7 DEF DataInv, ArraysInv, Kept

LEMMA AddKeeps ==
  ASSUME DataInv, NEW e \in Ids, NEW c \in Components, EntityAddComponent(e, c)
  PROVE  DataInv' /\ Kept
<1>1. /\ e \in Live /\ ~HasKey(instances[c], e) /\ e \in Nat
      /\ instances' = [instances EXCEPT ![c] = Insert(@, e)]
      /\ Consistent(instances[c])
  BY EntityRegistryAssumption DEF EntityAddComponent, HasInstance, DataInv, ArraysInv, Ids
<1>2. instances' = [d \in Components |-> IF d = c THEN Insert(instances[c], e) ELSE instances[d]]
  BY <1>1 DEF DataInv, ArraysInv
<1>3. Consistent(Insert(instances[c], e)) /\ Members(Insert(instances[c], e)) = Members(instances[c]) \cup {e}
  BY <1>1, InsertAdds
<1>4. UNCHANGED registryVars /\ removed' = removed /\ made' = made
  BY DEF EntityAddComponent, requestVars
<1>5. IInv' /\ Live' = Live
  BY <1>4 DEF DataInv, registryVars, IInv, SetConsistent, IdsPartition, Live, Freed
<1>6. ArraysInv'
  BY <1>1, <1>2, <1>3, <1>5 DEF DataInv, ArraysInv, NoOrphans
<1>7. Kept
  BY <1>2, <1>3 DEF Kept
<1>. QED
  BY <1>4, <1>5, <1>6, <1>7 DEF DataInv

LEMMA AskKeeps ==
  ASSUME DataInv, NEW e \in Ids,
         (\E c \in Components : EntityRemoveComponent(e, c)) \/ EntityDestroy(e)
  PROVE  DataInv' /\ Kept
<1>1. UNCHANGED dataVars
  BY DEF EntityRemoveComponent, EntityDestroy
<1>2. UNCHANGED registryVars /\ instances' = instances /\ made' = made
  BY <1>1 DEF dataVars
<1>3. IInv' /\ Live' = Live
  BY <1>2 DEF DataInv, registryVars, IInv, SetConsistent, IdsPartition, Live, Freed
<1>4. removed' \in Seq(RemoveRequests)
  <2>1. CASE EntityDestroy(e)
    BY <2>1 DEF EntityDestroy, DataInv
  <2>2. ASSUME NEW c \in Components, EntityRemoveComponent(e, c)
        PROVE  removed' \in Seq(RemoveRequests)
    <3>1. RemoveRequest(e, c) \in RemoveRequests
      BY DEF RemoveRequest, RemoveRequests, DataInv
    <3>. QED
      BY <2>2, <3>1 DEF EntityRemoveComponent, DataInv
  <2>. QED
    BY <2>1, <2>2
<1>. QED
  BY <1>2, <1>3, <1>4 DEF DataInv, ArraysInv, NoOrphans, Kept

LEMMA OperationKeeps ==
  ASSUME DataInv, NEW op \in Operations, Operation(op)
  PROVE  DataInv' /\ Kept
<1>1. CASE op = "create"
  BY <1>1, CreateKeeps DEF Operation
<1>2. CASE op = "add"
  BY <1>2, AddKeeps DEF Operation
<1>3. CASE op = "remove"
  BY <1>3, AskKeeps DEF Operation
<1>4. CASE op = "destroy"
  BY <1>4, AskKeeps DEF Operation
<1>. QED
  BY <1>1, <1>2, <1>3, <1>4 DEF Operations

LEMMA Unchanged ==
  ASSUME DataInv, UNCHANGED <<dataVars, removed>>
  PROVE  DataInv' /\ Kept
<1>1. UNCHANGED registryVars /\ instances' = instances /\ made' = made /\ removed' = removed
  BY DEF dataVars
<1>. QED
  BY <1>1 DEF DataInv, ArraysInv, NoOrphans, Kept, registryVars, IInv, SetConsistent,
              IdsPartition, Live, Freed

\* An operation does not disturb the instance Flush is about to erase.
LEMMA TargetKept ==
  ASSUME TargetInv, Kept, UNCHANGED <<at, target>>
  PROVE  TargetInv'
  BY HasIsMember DEF TargetInv, Kept, HasInstance

LEMMA PoppedRequests ==
  ASSUME removed \in Seq(RemoveRequests), removed # <<>>
  PROVE  PopBack(removed) \in Seq(RemoveRequests) /\ Back(removed) \in RemoveRequests
<1>1. Len(removed) # 0
  OBVIOUS
<1>2. PopBack(removed) \in Seq(RemoveRequests)
  BY <1>1, PopBackElements
<1>. QED
  BY <1>1, <1>2 DEF Back

LEMMA RemovalAnnounced ==
  ASSUME StateInv, AnnounceRemoval
  PROVE  StateInv'
<1>1. DataInv /\ UNCHANGED <<dataVars, removed>>
  BY DEF StateInv, DataInv, AnnounceRemoval, requestVars
<1>2. DataInv' /\ Kept
  BY <1>1, Unchanged
<1>3. /\ target' = Back(removed) /\ target' \in RemoveRequests
      /\ HasInstance(target'.entity, target'.component)
  BY PoppedRequests DEF AnnounceRemoval, NextRequest, StateInv
<1>4. target'.component \in Components
  BY <1>3 DEF RemoveRequests
<1>5. HasInstance(target.entity, target.component)'
  BY <1>2, <1>3, <1>4, HasIsMember DEF Kept, HasInstance
<1>. QED
  BY <1>2, <1>4, <1>5 DEF StateInv, DataInv, TargetInv

LEMMA RemovalCarriedOut ==
  ASSUME StateInv, CarryOutRemoval
  PROVE  StateInv'
<1> DEFINE e == target.entity
           c == target.component
<1>1. c \in Components /\ HasKey(instances[c], e) /\ Consistent(instances[c])
  BY DEF StateInv, TargetInv, CarryOutRemoval, HasInstance, ArraysInv
<1>2. instances' = [instances EXCEPT ![c] = Without(@, e)]
  BY DEF CarryOutRemoval
<1>3. instances' = [d \in Components |-> IF d = c THEN Erase(instances[c], e) ELSE instances[d]]
  BY <1>1, <1>2 DEF StateInv, ArraysInv, Without
<1>4. Consistent(Erase(instances[c], e)) /\ Members(Erase(instances[c], e)) = Members(instances[c]) \ {e}
  BY <1>1, EraseRemoves
<1>5. UNCHANGED registryVars /\ made' = made /\ removed' = PopBack(removed) /\ at' = "remove"
  BY DEF CarryOutRemoval
<1>6. IInv' /\ Live' = Live
  BY <1>5 DEF StateInv, registryVars, IInv, SetConsistent, IdsPartition, Live, Freed
<1>7. ArraysInv'
  BY <1>1, <1>3, <1>4, <1>6 DEF StateInv, ArraysInv, NoOrphans
<1>8. removed' \in Seq(RemoveRequests)
  BY <1>5, PopBackElements DEF StateInv, PopBack
<1>. QED
  BY <1>5, <1>6, <1>7, <1>8 DEF StateInv, TargetInv

LEMMA DestroyCarriedOut ==
  ASSUME StateInv, CarryOutDestroy
  PROVE  StateInv'
<1> DEFINE e == target.entity
<1>1. /\ DestroyEntity(e) /\ instances' = Erased(e)
      /\ made' = made /\ removed' = removed /\ at' = "destroy"
  BY DEF CarryOutDestroy
<1>2. e \in Ids
  BY <1>1, LiveIsId, HasIsMember DEF StateInv, DestroyEntity, MayDestroy, Live
<1>3. IInv' /\ Live' = Live \ {e}
  BY <1>1, <1>2, DestroyStep DEF StateInv
<1>4. instances' = [c \in Components |-> IF HasKey(instances[c], e) THEN Erase(instances[c], e) ELSE instances[c]]
  BY <1>1 DEF Erased, Without
<1>5. ASSUME NEW c \in Components
      PROVE  Consistent(instances'[c]) /\ Members(instances'[c]) = Members(instances[c]) \ {e}
  <2>1. Consistent(instances[c])
    BY DEF StateInv, ArraysInv
  <2>2. CASE HasKey(instances[c], e)
    <3>1. instances'[c] = Erase(instances[c], e)
      BY <1>4, <2>2
    <3>. QED
      BY <2>1, <2>2, <3>1, EraseRemoves
  <2>3. CASE ~HasKey(instances[c], e)
    <3>1. instances'[c] = instances[c] /\ e \notin Members(instances[c])
      BY <1>4, <2>3, HasIsMember
    <3>. QED
      BY <2>1, <3>1
  <2>. QED
    BY <2>2, <2>3
<1>6. instances' = [c \in Components |-> instances'[c]]
  BY <1>4
<1>7. ArraysInv'
  BY <1>3, <1>5, <1>6 DEF StateInv, ArraysInv, NoOrphans
<1>. QED
  BY <1>1, <1>3, <1>7 DEF StateInv, TargetInv

LEMMA InitStateInv == InitState => StateInv
<1> SUFFICES ASSUME InitState
             PROVE  StateInv
  OBVIOUS
<1>1. Init /\ instances = [c \in Components |-> NewSet] /\ removed = <<>> /\ at = "frame"
      /\ made = [e \in Ids |-> 0]
  BY DEF InitState
<1>2. IInv
  BY <1>1, InitIInv
<1>3. Consistent(NewSet) /\ Members(NewSet) = {}
  <2>1. entities = NewSet
    BY <1>1 DEF Init
  <2>2. Members(NewSet) = {}
    BY DEF NewSet, Members
  <2>. QED
    BY <1>2, <2>1, <2>2 DEF IInv, SetConsistent
<1>. QED
  BY <1>1, <1>2, <1>3 DEF StateInv, ArraysInv, NoOrphans, TargetInv

LEMMA NextStateInv == StateInv /\ [NextState]_stateVars => StateInv'
<1> SUFFICES ASSUME StateInv, [NextState]_stateVars
             PROVE  StateInv'
  OBVIOUS
<1>. USE DEF StateInv, DataInv
<1>1. CASE ProgramStep \/ HandlerStep
  <2>1. DataInv' /\ Kept
    BY <1>1, OperationKeeps, GameStateAssumption DEF ProgramStep, HandlerStep
  <2>2. TargetInv'
    BY <1>1, <2>1, TargetKept DEF ProgramStep, HandlerStep
  <2>. QED
    BY <2>1, <2>2
<1>2. ASSUME UNCHANGED <<dataVars, removed>>, at' # "removing"
      PROVE  StateInv'
  BY <1>2, Unchanged DEF TargetInv
<1>3. CASE (\E c \in Components : RunSystem(c)) \/ Transform \/ SystemDone \/ BeginFlush
  BY <1>2, <1>3 DEF RunSystem, Transform, SystemDone, BeginFlush, requestVars
<1>4. CASE AnnounceRemoval
  BY <1>4, RemovalAnnounced
<1>5. CASE CarryOutRemoval
  BY <1>5, RemovalCarriedOut
<1>6. CASE DropRemoval
  <2>1. DataInv
    OBVIOUS
  <2>2. UNCHANGED dataVars /\ removed' = PopBack(removed) /\ removed # <<>> /\ at' = at /\ at = "remove"
    BY <1>6 DEF DropRemoval
  <2>3. removed' \in Seq(RemoveRequests)
    BY <2>2, PoppedRequests
  <2>4. IInv' /\ ArraysInv' /\ made' = made
    BY <2>2 DEF dataVars, registryVars, IInv, SetConsistent, IdsPartition, Live, Freed,
                ArraysInv, NoOrphans
  <2>. QED
    BY <2>2, <2>3, <2>4 DEF TargetInv
<1>7. CASE RemovalsDone \/ BeginDestroy \/ DropDestroy \/ EndFlush
  BY <1>2, <1>7 DEF RemovalsDone, BeginDestroy, DropDestroy, EndFlush, requestVars
<1>8. CASE AnnounceNext
  <2>1. DataInv' /\ Kept
    BY <1>8, Unchanged DEF AnnounceNext, requestVars
  <2>2. TargetInv'
    BY <1>8, <2>1, TargetKept DEF AnnounceNext
  <2>. QED
    BY <2>1, <2>2
<1>9. CASE CarryOutDestroy
  BY <1>9, DestroyCarriedOut
<1>10. CASE UNCHANGED stateVars
  <2>1. UNCHANGED <<dataVars, removed>> /\ UNCHANGED <<at, target>>
    BY <1>10 DEF stateVars, requestVars
  <2>2. DataInv' /\ Kept
    BY <2>1, Unchanged
  <2>3. TargetInv'
    BY <2>1, <2>2, TargetKept
  <2>. QED
    BY <2>2, <2>3
<1>. QED
  BY <1>1, <1>3, <1>4, <1>5, <1>6, <1>7, <1>8, <1>9, <1>10 DEF NextState, FlushStep

LEMMA StateInvariance == StateSpec => []StateInv
BY InitStateInv, NextStateInv, PTL DEF StateSpec

\* Dead entities have no instances, for all handlers.
THEOREM DeadEntitiesHaveNoInstances == StateSpec => []NoOrphans
<1>1. StateInv => NoOrphans
  BY DEF StateInv, ArraysInv
<1>. QED
  BY <1>1, StateInvariance, PTL

\* No unchecked insert or erase of the scene meets a key it must not.
THEOREM ArraysStayConsistent == StateSpec => []ArraysConsistent
<1>1. StateInv => ArraysConsistent
  BY DEF StateInv, ArraysInv, IInv, ArraysConsistent
<1>. QED
  BY <1>1, StateInvariance, PTL

\* In a scene, ids stay partitioned into live and free ones.
THEOREM SceneIdsArePartitioned == StateSpec => []IdsPartition
<1>1. StateInv => IdsPartition
  BY DEF StateInv, IInv
<1>. QED
  BY <1>1, StateInvariance, PTL

\* What the scene does to the registry.
LEMMA SceneUsesPool ==
  StateInv /\ [NextState]_stateVars => [Pool!Next]_<<Live, SizeOf(entities)>>
<1> SUFFICES ASSUME StateInv, [NextState]_stateVars
             PROVE  [Pool!Next]_<<Live, SizeOf(entities)>>
  OBVIOUS
<1>1. ASSUME UNCHANGED registryVars PROVE [Pool!Next]_<<Live, SizeOf(entities)>>
  BY <1>1 DEF registryVars, Live, SizeOf
<1>2. ASSUME CreateEntity PROVE [Pool!Next]_<<Live, SizeOf(entities)>>
  <2>1. AllocEntity \in Ids
    BY <1>2 DEF CreateEntity
  <2>. QED
    BY <1>2, <2>1, CreateStep DEF StateInv, Pool!Next, Pool!Create
<1>3. ASSUME NEW e, DestroyEntity(e) PROVE [Pool!Next]_<<Live, SizeOf(entities)>>
  <2>1. e \in Ids
    BY <1>3, LiveIsId, HasIsMember DEF DestroyEntity, MayDestroy, StateInv, Live
  <2>. QED
    BY <1>3, <2>1, DestroyStep DEF StateInv, Pool!Next, Pool!Destroy
<1>4. CASE ProgramStep \/ HandlerStep
  <2>1. PICK op \in Operations : Operation(op)
    BY <1>4, GameStateAssumption DEF ProgramStep, HandlerStep
  <2>2. CreateEntity \/ UNCHANGED registryVars
    BY <2>1 DEF Operations, Operation, EntityCreate, EntityAddComponent, EntityRemoveComponent,
                EntityDestroy, dataVars
  <2>. QED
    BY <1>1, <1>2, <2>2
<1>5. CASE CarryOutDestroy
  <2>1. PICK e : e = target.entity
    OBVIOUS
  <2>2. DestroyEntity(e)
    BY <1>5, <2>1 DEF CarryOutDestroy
  <2>. QED
    BY <1>3, <2>2
<1>6. CASE \/ (\E c \in Components : RunSystem(c)) \/ Transform \/ SystemDone \/ BeginFlush
           \/ AnnounceRemoval \/ CarryOutRemoval \/ DropRemoval \/ RemovalsDone
  <2>1. UNCHANGED registryVars
    BY <1>6 DEF RunSystem, Transform, SystemDone, BeginFlush, AnnounceRemoval, CarryOutRemoval,
                DropRemoval, RemovalsDone, dataVars
  <2>. QED
    BY <1>1, <2>1
<1>7. CASE BeginDestroy \/ DropDestroy \/ AnnounceNext \/ EndFlush \/ UNCHANGED stateVars
  <2>1. UNCHANGED registryVars
    BY <1>7 DEF BeginDestroy, DropDestroy, AnnounceNext, EndFlush, stateVars, dataVars
  <2>. QED
    BY <1>1, <2>1
<1>. QED
  BY <1>4, <1>5, <1>6, <1>7 DEF NextState, FlushStep

\* Ids are handed out by the registry inside a scene as by the registry alone: by
\* programs and handlers, and taken back by Flush.
THEOREM SceneRegistryRefinement == StateSpec => ImplementsIdPool
<1>1. InitState => Pool!Init
  <2>1. InitState => Init
    BY DEF InitState
  <2>2. Init => Pool!Init
    BY InitIInv DEF Pool!Init
  <2>. QED
    BY <2>1, <2>2
<1>. QED
  BY <1>1, SceneUsesPool, InitStateInv, NextStateInv, PTL DEF StateSpec, ImplementsIdPool, Pool!Spec
-----------------------------------------------------------------------------
\* The loop of a system.
\* The members of a consistent set, in the order of dense: each of them once.
LEMMA DenseMembers ==
  ASSUME NEW s, Consistent(s)
  PROVE  /\ SizeOf(s) \in Nat
         /\ \A i \in 1 .. SizeOf(s) : s.dense[i] \in Members(s) /\ s.dense[i] \in Nat
         /\ Members(s) = {s.dense[i] : i \in 1 .. SizeOf(s)}
         /\ \A i, j \in 1 .. SizeOf(s) : s.dense[i] = s.dense[j] => i = j
<1>1. /\ SizeOf(s) \in Nat
      /\ \A i \in 1 .. SizeOf(s) : s.dense[i] \in DOMAIN s.sparse
  BY DEF Consistent, SizeOf
<1>2. \A i \in 1 .. SizeOf(s) : s.sparse[s.dense[i]] = i - 1
  BY DEF Consistent
<1>3. \A i \in 1 .. SizeOf(s) : i - 1 # Absent
  BY <1>1 DEF Absent
<1>4. \A i \in 1 .. SizeOf(s) : s.dense[i] \in Members(s)
  BY <1>1, <1>2, <1>3 DEF Members
<1>5. ASSUME NEW k \in Members(s)
      PROVE  \E i \in 1 .. SizeOf(s) : k = s.dense[i]
  <2>1. s.sparse[k] \in 0 .. SizeOf(s) - 1 /\ s.dense[s.sparse[k] + 1] = k
    BY DEF Consistent
  <2>2. s.sparse[k] + 1 \in 1 .. SizeOf(s)
    BY <1>1, <2>1
  <2>. QED
    BY <2>1, <2>2
<1>6. \A i, j \in 1 .. SizeOf(s) : s.dense[i] = s.dense[j] => i = j
  <2> SUFFICES ASSUME NEW i \in 1 .. SizeOf(s), NEW j \in 1 .. SizeOf(s), s.dense[i] = s.dense[j]
               PROVE  i = j
    OBVIOUS
  <2>1. i - 1 = j - 1
    BY <1>2
  <2>. QED
    BY <1>1, <2>1
<1>7. \A i \in 1 .. SizeOf(s) : s.dense[i] \in Nat
  BY <1>1 DEF Consistent
<1>. QED
  BY <1>1, <1>4, <1>5, <1>6, <1>7

\* An array that only got insertions: everybody keeps its position.
Extends(s, t) ==
  /\ SizeOf(s) \in Nat /\ SizeOf(t) \in Nat /\ SizeOf(s) <= SizeOf(t)
  /\ \A i \in 1 .. SizeOf(s) : t.dense[i] = s.dense[i]

Extended == \A c \in Components : Extends(instances[c], instances'[c])

LEMMA ExtendsItself ==
  ASSUME NEW s, Consistent(s)
  PROVE  Extends(s, s)
  BY DenseMembers DEF Extends

LEMMA InsertExtends ==
  ASSUME NEW s, Consistent(s), NEW k
  PROVE  Extends(s, Insert(s, k))
<1>1. s.dense \in Seq(DOMAIN s.sparse)
  BY DEF Consistent
<1>2. Insert(s, k).dense = Append(s.dense, k)
  BY DEF Insert
<1>3. \A i \in 1 .. Len(s.dense) : Append(s.dense, k)[i] = s.dense[i]
  BY <1>1
<1>4. Len(s.dense) \in Nat /\ Len(Append(s.dense, k)) = Len(s.dense) + 1
  BY <1>1
<1>. QED
  BY <1>2, <1>3, <1>4 DEF Extends, SizeOf

\* Whatever programs and handlers do extends the arrays.
LEMMA OperationExtends ==
  ASSUME DataInv, NEW op \in Operations, Operation(op)
  PROVE  Extended
<1>1. \A c \in Components : Consistent(instances[c])
  BY DEF DataInv, ArraysInv
<1>2. ASSUME NEW cs \in Attributes, EntityCreate(cs), NEW c \in Components
      PROVE  Extends(instances[c], instances'[c])
  <2>1. instances'[c] = Insert(instances[c], AllocEntity) \/ instances'[c] = instances[c]
    BY <1>2 DEF EntityCreate
  <2>. QED
    BY <1>1, <2>1, ExtendsItself, InsertExtends
<1>3. ASSUME NEW e \in Ids, NEW d \in Components, EntityAddComponent(e, d), NEW c \in Components
      PROVE  Extends(instances[c], instances'[c])
  <2>1. instances'[c] = Insert(instances[c], e) \/ instances'[c] = instances[c]
    BY <1>3 DEF EntityAddComponent, DataInv, ArraysInv
  <2>. QED
    BY <1>1, <2>1, ExtendsItself, InsertExtends
<1>4. CASE instances' = instances
  BY <1>1, <1>4, ExtendsItself DEF Extended
<1>5. CASE op = "create"
  BY <1>2, <1>5 DEF Operation, Extended
<1>6. CASE op = "add"
  BY <1>3, <1>6 DEF Operation, Extended
<1>7. CASE op = "remove"
  BY <1>4, <1>7 DEF Operation, EntityRemoveComponent, dataVars
<1>8. CASE op = "destroy"
  BY <1>4, <1>8 DEF Operation, EntityDestroy, dataVars
<1>. QED
  BY <1>5, <1>6, <1>7, <1>8 DEF Operations

\* The system in the loop: it was run on the entities before its position, and
\* has to be run on those before the end it saw when it began.
WalkInv ==
  /\ loop \in [next : Nat, end : Nat]
  /\ at = "run" =>
       /\ target.component \in Components
       /\ loop.end \in Nat /\ loop.next \in 1 .. loop.end + 1
       /\ loop.end <= SizeOf(instances[target.component])
       /\ due = {instances[target.component].dense[i] : i \in 1 .. loop.end}
       /\ seen \in Seq(Nat)
       /\ Len(seen) = loop.next - 1
       /\ \A i \in 1 .. loop.next - 1 : seen[i] = instances[target.component].dense[i]

LEMMA WalkExtended ==
  ASSUME WalkInv, Extended, UNCHANGED <<at, target, loop, due, seen>>
  PROVE  WalkInv'
<1> SUFFICES ASSUME at = "run"
             PROVE  WalkInv'
  BY DEF WalkInv
<1>0. loop \in [next : Nat, end : Nat]
  BY DEF WalkInv
<1> DEFINE s == instances[target.component]
           t == instances'[target.component]
<1>1. /\ target.component \in Components
      /\ loop.end \in Nat /\ loop.next \in 1 .. loop.end + 1
      /\ loop.end <= SizeOf(s)
      /\ due = {s.dense[i] : i \in 1 .. loop.end}
      /\ \A i \in 1 .. loop.next - 1 : seen[i] = s.dense[i]
  BY DEF WalkInv
<1>2. /\ SizeOf(s) \in Nat /\ SizeOf(t) \in Nat /\ SizeOf(s) <= SizeOf(t)
      /\ \A i \in 1 .. SizeOf(s) : t.dense[i] = s.dense[i]
  BY <1>1 DEF Extended, Extends
<1>3. \A i \in 1 .. loop.end : t.dense[i] = s.dense[i]
  BY <1>1, <1>2
<1>4. \A i \in 1 .. loop.next - 1 : i \in 1 .. loop.end
  BY <1>1
<1>5. {t.dense[i] : i \in 1 .. loop.end} = due
  BY <1>1, <1>3
<1>6. loop.end <= SizeOf(t)
  BY <1>1, <1>2
<1>7. \A i \in 1 .. loop.next - 1 : seen[i] = t.dense[i]
  BY <1>1, <1>3, <1>4
<1>8. seen \in Seq(Nat) /\ Len(seen) = loop.next - 1
  BY DEF WalkInv
<1>9. UNCHANGED <<at, target, loop, due, seen>>
  OBVIOUS
<1>10. t = instances'[target'.component]
  BY <1>9
<1>. HIDE DEF s, t
<1>11. /\ loop' \in [next : Nat, end : Nat] /\ target'.component \in Components
       /\ loop'.end \in Nat /\ loop'.next \in 1 .. loop'.end + 1
       /\ seen' \in Seq(Nat) /\ Len(seen') = loop'.next - 1
  BY <1>0, <1>1, <1>8, <1>9
<1>12. /\ loop'.end <= SizeOf(t)
       /\ due' = {t.dense[i] : i \in 1 .. loop'.end}
       /\ \A i \in 1 .. loop'.next - 1 : seen'[i] = t.dense[i]
  BY <1>5, <1>6, <1>7, <1>9
<1>. QED
  BY <1>10, <1>11, <1>12 DEF WalkInv

LEMMA TransformWalks ==
  ASSUME StateInv, WalkInv, Transform
  PROVE  WalkInv'
<1> DEFINE s == instances[target.component]
           n == loop.next
<1>1. /\ at = "run" /\ n <= loop.end
      /\ seen' = Append(seen, ReadAt(s.dense, n))
      /\ loop' = [loop EXCEPT !.next = @ + 1]
      /\ due' = due /\ at' = at /\ target' = target /\ instances' = instances
  BY DEF Transform, Advanced, dataVars
<1>2. /\ target.component \in Components
      /\ loop.end \in Nat /\ n \in 1 .. loop.end + 1
      /\ loop.end <= SizeOf(s)
      /\ due = {s.dense[i] : i \in 1 .. loop.end}
      /\ seen \in Seq(Nat) /\ Len(seen) = n - 1
      /\ \A i \in 1 .. n - 1 : seen[i] = s.dense[i]
  BY <1>1 DEF WalkInv
<1>3. Consistent(s)
  BY <1>2 DEF StateInv, ArraysInv
<1>4. /\ SizeOf(s) \in Nat /\ n \in 1 .. SizeOf(s)
      /\ n \in DOMAIN s.dense /\ s.dense[n] \in Nat
  <2>1. SizeOf(s) \in Nat /\ n \in 1 .. SizeOf(s)
    BY <1>1, <1>2, <1>3, DenseMembers
  <2>2. DOMAIN s.dense = 1 .. SizeOf(s)
    BY <1>3 DEF Consistent, SizeOf
  <2>. QED
    BY <1>3, <2>1, <2>2, DenseMembers
<1>5. seen' = Append(seen, s.dense[n])
  BY <1>1, <1>4 DEF ReadAt
<1>6. /\ seen' \in Seq(Nat) /\ Len(seen') = n
      /\ \A i \in 1 .. n - 1 : seen'[i] = seen[i]
      /\ seen'[n] = s.dense[n]
  BY <1>2, <1>4, <1>5
<1>7. \A i \in 1 .. n : seen'[i] = s.dense[i]
  <2>1. \A i \in 1 .. n : i \in 1 .. n - 1 \/ i = n
    BY <1>2
  <2>. QED
    BY <1>2, <1>6, <2>1
<1>8. loop' \in [next : Nat, end : Nat] /\ loop'.end = loop.end /\ loop'.next = n + 1
  BY <1>1 DEF WalkInv
<1>. QED
  BY <1>1, <1>2, <1>6, <1>7, <1>8 DEF WalkInv

\* Which arrays an operation changes, and how.
LEMMA CreateAdds ==
  ASSUME DataInv, NEW cs \in Attributes, EntityCreate(cs)
  PROVE  /\ AllocEntity \in Ids /\ AllocEntity \notin Live
         /\ Live' = Live \cup {AllocEntity}
         /\ \A c \in Components :
              Members(instances'[c]) =
                IF c \in ToSet(cs) THEN Members(instances[c]) \cup {AllocEntity}
                ELSE Members(instances[c])
<1> DEFINE e == AllocEntity
<1>1. e \notin Live /\ Live' = Live \cup {e}
  BY CreateStep DEF DataInv, EntityCreate
<1>2. e \in Ids /\ e \in Nat
  BY EntityRegistryAssumption DEF EntityCreate, CreateEntity, Ids
<1>3. ASSUME NEW c \in Components, c \in ToSet(cs)
      PROVE  Members(instances'[c]) = Members(instances[c]) \cup {e}
  <2>1. Consistent(instances[c]) /\ ~HasKey(instances[c], e)
    BY <1>1, HasIsMember DEF DataInv, ArraysInv, NoOrphans
  <2>2. instances'[c] = Insert(instances[c], e)
    BY <1>3 DEF EntityCreate
  <2>. QED
    BY <1>2, <2>1, <2>2, InsertAdds
<1>4. ASSUME NEW c \in Components, c \notin ToSet(cs)
      PROVE  instances'[c] = instances[c]
  BY <1>4 DEF EntityCreate
<1>. QED
  BY <1>1, <1>2, <1>3, <1>4

LEMMA AddAdds ==
  ASSUME DataInv, NEW e \in Ids, NEW d \in Components, EntityAddComponent(e, d)
  PROVE  /\ e \in Live /\ e \notin Members(instances[d])
         /\ Live' = Live
         /\ \A c \in Components :
              Members(instances'[c]) =
                IF c = d THEN Members(instances[c]) \cup {e} ELSE Members(instances[c])
<1>1. /\ e \in Live /\ ~HasKey(instances[d], e) /\ e \in Nat
      /\ instances' = [instances EXCEPT ![d] = Insert(@, e)]
      /\ Consistent(instances[d])
      /\ instances = [c \in Components |-> instances[c]]
      /\ UNCHANGED registryVars
  BY EntityRegistryAssumption DEF EntityAddComponent, HasInstance, DataInv, ArraysInv, Ids
<1>2. Live' = Live
  BY <1>1 DEF registryVars, Live
<1>3. Members(Insert(instances[d], e)) = Members(instances[d]) \cup {e}
  BY <1>1, InsertAdds
<1>4. instances'[d] = Insert(instances[d], e)
  BY <1>1
<1>5. \A c \in Components : c # d => instances'[c] = instances[c]
  BY <1>1
<1>. QED
  BY <1>1, <1>2, <1>3, <1>4, <1>5, HasIsMember

\* The tables: each component with an instance has an array, and arrays are
\* appended.
TablesInv ==
  /\ tables \in Seq(Components)
  /\ \A c \in Components : Members(instances[c]) # {} => c \in ToSet(tables)

TablesGrow ==
  /\ Len(tables) \in Nat /\ Len(tables') \in Nat /\ Len(tables) <= Len(tables')
  /\ \A i \in 1 .. Len(tables) : tables'[i] = tables[i]

LEMMA Opens ==
  ASSUME tables \in Seq(Components), NEW cs \in Seq(Components), OpenArrays(cs)
  PROVE  /\ tables' \in Seq(Components)
         /\ TablesGrow
         /\ ToSet(tables) \cup ToSet(cs) \subseteq ToSet(tables')
<1> DEFINE new == {i \in DOMAIN cs : cs[i] \notin ToSet(tables)}
           n == Cardinality(new)
           m == Len(tables)
<1>1. PICK order \in Bijection(1 .. n, new) :
        tables' = tables \o [i \in DOMAIN order |-> cs[order[i]]]
  BY DEF OpenArrays
<1>2. n \in Nat
  <2>1. new \subseteq 1 .. Len(cs) /\ Len(cs) \in Nat
    OBVIOUS
  <2>2. IsFiniteSet(1 .. Len(cs))
    BY <2>1, FS_Interval
  <2>3. IsFiniteSet(new)
    BY <2>1, <2>2, FS_Subset
  <2>. QED
    BY <2>3, FS_CardinalityType
<1>3. /\ order \in [1 .. n -> new]
      /\ \A i \in new : \E k \in 1 .. n : order[k] = i
  BY <1>1 DEF Bijection, Injection, Surjection
<1> DEFINE q == [i \in 1 .. n |-> cs[order[i]]]
<1>4. tables' = tables \o q
  BY <1>1, <1>3
<1>5. q \in Seq(Components) /\ Len(q) = n
  <2>1. \A i \in 1 .. n : cs[order[i]] \in Components
    BY <1>3
  <2>2. q \in [1 .. n -> Components]
    BY <2>1
  <2>. QED
    BY <1>2, <2>2
<1>6. m \in Nat
  OBVIOUS
<1>7. /\ tables' \in Seq(Components) /\ Len(tables') = m + n
      /\ \A i \in 1 .. m : tables'[i] = tables[i]
      /\ \A i \in 1 .. n : tables'[m + i] = q[i]
  <2>1. /\ tables \o q \in Seq(Components) /\ Len(tables \o q) = m + n
        /\ \A i \in 1 .. m + n : (tables \o q)[i] = IF i <= m THEN tables[i] ELSE q[i - m]
    <3>. HIDE DEF q
    <3>. QED
      BY <1>5, ConcatProperties
  <2>2. /\ \A i \in 1 .. m : i \in 1 .. m + n /\ i <= m
        /\ \A i \in 1 .. n : m + i \in 1 .. m + n /\ ~(m + i <= m) /\ (m + i) - m = i
    <3>. HIDE DEF n, m
    <3>. QED
      BY <1>2, <1>6
  <2>. HIDE DEF q, n, m
  <2>. QED
    BY <1>4, <2>1, <2>2
<1>8. ASSUME NEW c \in ToSet(tables)
      PROVE  c \in ToSet(tables')
  <2>1. PICK i \in 1 .. m : c = tables[i]
    BY DEF ToSet
  <2>2. c = tables'[i] /\ i \in 1 .. m + n
    BY <1>2, <1>6, <1>7, <2>1
  <2>3. DOMAIN tables' = 1 .. m + n
    BY <1>7
  <2>. QED
    BY <2>2, <2>3 DEF ToSet
<1>9. ASSUME NEW c \in ToSet(cs), c \notin ToSet(tables)
      PROVE  c \in ToSet(tables')
  <2>1. PICK i \in DOMAIN cs : c = cs[i]
    BY DEF ToSet
  <2>2. i \in new
    BY <1>9, <2>1
  <2>3. PICK k \in 1 .. n : order[k] = i
    BY <1>3, <2>2
  <2>4. c = tables'[m + k] /\ m + k \in 1 .. m + n
    BY <1>2, <1>6, <1>7, <2>1, <2>3
  <2>5. DOMAIN tables' = 1 .. m + n
    BY <1>7
  <2>. QED
    BY <2>4, <2>5 DEF ToSet
<1>. HIDE DEF n
<1>. QED
  BY <1>2, <1>6, <1>7, <1>8, <1>9 DEF TablesGrow

LEMMA TablesUnchanged ==
  ASSUME TablesInv, tables' = tables,
         \A c \in Components : Members(instances'[c]) \subseteq Members(instances[c])
  PROVE  TablesInv' /\ TablesGrow
<1>1. tables \in Seq(Components) /\ Len(tables) \in Nat
  BY DEF TablesInv
<1>2. \A c \in Components : Members(instances'[c]) # {} => c \in ToSet(tables)
  BY DEF TablesInv
<1>3. ToSet(tables') = ToSet(tables)
  OBVIOUS
<1>4. TablesInv'
  BY <1>1, <1>2, <1>3 DEF TablesInv
<1>. QED
  BY <1>1, <1>4 DEF TablesGrow

LEMMA OperationOpens ==
  ASSUME DataInv, TablesInv, NEW op \in Operations, Operation(op)
  PROVE  TablesInv' /\ TablesGrow
<1>1. ASSUME NEW cs \in Attributes, EntityCreate(cs)
      PROVE  TablesInv' /\ TablesGrow
  <2>1. /\ tables' \in Seq(Components) /\ TablesGrow
        /\ ToSet(tables) \cup ToSet(cs) \subseteq ToSet(tables')
    BY <1>1, Opens, GameStateAssumption DEF TablesInv, EntityCreate
  <2>2. \A c \in Components : Members(instances'[c]) # {} => c \in ToSet(cs) \/ Members(instances[c]) # {}
    BY <1>1, CreateAdds
  <2>. QED
    BY <2>1, <2>2 DEF TablesInv
<1>2. ASSUME NEW e \in Ids, NEW d \in Components, EntityAddComponent(e, d)
      PROVE  TablesInv' /\ TablesGrow
  <2>1. <<d>> \in Seq(Components) /\ ToSet(<<d>>) = {d}
    BY DEF ToSet
  <2>2. /\ tables' \in Seq(Components) /\ TablesGrow
        /\ ToSet(tables) \cup {d} \subseteq ToSet(tables')
    BY <1>2, <2>1, Opens DEF TablesInv, EntityAddComponent
  <2>3. \A c \in Components : Members(instances'[c]) # {} => c = d \/ Members(instances[c]) # {}
    BY <1>2, AddAdds
  <2>. QED
    BY <2>2, <2>3 DEF TablesInv
<1>3. CASE op = "create"
  BY <1>1, <1>3 DEF Operation
<1>4. CASE op = "add"
  BY <1>2, <1>4 DEF Operation
<1>5. CASE op = "remove"
  BY <1>5, TablesUnchanged DEF Operation, EntityRemoveComponent, dataVars
<1>6. CASE op = "destroy"
  BY <1>6, TablesUnchanged DEF Operation, EntityDestroy, dataVars
<1>. QED
  BY <1>3, <1>4, <1>5, <1>6 DEF Operations

\* Flush only takes instances away.
LEMMA RemovalErases ==
  ASSUME StateInv, CarryOutRemoval
  PROVE  /\ Live' = Live
         /\ \A c \in Components :
              Members(instances'[c]) =
                IF c = target.component THEN Members(instances[c]) \ {target.entity}
                ELSE Members(instances[c])
<1> DEFINE e == target.entity
           d == target.component
<1>1. /\ d \in Components /\ HasKey(instances[d], e) /\ Consistent(instances[d])
      /\ instances = [c \in Components |-> instances[c]]
  BY DEF StateInv, TargetInv, CarryOutRemoval, HasInstance, ArraysInv
<1>2. instances' = [instances EXCEPT ![d] = Without(@, e)] /\ UNCHANGED registryVars
  BY DEF CarryOutRemoval
<1>3. instances'[d] = Erase(instances[d], e)
  BY <1>1, <1>2 DEF Without
<1>4. \A c \in Components : c # d => instances'[c] = instances[c]
  BY <1>1, <1>2
<1>5. Members(Erase(instances[d], e)) = Members(instances[d]) \ {e}
  BY <1>1, EraseRemoves
<1>. QED
  BY <1>2, <1>3, <1>4, <1>5 DEF registryVars, Live

LEMMA DestroyErases ==
  ASSUME StateInv, CarryOutDestroy
  PROVE  /\ target.entity \in Ids /\ target.entity \in Live
         /\ Live' = Live \ {target.entity}
         /\ \A c \in Components : Members(instances'[c]) = Members(instances[c]) \ {target.entity}
<1> DEFINE e == target.entity
<1>1. DestroyEntity(e) /\ instances' = Erased(e)
  BY DEF CarryOutDestroy
<1>2. e \in Ids
  BY <1>1, LiveIsId, HasIsMember DEF StateInv, DestroyEntity, MayDestroy, Live
<1>3. e \in Live /\ Live' = Live \ {e}
  BY <1>1, <1>2, DestroyStep DEF StateInv
<1>4. ASSUME NEW c \in Components
      PROVE  Members(instances'[c]) = Members(instances[c]) \ {e}
  <2>1. Consistent(instances[c])
    BY DEF StateInv, ArraysInv
  <2>2. CASE HasKey(instances[c], e)
    <3>1. instances'[c] = Erase(instances[c], e)
      BY <1>1, <2>2 DEF Erased, Without
    <3>. QED
      BY <2>1, <2>2, <3>1, EraseRemoves
  <2>3. CASE ~HasKey(instances[c], e)
    <3>1. instances'[c] = instances[c]
      BY <1>1, <2>3 DEF Erased, Without
    <3>2. e \notin Members(instances[c])
      BY <2>3, HasIsMember
    <3>. QED
      BY <3>1, <3>2
  <2>. QED
    BY <2>2, <2>3
<1>. QED
  BY <1>2, <1>3, <1>4

LEMMA WalkBegins ==
  ASSUME StateInv, NEW c \in Components, RunSystem(c)
  PROVE  WalkInv'
<1> DEFINE s == instances[c]
           n == SizeOf(instances[c])
<1>1. /\ at' = "run" /\ target'.component = c
      /\ loop' = [next |-> 1, end |-> n]
      /\ due' = Members(s) /\ seen' = <<>> /\ instances' = instances
  BY DEF RunSystem, LoopTo, dataVars
<1>2. n \in Nat /\ Members(s) = {s.dense[i] : i \in 1 .. n}
  BY DenseMembers DEF StateInv, ArraysInv
<1>3. loop' \in [next : Nat, end : Nat] /\ loop'.next = 1 /\ loop'.end = n
  BY <1>1, <1>2
<1>4. loop'.next \in 1 .. loop'.end + 1 /\ loop'.next - 1 = 0
  BY <1>2, <1>3
<1>5. seen' \in Seq(Nat) /\ Len(seen') = 0
  BY <1>1
<1>6. SizeOf(instances'[target'.component]) = n /\ n <= n
  BY <1>1, <1>2
<1>7. due' = {instances'[target'.component].dense[i] : i \in 1 .. loop'.end}
  BY <1>1, <1>2, <1>3
<1>8. 1 .. loop'.next - 1 = {}
  BY <1>3
<1>. HIDE DEF n
<1>. QED
  BY <1>1, <1>2, <1>3, <1>4, <1>5, <1>6, <1>7, <1>8 DEF WalkInv

LEMMA NotWalking ==
  ASSUME loop' \in [next : Nat, end : Nat], at' # "run"
  PROVE  WalkInv'
  BY DEF WalkInv

LEMMA LoopsToLength ==
  ASSUME NEW n \in Nat
  PROVE  LoopTo(n) \in [next : Nat, end : Nat]
  BY DEF LoopTo

SceneInv == StateInv /\ TablesInv /\ WalkInv

LEMMA InitSceneInv == InitState => SceneInv
<1> SUFFICES ASSUME InitState
             PROVE  SceneInv
  OBVIOUS
<1>1. /\ instances = [c \in Components |-> NewSet] /\ tables = <<>>
      /\ at = "frame" /\ loop = LoopTo(0)
  BY DEF InitState
<1>2. Members(NewSet) = {}
  BY DEF NewSet, Members
<1>3. TablesInv
  BY <1>1, <1>2 DEF TablesInv
<1>4. WalkInv
  BY <1>1, LoopsToLength DEF WalkInv
<1>. QED
  BY <1>3, <1>4, InitStateInv DEF SceneInv

\* What each step does to the tables.
LEMMA NextTables ==
  ASSUME StateInv, TablesInv, [NextState]_stateVars
  PROVE  TablesInv' /\ TablesGrow
<1>1. CASE ProgramStep \/ HandlerStep
  BY <1>1, OperationOpens, GameStateAssumption DEF ProgramStep, HandlerStep, StateInv, DataInv
<1>2. CASE UNCHANGED dataVars
  BY <1>2, TablesUnchanged DEF dataVars
<1>3. CASE (\E c \in Components : RunSystem(c)) \/ Transform \/ SystemDone \/ BeginFlush
  BY <1>2, <1>3 DEF RunSystem, Transform, SystemDone, BeginFlush
<1>4. CASE AnnounceRemoval \/ DropRemoval \/ RemovalsDone
  BY <1>2, <1>4 DEF AnnounceRemoval, DropRemoval, RemovalsDone
<1>5. CASE BeginDestroy \/ DropDestroy \/ AnnounceNext \/ EndFlush
  BY <1>2, <1>5 DEF BeginDestroy, DropDestroy, AnnounceNext, EndFlush
<1>6. CASE CarryOutRemoval
  <2>1. tables' = tables
    BY <1>6 DEF CarryOutRemoval
  <2>2. \A c \in Components : Members(instances'[c]) \subseteq Members(instances[c])
    BY <1>6, RemovalErases
  <2>. QED
    BY <2>1, <2>2, TablesUnchanged
<1>7. CASE CarryOutDestroy
  <2>1. tables' = tables
    BY <1>7 DEF CarryOutDestroy
  <2>2. \A c \in Components : Members(instances'[c]) \subseteq Members(instances[c])
    BY <1>7, DestroyErases
  <2>. QED
    BY <2>1, <2>2, TablesUnchanged
<1>8. CASE UNCHANGED stateVars
  BY <1>2, <1>8 DEF stateVars
<1>. QED
  BY <1>1, <1>3, <1>4, <1>5, <1>6, <1>7, <1>8 DEF NextState, FlushStep

LEMMA NextWalk ==
  ASSUME StateInv, TablesInv, WalkInv, [NextState]_stateVars
  PROVE  WalkInv'
<1>1. CASE ProgramStep \/ HandlerStep
  <2>1. Extended
    BY <1>1, OperationExtends, GameStateAssumption DEF ProgramStep, HandlerStep, StateInv, DataInv
  <2>2. UNCHANGED <<at, target, loop, due, seen>>
    BY <1>1 DEF ProgramStep, HandlerStep, walkVars
  <2>. QED
    BY <2>1, <2>2, WalkExtended
<1>2. CASE UNCHANGED stateVars
  <2>1. UNCHANGED <<at, target, loop, due, seen, instances>>
    BY <1>2 DEF stateVars, walkVars, dataVars
  <2>2. Extended
    BY <2>1, ExtendsItself DEF Extended, StateInv, ArraysInv
  <2>. QED
    BY <2>1, <2>2, WalkExtended
<1>3. ASSUME NEW c \in Components, RunSystem(c)
      PROVE  WalkInv'
  BY <1>3, WalkBegins
<1>4. CASE Transform
  BY <1>4, TransformWalks
<1>5. CASE SystemDone \/ CarryOutDestroy
  <2>1. loop' = LoopTo(0) /\ at' # "run"
    BY <1>5 DEF SystemDone, CarryOutDestroy
  <2>. QED
    BY <2>1, LoopsToLength, NotWalking
<1>6. CASE BeginDestroy
  <2>1. loop' = LoopTo(Len(tables)) /\ at' # "run" /\ Len(tables) \in Nat
    BY <1>6 DEF BeginDestroy, TablesInv
  <2>2. loop' \in [next : Nat, end : Nat]
    BY <2>1, LoopsToLength
  <2>. QED
    BY <2>1, <2>2, NotWalking
<1>7. CASE AnnounceNext
  <2>1. loop' = [loop EXCEPT !.next = @ + 1] /\ at' # "run"
    BY <1>7 DEF AnnounceNext, Advanced
  <2>2. loop' \in [next : Nat, end : Nat]
    BY <2>1 DEF WalkInv
  <2>. QED
    BY <2>1, <2>2, NotWalking
<1>8. ASSUME loop' = loop, at' # "run"
      PROVE  WalkInv'
  BY <1>8, NotWalking DEF WalkInv
<1>9. CASE BeginFlush \/ AnnounceRemoval \/ CarryOutRemoval \/ DropRemoval \/ RemovalsDone
  BY <1>8, <1>9 DEF BeginFlush, AnnounceRemoval, CarryOutRemoval, DropRemoval, RemovalsDone
<1>10. CASE DropDestroy \/ EndFlush
  BY <1>8, <1>10 DEF DropDestroy, EndFlush
<1>. QED
  BY <1>1, <1>2, <1>3, <1>4, <1>5, <1>6, <1>7, <1>9, <1>10 DEF NextState, FlushStep

LEMMA SceneInvariance == StateSpec => []SceneInv
<1>1. SceneInv /\ [NextState]_stateVars => SceneInv'
  BY NextStateInv, NextTables, NextWalk DEF SceneInv
<1>. QED
  BY <1>1, InitSceneInv, PTL DEF StateSpec

\* Every system runs once on each instance that its loop began with, whatever
\* its transforms and the handlers do.
THEOREM EverySystemRunsOnAll == StateSpec => []SystemRunsOnAll
<1>1. SceneInv => SystemRunsOnAll
  <2> SUFFICES ASSUME SceneInv, at = "run", loop.next > loop.end
               PROVE  ToSet(seen) = due /\ Len(seen) = Cardinality(due)
    BY DEF SystemRunsOnAll
  <2> DEFINE s == instances[target.component]
             n == loop.end
  <2>1. /\ target.component \in Components
        /\ n \in Nat /\ loop.next \in 1 .. n + 1
        /\ n <= SizeOf(s)
        /\ due = {s.dense[i] : i \in 1 .. n}
        /\ seen \in Seq(Nat) /\ Len(seen) = loop.next - 1
        /\ \A i \in 1 .. loop.next - 1 : seen[i] = s.dense[i]
    BY DEF SceneInv, WalkInv
  <2>2. loop.next - 1 = n /\ Len(seen) = n /\ DOMAIN seen = 1 .. n
    BY <2>1
  <2>3. ToSet(seen) = due
    BY <2>1, <2>2 DEF ToSet
  <2>4. \A i, j \in 1 .. n : s.dense[i] = s.dense[j] => i = j
    <3>1. /\ SizeOf(s) \in Nat
          /\ \A i, j \in 1 .. SizeOf(s) : s.dense[i] = s.dense[j] => i = j
      BY <2>1, DenseMembers DEF SceneInv, StateInv, ArraysInv
    <3>2. \A i \in 1 .. n : i \in 1 .. SizeOf(s)
      BY <2>1, <3>1
    <3>. QED
      BY <3>1, <3>2
  <2>5. [i \in 1 .. n |-> s.dense[i]] \in Bijection(1 .. n, due)
    BY <2>1, <2>4 DEF Bijection, Injection, Surjection, IsInjective
  <2>6. ExistsBijection(1 .. n, due)
    BY <2>5 DEF ExistsBijection
  <2>7. Cardinality(due) = n
    <3>1. 1 \in Int /\ n \in Int
      BY <2>1
    <3>2. IsFiniteSet(1 .. n) /\ Cardinality(1 .. n) = IF 1 > n THEN 0 ELSE n - 1 + 1
      BY <3>1, FS_Interval
    <3>3. Cardinality(1 .. n) = n
      BY <2>1, <3>2
    <3>4. Cardinality(due) = Cardinality(1 .. n)
      BY ONLY <2>6, <3>2, FS_Bijection
    <3>. QED
      BY <3>3, <3>4
  <2>. QED
    BY <2>2, <2>3, <2>7
<1>. QED
  BY <1>1, SceneInvariance, PTL
-----------------------------------------------------------------------------
\* On-destroy handlers.
\* The handlers of the instance in hand, and of those that the first loop of
\* DestroyInstancesFor has passed, have been called, and the second loop goes
\* no further than the first.
AnnounceInv ==
  /\ at = "removing" => <<target.entity, target.component>> \in announced
  /\ at = "announce" =>
       /\ target.entity \in Live
       /\ loop.next \in 1 .. loop.end + 1 /\ loop.end <= Len(tables)
       /\ \A i \in 1 .. loop.next - 1 :
            HasInstance(target.entity, tables[i]) => <<target.entity, tables[i]>> \in announced
       /\ \A c \in Components :
            HasInstance(target.entity, c) => \E i \in 1 .. loop.end : tables[i] = c

\* Operations other than "add" give a live entity nothing it does not have.
GivesNothing(e) ==
  e \in Live' /\ \A c \in Components : e \in Members(instances'[c]) => e \in Members(instances[c])

LEMMA OnlyAddGives ==
  ASSUME DataInv, NEW op \in Operations, Operation(op), op # "add", NEW e \in Live
  PROVE  GivesNothing(e)
<1>1. ASSUME NEW cs \in Attributes, EntityCreate(cs)
      PROVE  GivesNothing(e)
  <2>1. /\ AllocEntity \notin Live /\ Live' = Live \cup {AllocEntity}
        /\ \A c \in Components : Members(instances'[c]) \subseteq Members(instances[c]) \cup {AllocEntity}
    BY <1>1, CreateAdds
  <2>2. e # AllocEntity
    BY <2>1
  <2>. QED
    BY <2>1, <2>2 DEF GivesNothing
<1>2. CASE UNCHANGED dataVars
  BY <1>2 DEF GivesNothing, dataVars, registryVars, Live
<1>3. CASE op = "create"
  BY <1>1, <1>3 DEF Operation
<1>4. CASE op = "remove"
  BY <1>2, <1>4 DEF Operation, EntityRemoveComponent
<1>5. CASE op = "destroy"
  BY <1>2, <1>5 DEF Operation, EntityDestroy
<1>. QED
  BY <1>3, <1>4, <1>5 DEF Operations

\* The walk of DestroyInstancesFor is not disturbed.
LEMMA AnnounceKept ==
  ASSUME SceneInv, TablesGrow, AnnounceInv, UNCHANGED <<at, target, loop, announced>>,
         at = "announce" => GivesNothing(target.entity)
  PROVE  AnnounceInv'
<1>1. CASE at # "announce"
  BY <1>1 DEF AnnounceInv
<1>2. CASE at = "announce"
  <2> DEFINE e == target.entity
  <2>1. /\ loop.next \in Nat /\ loop.end \in Nat
        /\ loop.next \in 1 .. loop.end + 1 /\ loop.end <= Len(tables)
        /\ \A i \in 1 .. loop.next - 1 : HasInstance(e, tables[i]) => <<e, tables[i]>> \in announced
        /\ \A c \in Components : HasInstance(e, c) => \E i \in 1 .. loop.end : tables[i] = c
    BY <1>2 DEF SceneInv, WalkInv, AnnounceInv
  <2>2. /\ e \in Live'
        /\ \A c \in Components : HasInstance(e, c)' => HasInstance(e, c)
    BY <1>2, HasIsMember DEF GivesNothing, HasInstance
  <2>3. /\ loop.end <= Len(tables')
        /\ \A i \in 1 .. loop.end : tables'[i] = tables[i] /\ tables[i] \in Components
    BY <2>1 DEF TablesGrow, SceneInv, TablesInv
  <2>4. ASSUME NEW i \in 1 .. loop.next - 1, HasKey(instances'[tables'[i]], e)
        PROVE  <<e, tables'[i]>> \in announced
    <3>1. i \in 1 .. loop.end
      BY <2>1
    <3>2. tables'[i] = tables[i] /\ tables[i] \in Components
      BY <2>3, <3>1
    <3>3. HasInstance(e, tables[i])
      BY <2>2, <2>4, <3>2 DEF HasInstance
    <3>. QED
      BY <2>1, <3>2, <3>3
  <2>5. ASSUME NEW c \in Components, HasKey(instances'[c], e)
        PROVE  \E i \in 1 .. loop.end : tables'[i] = c
    <3>1. HasInstance(e, c)
      BY <2>2, <2>5 DEF HasInstance
    <3>. QED
      BY <2>1, <2>3, <3>1
  <2>6. target' = target /\ loop' = loop /\ announced' = announced /\ at' = at
    OBVIOUS
  <2>. QED
    BY <1>2, <2>1, <2>2, <2>3, <2>4, <2>5, <2>6 DEF AnnounceInv, HasInstance
<1>. QED
  BY <1>1, <1>2

LEMMA AnnounceBegins ==
  ASSUME SceneInv, BeginDestroy
  PROVE  AnnounceInv'
<1> DEFINE e == target'.entity
           n == Len(tables)
<1>1. /\ MayDestroy(e)
      /\ at' = "announce" /\ loop' = [next |-> 1, end |-> n]
      /\ tables' = tables /\ instances' = instances /\ entities' = entities
  BY DEF BeginDestroy, LoopTo, dataVars, registryVars
<1>2. e \in Live'
  BY <1>1, HasIsMember DEF MayDestroy, Live
<1>3. tables \in Seq(Components) /\ n \in Nat
  BY DEF SceneInv, TablesInv
<1>4. loop'.next = 1 /\ loop'.end = n
  BY <1>1
<1>5. loop'.next \in 1 .. loop'.end + 1 /\ loop'.end <= Len(tables') /\ 1 .. loop'.next - 1 = {}
  BY <1>1, <1>3, <1>4
<1>6. ASSUME NEW c \in Components, HasKey(instances'[c], e)
      PROVE  \E i \in 1 .. loop'.end : tables'[i] = c
  <2>1. c \in ToSet(tables)
    BY <1>1, <1>6, HasIsMember DEF SceneInv, TablesInv
  <2>2. DOMAIN tables = 1 .. n
    BY <1>3
  <2>. QED
    BY <1>1, <1>4, <2>1, <2>2 DEF ToSet
<1>. QED
  BY <1>1, <1>2, <1>5, <1>6 DEF AnnounceInv, HasInstance

LEMMA AnnounceAdvances ==
  ASSUME SceneInv, AnnounceInv, AnnounceNext
  PROVE  AnnounceInv'
<1> DEFINE e == target.entity
           n == loop.next
<1>1. /\ at = "announce" /\ n <= loop.end
      /\ loop' = [loop EXCEPT !.next = @ + 1]
      /\ announced' = IF HasInstance(e, tables[n]) THEN announced \cup {<<e, tables[n]>>} ELSE announced
      /\ at' = at /\ target' = target
      /\ tables' = tables /\ instances' = instances /\ entities' = entities
  BY DEF AnnounceNext, Advanced, dataVars, registryVars
<1>2. /\ e \in Live
      /\ n \in 1 .. loop.end + 1 /\ loop.end <= Len(tables)
      /\ \A i \in 1 .. n - 1 : HasInstance(e, tables[i]) => <<e, tables[i]>> \in announced
      /\ \A c \in Components : HasInstance(e, c) => \E i \in 1 .. loop.end : tables[i] = c
      /\ loop \in [next : Nat, end : Nat]
  BY <1>1 DEF AnnounceInv, SceneInv, WalkInv
<1>3. loop'.next = n + 1 /\ loop'.end = loop.end /\ n \in Nat /\ loop.end \in Nat
  BY <1>1, <1>2
<1>4. \A i \in 1 .. n : i \in 1 .. n - 1 \/ i = n
  BY <1>3
<1>5. \A i \in 1 .. n : HasInstance(e, tables[i]) => <<e, tables[i]>> \in announced'
  BY <1>1, <1>2, <1>4
<1>6. n + 1 \in 1 .. loop.end + 1 /\ (n + 1) - 1 = n
  BY <1>1, <1>2, <1>3
<1>7. Live' = Live
  BY <1>1 DEF Live
<1>. HIDE DEF n
<1>8. /\ target'.entity \in Live'
      /\ loop'.next \in 1 .. loop'.end + 1 /\ loop'.end <= Len(tables')
      /\ \A i \in 1 .. loop'.next - 1 :
           HasKey(instances'[tables'[i]], target'.entity) => <<target'.entity, tables'[i]>> \in announced'
      /\ \A c \in Components :
           HasKey(instances'[c], target'.entity) => \E i \in 1 .. loop'.end : tables'[i] = c
  BY <1>1, <1>2, <1>3, <1>5, <1>6, <1>7 DEF HasInstance
<1>. QED
  BY <1>1, <1>8 DEF AnnounceInv, HasInstance

LEMMA InitAnnounce == InitState => AnnounceInv
  BY DEF InitState, AnnounceInv

LEMMA NextAnnounce ==
  ASSUME "add" \notin HandlerMay, SceneInv, AnnounceInv, [NextState]_stateVars
  PROVE  AnnounceInv'
<1>0. TablesGrow
  BY NextTables DEF SceneInv
<1>1. CASE ProgramStep
  BY <1>1 DEF ProgramStep, AnnounceInv
<1>2. CASE HandlerStep
  <2>1. UNCHANGED <<at, target, loop, announced>>
    BY <1>2 DEF HandlerStep
  <2>2. ASSUME at = "announce" 
        PROVE  GivesNothing(target.entity)
    BY <1>2, <2>2, OnlyAddGives, GameStateAssumption
       DEF HandlerStep, AnnounceInv, SceneInv, StateInv, DataInv
  <2>. QED
    BY <1>0, <2>1, <2>2, AnnounceKept
<1>3. CASE UNCHANGED stateVars
  <2>1. UNCHANGED <<at, target, loop, announced>>
    BY <1>3 DEF stateVars
  <2>2. at = "announce" => GivesNothing(target.entity)
    BY <1>3 DEF stateVars, dataVars, registryVars, AnnounceInv, GivesNothing, Live
  <2>. QED
    BY <1>0, <2>1, <2>2, AnnounceKept
<1>4. CASE BeginDestroy
  BY <1>4, AnnounceBegins
<1>5. CASE AnnounceNext
  BY <1>5, AnnounceAdvances
<1>6. CASE AnnounceRemoval
  BY <1>6 DEF AnnounceRemoval, AnnounceInv
<1>7. ASSUME at' \notin {"removing", "announce"}
      PROVE  AnnounceInv'
  BY <1>7 DEF AnnounceInv
<1>8. CASE (\E c \in Components : RunSystem(c)) \/ Transform \/ SystemDone \/ BeginFlush
  BY <1>7, <1>8 DEF RunSystem, Transform, SystemDone, BeginFlush
<1>9. CASE CarryOutRemoval \/ DropRemoval \/ RemovalsDone
  BY <1>7, <1>9 DEF CarryOutRemoval, DropRemoval, RemovalsDone
<1>10. CASE DropDestroy \/ CarryOutDestroy \/ EndFlush
  BY <1>7, <1>10 DEF DropDestroy, CarryOutDestroy, EndFlush
<1>. QED
  BY <1>1, <1>2, <1>3, <1>4, <1>5, <1>6, <1>8, <1>9, <1>10 DEF NextState, FlushStep

\* No instance is erased before its on-destroy handlers have been called, by
\* either path, for all handlers but those that add components.
THEOREM AnnouncedBeforeErased ==
  ASSUME "add" \notin HandlerMay
  PROVE  StateSpec => AnnouncedFirst
<1> DEFINE Announced ==
             \A c \in Components : \A e \in Members(instances[c]) \ Members(instances'[c]) :
               <<e, c>> \in announced
<1>1. SceneInv /\ AnnounceInv /\ [NextState]_stateVars => AnnounceInv'
  BY NextAnnounce
<1>2. SceneInv /\ AnnounceInv /\ [NextState]_stateVars => [Announced]_stateVars
  <2> SUFFICES ASSUME SceneInv, AnnounceInv, [NextState]_stateVars,
                      NEW c \in Components, NEW e \in Members(instances[c]),
                      e \notin Members(instances'[c])
               PROVE  <<e, c>> \in announced
    OBVIOUS
  <2>1. CASE CarryOutRemoval
    <3>1. c = target.component /\ e = target.entity
      BY <2>1, RemovalErases DEF SceneInv
    <3>. QED
      BY <2>1, <3>1 DEF CarryOutRemoval, AnnounceInv
  <2>2. CASE CarryOutDestroy
    <3>1. e = target.entity
      BY <2>2, DestroyErases DEF SceneInv
    <3>2. /\ at = "announce" /\ loop.next > loop.end
          /\ loop \in [next : Nat, end : Nat] /\ loop.next \in 1 .. loop.end + 1
      BY <2>2 DEF CarryOutDestroy, AnnounceInv, SceneInv, WalkInv
    <3>3. loop.next - 1 = loop.end
      BY <3>2
    <3>4. PICK i \in 1 .. loop.end : tables[i] = c
      BY <3>1, <3>2, HasIsMember DEF AnnounceInv, HasInstance
    <3>5. HasInstance(e, tables[i])
      BY <3>4, HasIsMember DEF HasInstance
    <3>. QED
      BY <3>1, <3>2, <3>3, <3>4, <3>5 DEF AnnounceInv
  <2>3. CASE ProgramStep \/ HandlerStep
    BY <2>3, OperationKeeps, GameStateAssumption DEF ProgramStep, HandlerStep, SceneInv, StateInv, DataInv, Kept
  <2>4. CASE UNCHANGED dataVars
    BY <2>4 DEF dataVars
  <2>5. CASE (\E d \in Components : RunSystem(d)) \/ Transform \/ SystemDone \/ BeginFlush
    BY <2>4, <2>5 DEF RunSystem, Transform, SystemDone, BeginFlush
  <2>6. CASE AnnounceRemoval \/ DropRemoval \/ RemovalsDone \/ BeginDestroy
    BY <2>4, <2>6 DEF AnnounceRemoval, DropRemoval, RemovalsDone, BeginDestroy
  <2>7. CASE DropDestroy \/ AnnounceNext \/ EndFlush
    BY <2>4, <2>7 DEF DropDestroy, AnnounceNext, EndFlush
  <2>8. CASE UNCHANGED stateVars
    BY <2>4, <2>8 DEF stateVars
  <2>. QED
    BY <2>1, <2>2, <2>3, <2>5, <2>6, <2>7, <2>8 DEF NextState, FlushStep
<1>. QED
  BY <1>1, <1>2, InitAnnounce, SceneInvariance, PTL DEF StateSpec, AnnouncedFirst
-----------------------------------------------------------------------------
\* Requests.
DestroyRequests == [kind : {"destroy"}, entity : Ids, made : Nat]

\* A request that was not carried out is for the present life of its entity,
\* and there is something to carry out.
Pending(r) ==
  /\ r.entity \in Live
  /\ r.made = made[r.entity]
  /\ r.kind = "remove" => HasInstance(r.entity, r.component)

AskedInv == NoRequestLost /\ \A r \in asked : Pending(r)

\* Flush has in hand the request it will pop.
InHand ==
  /\ at = "removing" => removed # <<>> /\ target = Back(removed)
  /\ at = "announce" => destroyed # <<>> /\ target = Back(destroyed)

RequestInv == destroyed \in Seq(DestroyRequests) /\ AskedInv /\ InHand

LEMMA QueuePop ==
  ASSUME NEW S, NEW q \in Seq(S), q # <<>>
  PROVE  /\ PopBack(q) \in Seq(S)
         /\ Back(q) \in S /\ Back(q) \in ToSet(q)
         /\ ToSet(PopBack(q)) \subseteq ToSet(q)
         /\ ToSet(q) \subseteq ToSet(PopBack(q)) \cup {Back(q)}
<1> DEFINE n == Len(q)
           p == PopBack(q)
<1>1. n \in Nat /\ n # 0 /\ DOMAIN q = 1 .. n /\ Back(q) = q[n]
  BY DEF Back
<1>2. p \in Seq(S) /\ Len(p) = n - 1 /\ \A i \in 1 .. n - 1 : p[i] = q[i]
  BY <1>1, PopBackElements
<1>3. DOMAIN p = 1 .. n - 1
  BY <1>2
<1>4. /\ \A i \in 1 .. n : i \in 1 .. n - 1 \/ i = n
      /\ n \in 1 .. n /\ \A i \in 1 .. n - 1 : i \in 1 .. n
  <2>. HIDE DEF n
  <2>. QED
    BY <1>1
<1>6. Back(q) \in S
  <2>1. \A i \in 1 .. n : q[i] \in S
    OBVIOUS
  <2>. HIDE DEF n
  <2>. QED
    BY <1>1, <1>4, <2>1
<1>. HIDE DEF n, p
<1>7. ToSet(p) \subseteq ToSet(q) /\ ToSet(q) \subseteq ToSet(p) \cup {Back(q)}
  BY <1>1, <1>2, <1>3, <1>4 DEF ToSet
<1>8. Back(q) \in ToSet(q)
  BY <1>1, <1>4 DEF ToSet
<1>. QED
  BY <1>2, <1>6, <1>7, <1>8 DEF p

LEMMA QueuePush ==
  ASSUME NEW S, NEW q \in Seq(S), NEW x \in S
  PROVE  /\ Append(q, x) \in Seq(S)
         /\ ToSet(Append(q, x)) = ToSet(q) \cup {x}
<1>1. /\ Append(q, x) \in Seq(S) /\ Len(q) \in Nat /\ Len(Append(q, x)) = Len(q) + 1
      /\ \A i \in 1 .. Len(q) : Append(q, x)[i] = q[i]
      /\ Append(q, x)[Len(q) + 1] = x
  OBVIOUS
<1>2. DOMAIN q = 1 .. Len(q) /\ DOMAIN Append(q, x) = 1 .. Len(q) + 1
  BY <1>1
<1>3. 1 .. Len(q) + 1 = (1 .. Len(q)) \cup {Len(q) + 1}
  BY <1>1
<1>. QED
  BY <1>1, <1>2, <1>3 DEF ToSet

LEMMA InQueue ==
  ASSUME NEW S, NEW q \in Seq(S)
  PROVE  ToSet(q) \subseteq S
  BY DEF ToSet

LEMMA RequestKinds ==
  ASSUME SceneInv, RequestInv
  PROVE  /\ ToSet(removed) \subseteq RemoveRequests
         /\ ToSet(destroyed) \subseteq DestroyRequests
         /\ \A r \in asked :
              \/ r \in RemoveRequests /\ r \in ToSet(removed)
              \/ r \in DestroyRequests /\ r \in ToSet(destroyed)
  BY InQueue DEF SceneInv, StateInv, RequestInv, AskedInv, NoRequestLost

\* What creates and gives leaves the requests alone.
LEMMA GiftsKeepRequests ==
  ASSUME SceneInv, RequestInv, UNCHANGED <<at, target>>,
         \/ \E cs \in Attributes : EntityCreate(cs)
         \/ \E e \in Ids, c \in Components : EntityAddComponent(e, c)
  PROVE  RequestInv'
<1>1. UNCHANGED requestVars
  BY DEF EntityCreate, EntityAddComponent
<1>2. Kept
  BY CreateKeeps, AddKeeps DEF SceneInv, StateInv, DataInv
<1>3. Live \subseteq Live' /\ \A e \in Live : made'[e] = made[e]
  <2>1. ASSUME NEW cs \in Attributes, EntityCreate(cs)
        PROVE  Live \subseteq Live' /\ \A e \in Live : made'[e] = made[e]
    <3>1. AllocEntity \notin Live /\ Live' = Live \cup {AllocEntity} /\ AllocEntity \in Ids
      BY <2>1, CreateAdds DEF SceneInv, StateInv, DataInv
    <3>2. made' = [made EXCEPT ![AllocEntity] = @ + 1] /\ made \in [Ids -> Nat]
      BY <2>1 DEF EntityCreate, SceneInv, StateInv
    <3>3. Live \subseteq Ids
      BY LiveIsId DEF SceneInv, StateInv
    <3>. QED
      BY <3>1, <3>2, <3>3
  <2>2. ASSUME NEW e \in Ids, NEW c \in Components, EntityAddComponent(e, c)
        PROVE  Live \subseteq Live' /\ made' = made
    BY <2>2 DEF EntityAddComponent, registryVars, Live
  <2>. QED
    BY <2>1, <2>2
<1>4. ASSUME NEW r \in asked
      PROVE  Pending(r)'
  <2>1. Pending(r)
    BY DEF RequestInv, AskedInv
  <2>2. r.kind = "remove" => r.component \in Components
    BY RequestKinds DEF RemoveRequests, DestroyRequests
  <2>. QED
    BY <1>2, <1>3, <2>1, <2>2, HasIsMember DEF Pending, Kept, HasInstance
<1>5. asked' = asked /\ removed' = removed /\ destroyed' = destroyed
  BY <1>1 DEF requestVars
<1>. QED
  BY <1>4, <1>5 DEF RequestInv, AskedInv, NoRequestLost, InHand

\* A request that has just been made is pending.
LEMMA AskingKeepsRequests ==
  ASSUME SceneInv, RequestInv, at' \notin {"removing", "announce"}, NEW e \in Ids,
         (\E c \in Components : EntityRemoveComponent(e, c)) \/ (e \in Live /\ EntityDestroy(e))
  PROVE  RequestInv'
<1>1. /\ UNCHANGED dataVars
      /\ removed \in Seq(RemoveRequests) /\ destroyed \in Seq(DestroyRequests)
      /\ made \in [Ids -> Nat]
  BY DEF EntityRemoveComponent, EntityDestroy, SceneInv, StateInv, RequestInv
<1>2. \A r : Pending(r)' <=> Pending(r)
  BY <1>1 DEF dataVars, registryVars, Pending, Live, HasInstance
<1>3. /\ asked \subseteq ToSet(removed) \cup ToSet(destroyed)
      /\ \A r \in asked : Pending(r)
  BY DEF RequestInv, AskedInv, NoRequestLost
<1>4. ASSUME NEW c \in Components, EntityRemoveComponent(e, c)
      PROVE  RequestInv'
  <2> DEFINE r == RemoveRequest(e, c)
  <2>1. /\ HasInstance(e, c)
        /\ removed' = Append(removed, r) /\ asked' = asked \cup {r} /\ destroyed' = destroyed
    BY <1>4 DEF EntityRemoveComponent
  <2>2. r \in RemoveRequests
    BY <1>1 DEF RemoveRequest, RemoveRequests
  <2>3. ToSet(removed') = ToSet(removed) \cup {r}
    BY <1>1, <2>1, <2>2, QueuePush
  <2>4. Pending(r)
    BY <2>1, HasIsMember DEF Pending, RemoveRequest, HasInstance, SceneInv, StateInv, ArraysInv, NoOrphans
  <2>5. AskedInv'
    BY <1>2, <1>3, <2>1, <2>3, <2>4 DEF AskedInv, NoRequestLost
  <2>. QED
    BY <1>1, <2>1, <2>5 DEF RequestInv, InHand
<1>5. CASE e \in Live /\ EntityDestroy(e)
  <2> DEFINE r == DestroyRequest(e)
  <2>1. /\ e \in Live
        /\ destroyed' = Append(destroyed, r) /\ asked' = asked \cup {r} /\ removed' = removed
    BY <1>5 DEF EntityDestroy
  <2>2. r \in DestroyRequests
    BY <1>1 DEF DestroyRequest, DestroyRequests
  <2>3. ToSet(destroyed') = ToSet(destroyed) \cup {r} /\ destroyed' \in Seq(DestroyRequests)
    BY <1>1, <2>1, <2>2, QueuePush
  <2>4. Pending(r)
    BY <2>1 DEF Pending, DestroyRequest
  <2>5. AskedInv'
    BY <1>2, <1>3, <2>1, <2>3, <2>4 DEF AskedInv, NoRequestLost
  <2>. QED
    BY <2>3, <2>5 DEF RequestInv, InHand
<1>. QED
  BY <1>4, <1>5

\* The request that goes with an instance is the one in hand.
LEMMA RemovalKeepsRequests ==
  ASSUME SceneInv, RequestInv, CarryOutRemoval
  PROVE  RequestInv'
<1> DEFINE e == target.entity
           d == target.component
<1>1. /\ at = "removing" /\ at' = "remove"
      /\ asked' = {r \in asked : ~(r.kind = "remove" /\ r.entity = e /\ r.component = d)}
      /\ removed' = PopBack(removed) /\ destroyed' = destroyed /\ made' = made
  BY DEF CarryOutRemoval
<1>2. /\ removed \in Seq(RemoveRequests) /\ removed # <<>> /\ target = Back(removed)
      /\ destroyed \in Seq(DestroyRequests)
  BY <1>1 DEF SceneInv, StateInv, RequestInv, InHand
<1>3. /\ target \in RemoveRequests
      /\ ToSet(removed) \subseteq ToSet(PopBack(removed)) \cup {target}
  BY <1>2, QueuePop
<1>4. target.kind = "remove"
  BY <1>3 DEF RemoveRequests
<1>5. NoRequestLost'
  <2>1. target \notin asked'
    BY <1>1, <1>4
  <2>2. asked' \subseteq ToSet(removed) \cup ToSet(destroyed)
    BY <1>1 DEF RequestInv, AskedInv, NoRequestLost
  <2>3. asked' \subseteq ToSet(PopBack(removed)) \cup ToSet(destroyed)
    BY <1>3, <2>1, <2>2
  <2>. QED
    BY <1>1, <2>3 DEF NoRequestLost
<1>6. Live' = Live /\ \A c \in Components :
        Members(instances'[c]) = IF c = d THEN Members(instances[c]) \ {e} ELSE Members(instances[c])
  BY RemovalErases DEF SceneInv
<1>7. ASSUME NEW r \in asked'
      PROVE  Pending(r)'
  <2>1. r \in asked /\ ~(r.kind = "remove" /\ r.entity = e /\ r.component = d)
    BY <1>1
  <2>2. Pending(r) /\ (r.kind = "remove" => r.component \in Components)
    BY <2>1, RequestKinds DEF RequestInv, AskedInv, RemoveRequests, DestroyRequests
  <2>3. r.kind = "remove" => r.entity \in Members(instances'[r.component])
    BY <1>6, <2>1, <2>2, HasIsMember DEF Pending, HasInstance
  <2>. QED
    BY <1>1, <1>6, <2>2, <2>3, HasIsMember DEF Pending, HasInstance
<1>8. AskedInv'
  BY <1>5, <1>7 DEF AskedInv
<1>. QED
  BY <1>1, <1>2, <1>8 DEF RequestInv, InHand

LEMMA DestroyKeepsRequests ==
  ASSUME SceneInv, RequestInv, CarryOutDestroy
  PROVE  RequestInv'
<1> DEFINE e == target.entity
<1>1. /\ at = "announce" /\ at' = "destroy"
      /\ asked' = {r \in asked : r.entity # e}
      /\ destroyed' = PopBack(destroyed) /\ removed' = removed /\ made' = made
  BY DEF CarryOutDestroy
<1>2. destroyed \in Seq(DestroyRequests) /\ destroyed # <<>> /\ target = Back(destroyed)
  BY <1>1 DEF RequestInv, InHand
<1>3. /\ PopBack(destroyed) \in Seq(DestroyRequests)
      /\ ToSet(destroyed) \subseteq ToSet(PopBack(destroyed)) \cup {target}
  BY <1>2, QueuePop
<1>4. NoRequestLost'
  <2>1. target \notin asked'
    BY <1>1
  <2>2. asked' \subseteq ToSet(removed) \cup ToSet(destroyed)
    BY <1>1 DEF RequestInv, AskedInv, NoRequestLost
  <2>3. asked' \subseteq ToSet(removed) \cup ToSet(PopBack(destroyed))
    BY <1>3, <2>1, <2>2
  <2>. QED
    BY <1>1, <2>3 DEF NoRequestLost
<1>5. Live' = Live \ {e} /\ \A c \in Components : Members(instances'[c]) = Members(instances[c]) \ {e}
  BY DestroyErases DEF SceneInv
<1>6. ASSUME NEW r \in asked'
      PROVE  Pending(r)'
  <2>1. r \in asked /\ r.entity # e
    BY <1>1
  <2>2. Pending(r) /\ (r.kind = "remove" => r.component \in Components)
    BY <2>1, RequestKinds DEF RequestInv, AskedInv, RemoveRequests, DestroyRequests
  <2>3. r.kind = "remove" => r.entity \in Members(instances'[r.component])
    BY <1>5, <2>1, <2>2, HasIsMember DEF Pending, HasInstance
  <2>. QED
    BY <1>1, <1>5, <2>1, <2>2, <2>3, HasIsMember DEF Pending, HasInstance
<1>7. AskedInv'
  BY <1>4, <1>6 DEF AskedInv
<1>. QED
  BY <1>1, <1>3, <1>7 DEF RequestInv, InHand

\* A request that finds nothing to carry out was not pending.
LEMMA DropsKeepRequests ==
  ASSUME SceneInv, RequestInv, DropRemoval \/ DropDestroy
  PROVE  RequestInv'
<1>1. UNCHANGED <<dataVars, asked, at, target>>
  BY DEF DropRemoval, DropDestroy
<1>2. \A r : Pending(r)' <=> Pending(r)
  BY <1>1 DEF dataVars, registryVars, Pending, Live, HasInstance
<1>3. /\ removed \in Seq(RemoveRequests) /\ destroyed \in Seq(DestroyRequests)
      /\ asked \subseteq ToSet(removed) \cup ToSet(destroyed)
      /\ \A r \in asked : Pending(r)
  BY DEF SceneInv, StateInv, RequestInv, AskedInv, NoRequestLost
<1>4. CASE DropRemoval
  <2> DEFINE r == Back(removed)
  <2>1. /\ at = "remove" /\ removed # <<>> /\ ~HasInstance(r.entity, r.component)
        /\ removed' = PopBack(removed) /\ destroyed' = destroyed
    BY <1>4 DEF DropRemoval, NextRequest
  <2>2. r \in RemoveRequests /\ ToSet(removed) \subseteq ToSet(PopBack(removed)) \cup {r}
    BY <1>3, <2>1, QueuePop
  <2>3. r \notin asked
    BY <1>3, <2>1, <2>2 DEF Pending, RemoveRequests
  <2>4. asked \subseteq ToSet(PopBack(removed)) \cup ToSet(destroyed)
    BY <1>3, <2>2, <2>3
  <2>. QED
    BY <1>1, <1>2, <1>3, <2>1, <2>4 DEF RequestInv, AskedInv, NoRequestLost, InHand
<1>5. CASE DropDestroy
  <2> DEFINE r == Back(destroyed)
  <2>1. /\ at = "destroy" /\ destroyed # <<>> /\ ~MayDestroy(r.entity)
        /\ destroyed' = PopBack(destroyed) /\ removed' = removed
    BY <1>5 DEF DropDestroy, NextRequest
  <2>2. /\ PopBack(destroyed) \in Seq(DestroyRequests)
        /\ ToSet(destroyed) \subseteq ToSet(PopBack(destroyed)) \cup {r}
    BY <1>3, <2>1, QueuePop
  <2>3. r \notin asked
    BY <1>3, <2>1, HasIsMember DEF Pending, MayDestroy, Live
  <2>4. asked \subseteq ToSet(removed) \cup ToSet(PopBack(destroyed))
    BY <1>3, <2>2, <2>3
  <2>. QED
    BY <1>1, <1>2, <1>3, <2>1, <2>2, <2>4 DEF RequestInv, AskedInv, NoRequestLost, InHand
<1>. QED
  BY <1>4, <1>5

LEMMA NextRequests ==
  ASSUME HandlerMay \subseteq {"create", "add"}, SceneInv, RequestInv, [NextState]_stateVars
  PROVE  RequestInv'
<1>1. CASE ProgramStep
  <2>1. UNCHANGED <<at, target>> /\ at' \notin {"removing", "announce"}
    BY <1>1 DEF ProgramStep
  <2>2. PICK op \in Operations : Operation(op)
    BY <1>1 DEF ProgramStep
  <2>3. CASE op \in {"create", "add"}
    BY <2>1, <2>2, <2>3, GiftsKeepRequests DEF Operation
  <2>4. CASE op \in {"remove", "destroy"}
    BY <2>1, <2>2, <2>4, AskingKeepsRequests DEF Operation
  <2>. QED
    BY <2>3, <2>4 DEF Operations
<1>2. CASE HandlerStep
  <2>1. UNCHANGED <<at, target>>
    BY <1>2 DEF HandlerStep
  <2>2. PICK op \in {"create", "add"} : Operation(op)
    BY <1>2 DEF HandlerStep
  <2>. QED
    BY <2>1, <2>2, GiftsKeepRequests DEF Operation
<1>3. CASE CarryOutRemoval
  BY <1>3, RemovalKeepsRequests
<1>4. CASE CarryOutDestroy
  BY <1>4, DestroyKeepsRequests
<1>5. CASE DropRemoval \/ DropDestroy
  BY <1>5, DropsKeepRequests
<1>6. ASSUME UNCHANGED <<dataVars, requestVars>>, InHand'
      PROVE  RequestInv'
  <2>1. \A r : Pending(r)' <=> Pending(r)
    BY <1>6 DEF dataVars, registryVars, Pending, Live, HasInstance
  <2>. QED
    BY <1>6, <2>1 DEF requestVars, RequestInv, AskedInv, NoRequestLost
<1>7. CASE AnnounceRemoval
  BY <1>6, <1>7 DEF AnnounceRemoval, NextRequest, InHand, requestVars
<1>8. CASE BeginDestroy
  BY <1>6, <1>8 DEF BeginDestroy, NextRequest, InHand, requestVars
<1>9. CASE AnnounceNext \/ UNCHANGED stateVars
  BY <1>6, <1>9 DEF AnnounceNext, stateVars, InHand, RequestInv, requestVars
<1>10. CASE (\E c \in Components : RunSystem(c)) \/ Transform \/ SystemDone \/ BeginFlush
  BY <1>6, <1>10 DEF RunSystem, Transform, SystemDone, BeginFlush, InHand
<1>11. CASE RemovalsDone \/ EndFlush
  BY <1>6, <1>11 DEF RemovalsDone, EndFlush, InHand
<1>. QED
  BY <1>1, <1>2, <1>3, <1>4, <1>5, <1>7, <1>8, <1>9, <1>10, <1>11 DEF NextState, FlushStep

LEMMA InitRequests == InitState => RequestInv
<1> SUFFICES ASSUME InitState
             PROVE  RequestInv
  OBVIOUS
<1>1. destroyed = <<>> /\ asked = {} /\ at = "frame"
  BY DEF InitState
<1>. QED
  BY <1>1 DEF RequestInv, AskedInv, NoRequestLost, InHand

\* A request that was not carried out is in its queue, for all handlers that
\* make no requests.
THEOREM RequestsStayQueued ==
  ASSUME HandlerMay \subseteq {"create", "add"}
  PROVE  StateSpec => []NoRequestLost
<1>1. SceneInv /\ RequestInv /\ [NextState]_stateVars => RequestInv'
  BY NextRequests
<1>2. RequestInv => NoRequestLost
  BY DEF RequestInv, AskedInv
<1>. QED
  BY <1>1, <1>2, InitRequests, SceneInvariance, PTL DEF StateSpec
-----------------------------------------------------------------------------
\* No request in a queue can reach something other than what it was made for:
\* between two frames each was made since the last Flush and is pending; while
\* Flush runs, those that find something to carry out are.
CurrentInv ==
  /\ \A r \in ToSet(removed) : HasInstance(r.entity, r.component) => r \in asked
  /\ \A r \in ToSet(destroyed) : r.entity \in Live => r \in asked
  /\ at \in {"destroy", "announce"} => removed = <<>>
  /\ at \in {"frame", "run"} => ToSet(removed) \cup ToSet(destroyed) \subseteq asked

LEMMA OperationKeepsCurrent ==
  ASSUME SceneInv, RequestInv, CurrentInv, ProgramStep
  PROVE  CurrentInv'
<1>1. /\ at \in {"frame", "run"} /\ at' = at
      /\ ToSet(removed) \cup ToSet(destroyed) \subseteq asked
      /\ removed \in Seq(RemoveRequests) /\ destroyed \in Seq(DestroyRequests)
      /\ made \in [Ids -> Nat]
  BY DEF ProgramStep, CurrentInv, SceneInv, StateInv, RequestInv
<1>2. ASSUME ToSet(removed') \cup ToSet(destroyed') \subseteq asked'
      PROVE  CurrentInv'
  BY <1>1, <1>2 DEF CurrentInv
<1>3. CASE UNCHANGED requestVars
  BY <1>1, <1>2, <1>3 DEF requestVars
<1>4. PICK op \in Operations : Operation(op)
  BY DEF ProgramStep
<1>5. CASE op \in {"create", "add"}
  BY <1>3, <1>4, <1>5 DEF Operation, EntityCreate, EntityAddComponent
<1>6. CASE op = "remove"
  <2>1. PICK e \in Ids, c \in Components : EntityRemoveComponent(e, c)
    BY <1>4, <1>6 DEF Operation
  <2> DEFINE r == RemoveRequest(e, c)
  <2>2. /\ removed' = Append(removed, r) /\ asked' = asked \cup {r} /\ destroyed' = destroyed
    BY <2>1 DEF EntityRemoveComponent
  <2>3. r \in RemoveRequests
    BY <1>1 DEF RemoveRequest, RemoveRequests
  <2>4. ToSet(removed') = ToSet(removed) \cup {r}
    BY <1>1, <2>2, <2>3, QueuePush
  <2>. QED
    BY <1>1, <1>2, <2>2, <2>4
<1>7. CASE op = "destroy"
  <2>1. PICK e \in Ids : EntityDestroy(e)
    BY <1>4, <1>7 DEF Operation
  <2> DEFINE r == DestroyRequest(e)
  <2>2. /\ destroyed' = Append(destroyed, r) /\ asked' = asked \cup {r} /\ removed' = removed
    BY <2>1 DEF EntityDestroy
  <2>3. r \in DestroyRequests
    BY <1>1 DEF DestroyRequest, DestroyRequests
  <2>4. ToSet(destroyed') = ToSet(destroyed) \cup {r}
    BY <1>1, <2>2, <2>3, QueuePush
  <2>. QED
    BY <1>1, <1>2, <2>2, <2>4
<1>. QED
  BY <1>5, <1>6, <1>7 DEF Operations

LEMMA FlushKeepsCurrent ==
  ASSUME SceneInv, RequestInv, CurrentInv, at' \notin {"frame", "run"},
         CarryOutRemoval \/ CarryOutDestroy \/ DropRemoval \/ DropDestroy
  PROVE  CurrentInv'
<1>1. /\ removed \in Seq(RemoveRequests) /\ destroyed \in Seq(DestroyRequests)
      /\ \A r \in ToSet(removed) : HasInstance(r.entity, r.component) => r \in asked
      /\ \A r \in ToSet(destroyed) : r.entity \in Live => r \in asked
      /\ at \in {"destroy", "announce"} => removed = <<>>
      /\ \A r \in ToSet(removed) : r.kind = "remove" /\ r.component \in Components
      /\ \A r \in ToSet(destroyed) : r.kind = "destroy"
  BY RequestKinds DEF SceneInv, StateInv, RequestInv, CurrentInv, RemoveRequests, DestroyRequests
<1>2. CASE CarryOutRemoval
  <2> DEFINE e == target.entity
             d == target.component
  <2>1. /\ at = "removing" /\ at' = "remove"
        /\ asked' = {r \in asked : ~(r.kind = "remove" /\ r.entity = e /\ r.component = d)}
        /\ removed' = PopBack(removed) /\ destroyed' = destroyed /\ removed # <<>>
    BY <1>2 DEF CarryOutRemoval, RequestInv, InHand
  <2>2. ToSet(removed') \subseteq ToSet(removed)
    BY <1>1, <2>1, QueuePop
  <2>3. Live' = Live /\ \A c \in Components :
          Members(instances'[c]) = IF c = d THEN Members(instances[c]) \ {e} ELSE Members(instances[c])
    BY <1>2, RemovalErases DEF SceneInv
  <2>4. ASSUME NEW r \in ToSet(removed'), HasKey(instances'[r.component], r.entity)
        PROVE  r \in asked'
    <3>1. r \in ToSet(removed) /\ r.entity \in Members(instances'[r.component]) /\ r.component \in Components
      BY <1>1, <2>2, <2>4, HasIsMember
    <3>2. r.entity \in Members(instances[r.component]) /\ ~(r.component = d /\ r.entity = e)
      BY <2>3, <3>1
    <3>. QED
      BY <1>1, <2>1, <3>1, <3>2, HasIsMember DEF HasInstance
  <2>5. ASSUME NEW r \in ToSet(destroyed'), r.entity \in Live'
        PROVE  r \in asked'
    BY <1>1, <2>1, <2>3, <2>5
  <2>. QED
    BY <2>1, <2>4, <2>5 DEF CurrentInv, HasInstance
<1>3. CASE CarryOutDestroy
  <2> DEFINE e == target.entity
  <2>1. /\ at = "announce" /\ at' = "destroy"
        /\ asked' = {r \in asked : r.entity # e}
        /\ destroyed' = PopBack(destroyed) /\ removed' = removed /\ destroyed # <<>>
    BY <1>3 DEF CarryOutDestroy, RequestInv, InHand
  <2>2. ToSet(destroyed') \subseteq ToSet(destroyed)
    BY <1>1, <2>1, QueuePop
  <2>3. Live' = Live \ {e}
    BY <1>3, DestroyErases DEF SceneInv
  <2>4. \A r \in ToSet(destroyed') : r.entity \in Live' => r \in asked'
    BY <1>1, <2>1, <2>2, <2>3
  <2>5. removed' = <<>> /\ ToSet(removed') = {}
    BY <1>1, <2>1 DEF ToSet
  <2>. QED
    BY <2>1, <2>4, <2>5 DEF CurrentInv
<1>4. CASE DropRemoval
  <2>1. /\ UNCHANGED dataVars /\ at' = "remove" /\ removed # <<>>
        /\ removed' = PopBack(removed) /\ destroyed' = destroyed /\ asked' = asked
    BY <1>4 DEF DropRemoval
  <2>2. ToSet(removed') \subseteq ToSet(removed)
    BY <1>1, <2>1, QueuePop
  <2>3. Live' = Live /\ instances' = instances
    BY <2>1 DEF dataVars, registryVars, Live
  <2>4. \A r \in ToSet(removed') : HasKey(instances'[r.component], r.entity) => r \in asked'
    BY <1>1, <2>1, <2>2, <2>3 DEF HasInstance
  <2>. QED
    BY <1>1, <2>1, <2>3, <2>4 DEF CurrentInv, HasInstance
<1>5. CASE DropDestroy
  <2>1. /\ UNCHANGED dataVars /\ at' = "destroy" /\ at = "destroy" /\ destroyed # <<>>
        /\ destroyed' = PopBack(destroyed) /\ removed' = removed /\ asked' = asked
    BY <1>5 DEF DropDestroy
  <2>2. ToSet(destroyed') \subseteq ToSet(destroyed)
    BY <1>1, <2>1, QueuePop
  <2>3. Live' = Live /\ removed' = <<>> /\ ToSet(removed') = {}
    BY <1>1, <2>1 DEF dataVars, registryVars, Live, ToSet
  <2>4. \A r \in ToSet(destroyed') : r.entity \in Live' => r \in asked'
    BY <1>1, <2>1, <2>2, <2>3
  <2>. QED
    BY <2>1, <2>3, <2>4 DEF CurrentInv
<1>. QED
  BY <1>2, <1>3, <1>4, <1>5

LEMMA NextCurrent ==
  ASSUME HandlerMay = {}, SceneInv, RequestInv, CurrentInv, [NextState]_stateVars
  PROVE  CurrentInv'
<1>1. CASE ProgramStep
  BY <1>1, OperationKeepsCurrent
<1>2. CASE HandlerStep
  BY <1>2 DEF HandlerStep
<1>3. CASE CarryOutRemoval \/ CarryOutDestroy \/ DropRemoval \/ DropDestroy
  <2>1. at' \notin {"frame", "run"}
    BY <1>3 DEF CarryOutRemoval, CarryOutDestroy, DropRemoval, DropDestroy
  <2>. QED
    BY <1>3, <2>1, FlushKeepsCurrent
<1>4. ASSUME UNCHANGED <<dataVars, requestVars>>,
             at' \in {"destroy", "announce"} => at \in {"destroy", "announce"} \/ removed = <<>>,
             at' \in {"frame", "run"} =>
               at \in {"frame", "run"} \/ (at = "destroy" /\ destroyed = <<>>)
      PROVE  CurrentInv'
  <2>1. Live' = Live /\ instances' = instances /\ removed' = removed /\ destroyed' = destroyed /\ asked' = asked
    BY <1>4 DEF dataVars, requestVars, registryVars, Live
  <2>2. ToSet(<<>>) = {}
    BY DEF ToSet
  <2>3. at' \in {"frame", "run"} => ToSet(removed') \cup ToSet(destroyed') \subseteq asked'
    BY <1>4, <2>1, <2>2 DEF CurrentInv
  <2>. QED
    BY <1>4, <2>1, <2>3 DEF CurrentInv, HasInstance
<1>5. CASE (\E c \in Components : RunSystem(c)) \/ Transform \/ SystemDone \/ BeginFlush
  BY <1>4, <1>5 DEF RunSystem, Transform, SystemDone, BeginFlush, requestVars
<1>6. CASE AnnounceRemoval \/ RemovalsDone \/ BeginDestroy
  BY <1>4, <1>6 DEF AnnounceRemoval, RemovalsDone, BeginDestroy, requestVars
<1>7. CASE AnnounceNext \/ EndFlush \/ UNCHANGED stateVars
  BY <1>4, <1>7 DEF AnnounceNext, EndFlush, stateVars, requestVars
<1>. QED
  BY <1>1, <1>2, <1>3, <1>5, <1>6, <1>7 DEF NextState, FlushStep

\* What the scene shows of itself to World.
HasNow == [e \in Ids |-> {c \in Components : HasInstance(e, c)}]
DoomedNow == {r.entity : r \in {q \in asked : q.kind = "destroy"}}
LeavingNow == {<<r.entity, r.component>> : r \in {q \in asked : q.kind = "remove"}}

LEMMA HasOf ==
  /\ HasNow = [e \in Ids |-> {c \in Components : e \in Members(instances[c])}]
  /\ HasNow' = [e \in Ids |-> {c \in Components : e \in Members(instances'[c])}]
  BY DEF HasNow, HasInstance, HasKey, Members

LEMMA CreateIsCreate ==
  ASSUME SceneInv, NEW cs \in Attributes, EntityCreate(cs)
  PROVE  Scene!Next
<1> DEFINE e == AllocEntity
<1>1. /\ e \in Ids /\ e \notin Live /\ Live' = Live \cup {e}
      /\ \A c \in Components :
           Members(instances'[c]) =
             IF c \in ToSet(cs) THEN Members(instances[c]) \cup {e} ELSE Members(instances[c])
  BY CreateAdds DEF SceneInv, StateInv, DataInv
<1>2. ToSet(cs) \subseteq Components
  BY GameStateAssumption, InQueue
<1>3. \A c \in Components : e \notin Members(instances[c])
  BY <1>1 DEF SceneInv, StateInv, ArraysInv, NoOrphans
<1>4. HasNow' = [HasNow EXCEPT ![e] = ToSet(cs)]
  <2>1. \A c \in Components : e \in Members(instances'[c]) <=> c \in ToSet(cs)
    BY <1>1, <1>3
  <2>2. \A x \in Ids, c \in Components : x # e => (x \in Members(instances'[c]) <=> x \in Members(instances[c]))
    BY <1>1
  <2>3. {c \in Components : e \in Members(instances'[c])} = ToSet(cs)
    BY <1>2, <2>1
  <2>. HIDE DEF e
  <2>. QED
    BY <2>2, <2>3, HasOf
<1>5. asked' = asked
  BY DEF EntityCreate, requestVars
<1>6. \E x \in Ids : \E s \in SUBSET Components : Scene!Create(x, s)
  <2>1. Scene!Create(e, ToSet(cs))
    BY <1>1, <1>4, <1>5 DEF Scene!Create, HasNow
  <2>. QED
    BY <1>1, <1>2, <2>1
<1>. QED
  BY <1>6 DEF Scene!Next

LEMMA AddIsAdd ==
  ASSUME SceneInv, NEW e \in Ids, NEW d \in Components, EntityAddComponent(e, d)
  PROVE  Scene!Next
<1>1. /\ e \in Live /\ e \notin Members(instances[d]) /\ Live' = Live
      /\ \A c \in Components :
           Members(instances'[c]) = IF c = d THEN Members(instances[c]) \cup {e} ELSE Members(instances[c])
  BY AddAdds DEF SceneInv, StateInv, DataInv
<1>2. d \notin HasNow[e]
  BY <1>1, HasOf
<1>3. HasNow' = [HasNow EXCEPT ![e] = @ \cup {d}]
  <2>1. \A x \in Ids, c \in Components :
          x \in Members(instances'[c]) <=> x \in Members(instances[c]) \/ (x = e /\ c = d)
    BY <1>1
  <2>. QED
    BY <2>1, HasOf
<1>4. asked' = asked
  BY DEF EntityAddComponent, requestVars
<1>5. Scene!Add(e, d)
  BY <1>1, <1>2, <1>3, <1>4 DEF Scene!Add, HasNow
<1>. QED
  BY <1>5 DEF Scene!Next

LEMMA AskIsAsk ==
  ASSUME SceneInv, NEW e \in Ids,
         (\E c \in Components : EntityRemoveComponent(e, c)) \/ (e \in Live /\ EntityDestroy(e))
  PROVE  Scene!Next
<1>1. UNCHANGED dataVars
  BY DEF EntityRemoveComponent, EntityDestroy
<1>2. Live' = Live /\ HasNow' = HasNow
  BY <1>1, HasOf DEF dataVars, registryVars, Live
<1>3. ASSUME NEW c \in Components, EntityRemoveComponent(e, c)
      PROVE  Scene!Next
  <2> DEFINE r == RemoveRequest(e, c)
  <2>1. HasInstance(e, c) /\ asked' = asked \cup {r}
    BY <1>3 DEF EntityRemoveComponent
  <2>2. r.kind = "remove" /\ r.entity = e /\ r.component = c
    BY DEF RemoveRequest
  <2>3. e \in Live /\ c \in HasNow[e]
    BY <2>1, HasIsMember, HasOf DEF HasInstance, SceneInv, StateInv, ArraysInv, NoOrphans
  <2>. HIDE DEF r
  <2>4. DoomedNow' = DoomedNow /\ LeavingNow' = LeavingNow \cup {<<e, c>>}
    BY <2>1, <2>2 DEF DoomedNow, LeavingNow
  <2>5. Scene!AskRemove(e, c)
    BY <1>2, <2>3, <2>4 DEF Scene!AskRemove, HasNow, DoomedNow, LeavingNow
  <2>. QED
    BY <2>5 DEF Scene!Next
<1>4. CASE e \in Live /\ EntityDestroy(e)
  <2> DEFINE r == DestroyRequest(e)
  <2>1. e \in Live /\ asked' = asked \cup {r}
    BY <1>4 DEF EntityDestroy
  <2>2. r.kind = "destroy" /\ r.entity = e
    BY DEF DestroyRequest
  <2>. HIDE DEF r
  <2>3. DoomedNow' = DoomedNow \cup {e} /\ LeavingNow' = LeavingNow
    BY <2>1, <2>2 DEF DoomedNow, LeavingNow
  <2>4. Scene!AskDestroy(e)
    BY <1>2, <2>1, <2>3 DEF Scene!AskDestroy, HasNow, DoomedNow, LeavingNow
  <2>. QED
    BY <2>4 DEF Scene!Next
<1>. QED
  BY <1>3, <1>4

LEMMA RemovalIsRemove ==
  ASSUME SceneInv, RequestInv, CurrentInv, CarryOutRemoval
  PROVE  Scene!Next
<1>0. PICK e, d : e = target.entity /\ d = target.component
  OBVIOUS
<1>1. /\ at = "removing"
      /\ asked' = {r \in asked : ~(r.kind = "remove" /\ r.entity = e /\ r.component = d)}
  BY <1>0 DEF CarryOutRemoval
<1>2. /\ d \in Components /\ HasInstance(e, d)
      /\ removed # <<>> /\ target = Back(removed) /\ removed \in Seq(RemoveRequests)
  BY <1>0, <1>1 DEF SceneInv, StateInv, TargetInv, RequestInv, InHand
<1>3. target \in ToSet(removed) /\ target \in RemoveRequests
  BY <1>2, QueuePop
<1>4. target \in asked /\ target.kind = "remove" /\ e \in Ids
  BY <1>0, <1>2, <1>3 DEF CurrentInv, RemoveRequests
<1>5. Live' = Live /\ \A c \in Components :
        Members(instances'[c]) = IF c = d THEN Members(instances[c]) \ {e} ELSE Members(instances[c])
  BY <1>0, RemovalErases DEF SceneInv
<1>6. HasNow' = [HasNow EXCEPT ![e] = @ \ {d}]
  <2>1. \A x \in Ids, c \in Components :
          x \in Members(instances'[c]) <=> x \in Members(instances[c]) /\ ~(x = e /\ c = d)
    BY <1>5
  <2>. QED
    BY <1>4, <2>1, HasOf
<1>7. <<e, d>> \in LeavingNow
  BY <1>0, <1>4 DEF LeavingNow
<1>8. LeavingNow' = LeavingNow \ {<<e, d>>}
  BY <1>1 DEF LeavingNow
<1>9. DoomedNow' = DoomedNow
  BY <1>1 DEF DoomedNow
<1>10. Scene!Remove(e, d)
  BY <1>5, <1>6, <1>7, <1>8, <1>9 DEF Scene!Remove, HasNow, DoomedNow, LeavingNow
<1>. QED
  BY <1>2, <1>4, <1>10 DEF Scene!Next

LEMMA DestroyIsDestroy ==
  ASSUME SceneInv, RequestInv, CurrentInv, CarryOutDestroy
  PROVE  Scene!Next
<1>0. PICK e : e = target.entity
  OBVIOUS
<1>1. at = "announce" /\ asked' = {r \in asked : r.entity # e}
  BY <1>0 DEF CarryOutDestroy
<1>2. destroyed # <<>> /\ target = Back(destroyed) /\ destroyed \in Seq(DestroyRequests)
  BY <1>1 DEF RequestInv, InHand
<1>3. target \in ToSet(destroyed) /\ target \in DestroyRequests
  BY <1>2, QueuePop
<1>4. /\ e \in Ids /\ e \in Live /\ Live' = Live \ {e}
      /\ \A c \in Components : Members(instances'[c]) = Members(instances[c]) \ {e}
  BY <1>0, DestroyErases DEF SceneInv
<1>5. target \in asked /\ target.kind = "destroy"
  BY <1>0, <1>3, <1>4 DEF CurrentInv, DestroyRequests
<1>6. HasNow' = [HasNow EXCEPT ![e] = {}]
  <2>1. \A x \in Ids, c \in Components :
          x \in Members(instances'[c]) <=> x \in Members(instances[c]) /\ x # e
    BY <1>4
  <2>. QED
    BY <1>4, <2>1, HasOf
<1>7. e \in DoomedNow
  BY <1>0, <1>5 DEF DoomedNow
<1>8. DoomedNow' = DoomedNow \ {e}
  BY <1>1 DEF DoomedNow
<1>9. LeavingNow' = {x \in LeavingNow : x[1] # e}
  BY <1>1 DEF LeavingNow
<1>10. Scene!Destroy(e)
  BY <1>4, <1>6, <1>7, <1>8, <1>9 DEF Scene!Destroy, Scene!OfOthers, HasNow, DoomedNow, LeavingNow
<1>. QED
  BY <1>4, <1>10 DEF Scene!Next

LEMMA StepOfWorld ==
  ASSUME HandlerMay = {}, SceneInv, RequestInv, CurrentInv, [NextState]_stateVars
  PROVE  Scene!Next \/ (UNCHANGED <<Live, HasNow, DoomedNow, LeavingNow>>)
<1>1. CASE ProgramStep
  <2>1. PICK op \in Operations : Operation(op)
    BY <1>1 DEF ProgramStep
  <2>. QED
    BY <2>1, CreateIsCreate, AddIsAdd, AskIsAsk DEF Operation, Operations
<1>2. CASE HandlerStep
  BY <1>2 DEF HandlerStep
<1>3. CASE CarryOutRemoval
  BY <1>3, RemovalIsRemove
<1>4. CASE CarryOutDestroy
  BY <1>4, DestroyIsDestroy
<1>5. CASE UNCHANGED <<dataVars, asked>>
  BY <1>5, HasOf DEF dataVars, registryVars, Live, DoomedNow, LeavingNow
<1>6. CASE (\E c \in Components : RunSystem(c)) \/ Transform \/ SystemDone \/ BeginFlush
  BY <1>5, <1>6 DEF RunSystem, Transform, SystemDone, BeginFlush, requestVars
<1>7. CASE AnnounceRemoval \/ DropRemoval \/ RemovalsDone \/ BeginDestroy
  BY <1>5, <1>7 DEF AnnounceRemoval, DropRemoval, RemovalsDone, BeginDestroy, requestVars
<1>8. CASE DropDestroy \/ AnnounceNext \/ EndFlush \/ UNCHANGED stateVars
  BY <1>5, <1>8 DEF DropDestroy, AnnounceNext, EndFlush, stateVars, requestVars
<1>. QED
  BY <1>1, <1>2, <1>3, <1>4, <1>6, <1>7, <1>8 DEF NextState, FlushStep

LEMMA InitWorld == InitState => CurrentInv /\ Scene!Init
<1> SUFFICES ASSUME InitState
             PROVE  CurrentInv /\ Scene!Init
  OBVIOUS
<1>1. /\ Live = {} /\ instances = [c \in Components |-> NewSet]
      /\ removed = <<>> /\ destroyed = <<>> /\ asked = {} /\ at = "frame"
  BY InitIInv DEF InitState
<1>2. ToSet(<<>>) = {}
  BY DEF ToSet
<1>3. \A c \in Components : Members(instances[c]) = {}
  BY <1>1 DEF NewSet, Members
<1>4. HasNow = [e \in Ids |-> {}]
  BY <1>3, HasOf
<1>5. DoomedNow = {} /\ LeavingNow = {}
  BY <1>1 DEF DoomedNow, LeavingNow
<1>. QED
  BY <1>1, <1>2, <1>4, <1>5 DEF CurrentInv, Scene!Init, HasNow, DoomedNow, LeavingNow

\* The scene implements World, for any entities, components, bounds and lists of
\* components, while handlers only look on.
THEOREM WorldRefinement ==
  ASSUME HandlerMay = {}
  PROVE  StateSpec => ImplementsWorld
<1>1. SceneInv /\ RequestInv /\ [NextState]_stateVars => RequestInv'
  BY NextRequests
<1>2. SceneInv /\ RequestInv /\ CurrentInv /\ [NextState]_stateVars => CurrentInv'
  BY NextCurrent
<1>3. InitState => RequestInv /\ CurrentInv /\ Scene!Init
  BY InitRequests, InitWorld
<1>4. SceneInv /\ RequestInv /\ CurrentInv /\ [NextState]_stateVars => [Scene!Next]_Scene!worldVars
  BY StepOfWorld DEF Scene!worldVars, HasNow, DoomedNow, LeavingNow
<1>. QED
  BY <1>1, <1>2, <1>3, <1>4, SceneInvariance, PTL DEF StateSpec, ImplementsWorld, Scene!Spec
=============================================================================
