----------------------- MODULE CapacityRefinement_proofs -----------------------
(* Proof that Provisioner implements CapacityAllocator. *)
EXTENDS CapacityRefinement, Provisioner_proofs

\* What a name holds is read off its node pool (ListNodePools).
LEMMA HolderAt ==
  ASSUME NEW n \in Names
  PROVE  /\ ~Exists(pools[n]) => Holder[n] = Allocator!Free
         /\ Exists(pools[n]) =>
              /\ Holder[n] \in [phase: {"held", "releasing"}, sub: {pools[n].sub}]
              /\ Holder[n] # Allocator!Free
              /\ Holder[n].sub = pools[n].sub
              /\ Holder[n].phase = IF pools[n].status = "STOPPING" THEN "releasing" ELSE "held"
<1>1. ~Exists(pools[n]) => Holder[n] = Allocator!Free
  BY DEF Holder, Allocator!Free
<1>2. ASSUME Exists(pools[n])
      PROVE  Holder[n] = [phase |-> IF pools[n].status = "STOPPING" THEN "releasing" ELSE "held",
                          sub   |-> pools[n].sub]
  BY <1>2 DEF Holder
<1>3. \A ph, s : [phase |-> ph, sub |-> s] # Allocator!Free
  <2> SUFFICES ASSUME NEW ph, NEW s, [phase |-> ph, sub |-> s] = Allocator!Free PROVE FALSE
    OBVIOUS
  <2>1. DOMAIN [phase |-> ph, sub |-> s] = {"phase", "sub"}
    OBVIOUS
  <2>2. DOMAIN Allocator!Free = {"phase"}
    BY DEF Allocator!Free
  <2> QED
    BY <2>1, <2>2
<1> QED
  BY <1>1, <1>2, <1>3

\* The mapping yields states of the allocator.
LEMMA HolderTypes ==
  ASSUME TypeInv
  PROVE  Holder \in [Names -> Allocator!Holding \union {Allocator!Free}]
<1>1. pools \in [Names -> Pool \union {NoPool}]
  BY DEF TypeInv, TypeOK
<1>2. ASSUME NEW n \in Names
      PROVE  Holder[n] \in Allocator!Holding \union {Allocator!Free}
  <2>1. CASE Exists(pools[n])
    <3>1. pools[n].sub \in Subblocks
      BY <1>1, <2>1, PoolTypes DEF Pool
    <3> QED
      BY <2>1, <3>1, HolderAt DEF Allocator!Holding
  <2> QED
    BY <2>1, HolderAt
<1> QED
  BY <1>2 DEF Holder

\* A subblock that a name holds is the one its pool consumes.
LEMMA HoldsPool ==
  ASSUME NEW n \in Names, NEW s
  PROVE  Allocator!Holds(n, s) <=> Exists(pools[n]) /\ pools[n].sub = s
BY HolderAt DEF Allocator!Holds

\* The cluster starts in a state of the allocator.
LEMMA RefinesInit ==
  ASSUME CapacityHypotheses, Init
  PROVE  Allocator!Init
<1>1. IInv
  BY CapacityInit
<1>2. Allocator!Exclusive
  BY <1>1, HoldsPool DEF IInv, CapacityExclusive, Allocator!Exclusive
<1> QED
  BY <1>1, <1>2, HolderTypes DEF IInv, Allocator!Init

\* Two states whose node pools are the same look the same to the allocator.
LEMMA RefinesSame ==
  ASSUME UNCHANGED pools
  PROVE  Holder' = Holder
BY DEF Holder

\* A change of status is a stutter, or the beginning of a release.
LEMMA RefinesStatus ==
  ASSUME TypeInv, NEW n \in Names, NEW st \in PoolStatus, SetStatus(n, st),
         Exists(pools[n]), pools[n].status # "STOPPING"
  PROVE  [Allocator!Next]_Holder
<1>1. pools \in [Names -> Pool \union {NoPool}] /\ pools[n] \in Pool
  BY PoolTypes DEF TypeInv, TypeOK
<1>2. pools'[n].status = st /\ pools'[n].sub = pools[n].sub /\ Exists(pools'[n])
  BY <1>1 DEF SetStatus, Pool, Exists, PoolStatus
<1>3. \A m \in Names \ {n} : pools'[m] = pools[m]
  BY <1>1 DEF SetStatus
<1>4. Holder' = [Holder EXCEPT ![n] = [phase |-> IF st = "STOPPING" THEN "releasing" ELSE "held",
                                       sub   |-> pools[n].sub]]
  BY <1>2, <1>3 DEF Holder
<1>5. Holder[n] = [phase |-> "held", sub |-> pools[n].sub] /\ Holder[n].sub = pools[n].sub
  BY DEF Holder
<1>6. Holder[n] # Allocator!Free /\ Holder[n].phase = "held"
  BY HolderAt
<1>7. CASE st = "STOPPING"
  <2>1. Allocator!BeginRelease(n)
    BY <1>4, <1>5, <1>6, <1>7 DEF Allocator!BeginRelease
  <2> QED
    BY <2>1 DEF Allocator!Next
<1>8. CASE st # "STOPPING"
  BY <1>4, <1>5, <1>8 DEF Holder
<1> QED
  BY <1>7, <1>8

\* A delete operation that ends is the end of a release.
LEMMA RefinesGone ==
  ASSUME TypeInv, NEW n \in Names, DeleteOpDone(n)
  PROVE  Allocator!Next
<1>1. pools \in [Names -> Pool \union {NoPool}]
  BY DEF TypeInv, TypeOK
<1>2. pools' = [pools EXCEPT ![n] = NoPool] /\ pools[n].status = "STOPPING" /\ Exists(pools[n])
  BY DEF DeleteOpDone, Exists
<1>3. Holder' = [Holder EXCEPT ![n] = Allocator!Free]
  BY <1>1, <1>2 DEF Holder, Exists, NoPool, Allocator!Free
<1>4. Holder[n] # Allocator!Free /\ Holder[n].phase = "releasing"
  BY <1>2, HolderAt
<1> QED
  BY <1>3, <1>4 DEF Allocator!EndRelease, Allocator!Next

\* An accepted create request acquires a subblock that nobody holds.
LEMMA RefinesAccepted ==
  ASSUME IInv, pc = "create", NEW j \in requesting, CreateAccepted(j)
  PROVE  Allocator!Next
<1> DEFINE d == desired[j[2]]
<1>1. /\ j[1] \in Names /\ j[2] \in DOMAIN desired /\ d \in DesiredEntry
      /\ j = <<d.name, j[2]>>
  BY JobTypes DEF IInv, Phases
<1>2. pools \in [Names -> Pool \union {NoPool}]
  BY DEF IInv, TypeInv, TypeOK
<1>3. pools' = [pools EXCEPT ![j[1]] = StaticNodePoolForSubBlock(d)] /\ ~Exists(pools[j[1]])
  BY DEF CreateAccepted
<1>4. d.sub \in Subblocks
  BY <1>1 DEF DesiredEntry
<1>5. <<j[1], d.sub>> \in ConfiguredClaims
  <2>1. PICK c \in ConfigMaps : desired = c.pools
    BY <1>1 DEF IInv, TypeInv, TypeOK
  <2> QED
    BY <2>1, <1>1 DEF ConfiguredClaims
<1>6. ASSUME NEW m \in Names PROVE ~Allocator!Holds(m, d.sub)
  <2>1. m # j[1] => ~(Exists(pools[m]) /\ pools[m].sub = d.sub)
    BY DEF IInv, Unobstructed, InTheWay
  <2> QED
    BY <2>1, <1>3, HoldsPool
<1>7. Holder' = [Holder EXCEPT ![j[1]] = [phase |-> "held", sub |-> d.sub]]
  BY <1>1, <1>2, <1>3 DEF Holder, StaticNodePoolForSubBlock, Exists
<1>8. Holder[j[1]] = Allocator!Free
  BY <1>1, <1>3, HolderAt
<1>9. Allocator!Acquire(j[1], d.sub)
  BY <1>5, <1>6, <1>7, <1>8 DEF Allocator!Acquire
<1> QED
  BY <1>1, <1>4, <1>9 DEF Allocator!Next

\* What GKE does on its own ends operations of the allocator or is none of its
\* concern.
LEMMA RefinesGke ==
  ASSUME CapacityHypotheses, TypeInv, NEW n \in Names, Gke(n)
  PROVE  [Allocator!Next]_Holder
<1>1. CASE CreateOpDone(n)
  BY <1>1, RefinesStatus DEF CreateOpDone, Exists, PoolStatus
<1>2. CASE CreateOpFails(n)
  BY <1>2, RefinesStatus DEF CreateOpFails, Exists, PoolStatus
<1>3. CASE DeleteOpDone(n)
  BY <1>3, RefinesGone
<1>4. CASE DeleteOpFails(n)
  BY <1>4 DEF DeleteOpFails, Fault, CapacityHypotheses
<1>5. CASE PoolFails(n)
  BY <1>5, RefinesStatus DEF PoolFails, Exists, PoolStatus
<1>6. CASE NodeRegisters(n) \/ NodeLost(n)
  BY <1>6, RefinesSame DEF NodeRegisters, NodeLost
<1> QED
  BY <1>1, <1>2, <1>3, <1>4, <1>5, <1>6 DEF Gke, OpEnds

\* Only the two requests of the goroutines touch the node pools.
LEMMA RefinesWorker ==
  ASSUME IInv, NEW j \in Jobs2Do, Worker(j)
  PROVE  [Allocator!Next]_Holder
<1>1. CASE StartDelete(j) \/ MarkDelete(j) \/ AwaitDelete(j) \/ StartCreate(j) \/ AwaitCreate(j)
  BY <1>1, RefinesSame
     DEF StartDelete, MarkDelete, AwaitDelete, StartCreate, AwaitCreate, world
<1>2. CASE RequestDelete(j)
  <2>1. pc \in Phases /\ j \in requesting
    BY <1>2 DEF RequestDelete, DeletePhases, Phases
  <2>2. j[1] \in Names /\ TypeInv
    BY <2>1, JobTypes DEF IInv
  <2>3. CASE DeleteAccepted(j[1])
    BY <2>2, <2>3, RefinesStatus DEF DeleteAccepted, Exists, PoolStatus
  <2>4. CASE UNCHANGED pools
    BY <2>4, RefinesSame
  <2> QED
    BY <1>2, <2>3, <2>4 DEF RequestDelete
<1>3. CASE RequestCreate(j)
  <2>1. pc = "create" /\ j \in requesting
    BY <1>3 DEF RequestCreate
  <2>2. CASE CreateAccepted(j)
    BY <2>1, <2>2, RefinesAccepted
  <2>3. CASE UNCHANGED pools
    BY <2>3, RefinesSame
  <2> QED
    BY <1>3, <2>2, <2>3 DEF RequestCreate
<1> QED
  BY <1>1, <1>2, <1>3 DEF Worker

\* Every step of Provisioner is a step of the allocator or a stutter.
LEMMA RefinesNext ==
  ASSUME CapacityHypotheses, IInv, [Next]_vars
  PROVE  [Allocator!Next]_Holder
<1>1. CASE User \/ Informers \/ Resync
  BY <1>1, RefinesSame
     DEF User, EditConfig, SliceAcquire, SliceRelease, Informers, SeeConfig, SeeSlices,
         SeeNodes, Resync, world
<1>2. CASE \E n \in Names : Gke(n)
  BY <1>2, RefinesGke DEF IInv
<1>3. CASE Start \/ List \/ Plan \/ BulkReturn \/ CreateDeadline \/ Crash
  BY <1>3, RefinesSame DEF Start, List, Plan, BulkReturn, CreateDeadline, Crash, world
<1>4. CASE \E j \in Jobs2Do : Worker(j)
  BY <1>4, RefinesWorker
<1>5. CASE UNCHANGED vars
  BY <1>5, RefinesSame DEF vars, world
<1> QED
  BY <1>1, <1>2, <1>3, <1>4, <1>5 DEF Next, Reconcile

\* Reconciles, retries and crashes only ever acquire free subblocks that a
\* ConfigMap names, and never take a release back, provided that no delete
\* operation fails.
THEOREM AllocatorImplemented == CapacityHypotheses => (Spec => ImplementsAllocator)
<1> SUFFICES ASSUME CapacityHypotheses PROVE Spec => Allocator!Spec
  BY DEF ImplementsAllocator
<1>1. Init => Allocator!Init
  BY RefinesInit
<1>2. IInv /\ [Next]_vars => [Allocator!Next]_Holder
  BY RefinesNext
<1> QED
  BY <1>1, <1>2, CapacityInvariant, PTL DEF Spec, Allocator!Spec
=============================================================================
