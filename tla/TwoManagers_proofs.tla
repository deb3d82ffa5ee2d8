-------------------------- MODULE TwoManagers_proofs --------------------------
(***************************************************************************)
(* Proofs about a rolling update (TwoManagers): types; that the pools      *)
(* never share a subblock while the ConfigMap rests, when both managers    *)
(* together implement the allocator; and that pools that are as configured *)
(* stay so.                                                                *)
(*                                                                         *)
(* The argument: each manager keeps SharedInv, which it relies on, at its  *)
(* own steps (ManagerStep) and at those of everybody else, who only do to  *)
(* stray pools what StrayPersist says (SharedFrame).  The lemmas of        *)
(* SharedPools_proofs are about the old manager; Second instantiates them  *)
(* for the new one.                                                        *)
(***************************************************************************)
EXTENDS TwoManagers, SharedPools_proofs, CapacityRefinement_proofs

Second == INSTANCE SharedPools_proofs
            WITH seen <- seen2, queued <- queued2, pc <- pc2, desired <- desired2,
                 existing <- existing2, locked <- locked2, plan <- plan2,
                 marking <- marking2, requesting <- requesting2, waiting <- waiting2,
                 failed <- failed2, expired <- expired2, inProgress <- inProgress2

-----------------------------------------------------------------------------
(* New and Second are two instances of one text: their definitions agree.  *)

\* The new manager does what its instance in the lemmas does (the handlers of
\* static_nodepool_controller.go and gke.go, step by step).
LEMMA SameManager ==
  New!Informers \/ New!Resync \/ New!Reconcile \/ New!CreateDeadline
    => Second!Informers \/ Second!Resync \/ Second!Reconcile \/ Second!CreateDeadline
<1>1. New!Informers <=> Second!Informers
  BY DEF New!Informers, New!SeeConfig, New!SeeSlices, New!SeeNodes, New!world,
         New!frame, New!bounds, Second!Informers, Second!SeeConfig,
         Second!SeeSlices, Second!SeeNodes, Second!world, Second!frame,
         Second!bounds
<1>2. New!Resync <=> Second!Resync
  BY DEF New!Resync, New!world, New!frame, New!bounds, Second!Resync, Second!world,
         Second!frame, Second!bounds
<1>3. New!Start <=> Second!Start
  BY DEF New!Start, New!world, New!bounds, Second!Start, Second!world, Second!bounds
<1>4. New!List <=> Second!List
  BY DEF New!List, New!NoPool, New!NoFault, New!Fault, New!Return, New!ClearFrame,
         New!NoPools, New!NoPlan, New!Phases, New!world, Second!List, Second!NoPool,
         Second!NoFault, Second!Fault, Second!Return, Second!ClearFrame,
         Second!NoPools, Second!NoPlan, Second!Phases, Second!world
<1>5. New!CreateDeadline <=> Second!CreateDeadline
  BY DEF New!CreateDeadline, New!Fault, New!world, Second!CreateDeadline,
         Second!Fault, Second!world
<1>6. New!BulkReturn <=> Second!BulkReturn
  BY DEF New!BulkReturn, New!Phases, New!DeletePhases, New!NextPhase, New!Return,
         New!ClearFrame, New!NoPools, New!NoPlan, New!NoPool, New!world, New!bounds,
         New!frame, Second!BulkReturn, Second!Phases, Second!DeletePhases,
         Second!NextPhase, Second!Return, Second!ClearFrame, Second!NoPools,
         Second!NoPlan, Second!NoPool, Second!world, Second!bounds, Second!frame
<1>7. New!Plan <=> Second!Plan
  BY DEF New!Plan, New!DiffFails, New!DesiredNames, New!ReadsLock,
         New!ToDeleteMissing, New!ToDeleteUpdate, New!Changed, New!Outdated,
         New!NodePoolHash, New!Jobs, New!Job, New!Exists, New!InError, New!NoHash,
         New!NoPool, New!NoFault, New!Fault, New!Return, New!ClearFrame,
         New!NoPools, New!NoPlan, New!Phases, New!GetInUseNodepools,
         New!ReconcilePlan, New!FilterLocked, New!FilterCreate, New!ToDeleteError,
         New!ToCreate, New!Absent, New!Failed, New!SkippedUpdates,
         New!SkippedCapacity, New!world, Second!Plan, Second!DiffFails,
         Second!DesiredNames, Second!ReadsLock, Second!ToDeleteMissing,
         Second!ToDeleteUpdate, Second!Changed, Second!Outdated,
         Second!NodePoolHash, Second!Jobs, Second!Job, Second!Exists,
         Second!InError, Second!NoHash, Second!NoPool, Second!NoFault, Second!Fault,
         Second!Return, Second!ClearFrame, Second!NoPools, Second!NoPlan,
         Second!Phases, Second!GetInUseNodepools, Second!ReconcilePlan,
         Second!FilterLocked, Second!FilterCreate, Second!ToDeleteError,
         Second!ToCreate, Second!Absent, Second!Failed, Second!SkippedUpdates,
         Second!SkippedCapacity, Second!world
<1>8. \A j : New!StartDelete(j) <=> Second!StartDelete(j)
  BY DEF New!StartDelete, New!DeletePhases, New!Launch, New!Slots, New!Cardinality,
         New!Finish, New!world, New!bounds, Second!StartDelete, Second!DeletePhases,
         Second!Launch, Second!Slots, Second!Cardinality, Second!Finish,
         Second!world, Second!bounds
<1>9. \A j : New!MarkDelete(j) <=> Second!MarkDelete(j)
  BY DEF New!MarkDelete, New!DeletePhases, New!Request, New!world, New!bounds,
         Second!MarkDelete, Second!DeletePhases, Second!Request, Second!world,
         Second!bounds
<1>10. \A j : New!RequestDelete(j) <=> Second!RequestDelete(j)
  BY DEF New!RequestDelete, New!DeletePhases, New!Exists, New!DeleteAccepted,
         New!SetStatus, New!NoFault, New!Fault, New!Finish, New!FinishDelete,
         New!Wait, Second!RequestDelete, Second!DeletePhases, Second!Exists,
         Second!DeleteAccepted, Second!SetStatus, Second!NoFault, Second!Fault,
         Second!Finish, Second!FinishDelete, Second!Wait
<1>11. \A j : New!AwaitDelete(j) <=> Second!AwaitDelete(j)
  BY DEF New!AwaitDelete, New!DeletePhases, New!NoFault, New!Fault,
         New!FinishDelete, New!Finish, New!world, Second!AwaitDelete,
         Second!DeletePhases, Second!NoFault, Second!Fault, Second!FinishDelete,
         Second!Finish, Second!world
<1>12. \A j : New!StartCreate(j) <=> Second!StartCreate(j)
  BY DEF New!StartCreate, New!Launch, New!Slots, New!Cardinality, New!DeletePhases,
         New!Exists, New!NoFault, New!Fault, New!Finish, New!Request, New!world,
         Second!StartCreate, Second!Launch, Second!Slots, Second!Cardinality,
         Second!DeletePhases, Second!Exists, Second!NoFault, Second!Fault,
         Second!Finish, Second!Request, Second!world
<1>13. \A j : New!RequestCreate(j) <=> Second!RequestCreate(j)
  BY DEF New!RequestCreate, New!CreateAccepted, New!Exists,
         New!StaticNodePoolForSubBlock, New!NodePoolHash, New!NoFault, New!Fault,
         New!Finish, New!Wait, Second!RequestCreate, Second!CreateAccepted,
         Second!Exists, Second!StaticNodePoolForSubBlock, Second!NodePoolHash,
         Second!NoFault, Second!Fault, Second!Finish, Second!Wait
<1>14. \A j : New!AwaitCreate(j) <=> Second!AwaitCreate(j)
  BY DEF New!AwaitCreate, New!NoFault, New!Fault, New!Finish, New!world,
         Second!AwaitCreate, Second!NoFault, Second!Fault, Second!Finish,
         Second!world
<1>15. New!Jobs2Do = Second!Jobs2Do
  BY DEF New!Jobs2Do, Second!Jobs2Do, New!Phases, Second!Phases
<1>16. \A j : New!Worker(j) <=> Second!Worker(j)
  BY <1>8, <1>9, <1>10, <1>11, <1>12, <1>13, <1>14 DEF New!Worker, Second!Worker
<1> QED
  BY <1>1, <1>2, <1>3, <1>4, <1>5, <1>6, <1>7, <1>15, <1>16 DEF New!Reconcile, Second!Reconcile

\* Types and assumptions.
LEMMA SameConstants ==
  /\ Second!ConfigMap = ConfigMap
  /\ Second!Pool = Pool /\ Second!NoPool = NoPool /\ Second!Node = Node
BY DEF ConfigMap, Second!ConfigMap, DesiredEntry, Second!DesiredEntry, Pool, Second!Pool,
       PoolStatus, Second!PoolStatus, NoHash, Second!NoHash, NoPool, Second!NoPool,
       Node, Second!Node

\* The invariants about the pools and the ConfigMap, which both managers share.
LEMMA SameShared ==
  /\ Second!CapacityHypotheses <=> CapacityHypotheses
  /\ Second!PoolInv <=> PoolInv
  /\ Second!StrayPersist <=> StrayPersist
<1>1. (\A p : Second!Exists(p) <=> Exists(p)) /\ (\A p : Second!Labelled(p) <=> Labelled(p))
  BY DEF Exists, Second!Exists, Labelled, Second!Labelled, NoHash, Second!NoHash
<1>2. \A d : Second!DistinctCapacity(d) <=> DistinctCapacity(d)
  BY DEF DistinctCapacity, Second!DistinctCapacity
<1>3. Second!CapacityHypotheses <=> CapacityHypotheses
  BY <1>1, <1>2 DEF CapacityHypotheses, Second!CapacityHypotheses
<1>4. Second!PoolInv <=> PoolInv
  BY <1>1 DEF PoolInv, Second!PoolInv, PoolsLabelled, Second!PoolsLabelled,
              CapacityExclusive, Second!CapacityExclusive
<1>5. Second!StrayPersist <=> StrayPersist
  BY DEF StrayPersist, Second!StrayPersist, Stray, Second!Stray, Exists, Second!Exists
<1> QED
  BY <1>3, <1>4, <1>5

\* The types of the new manager's state.
LEMMA SameTypes == (New!TypeInv <=> Second!TypeInv) /\ (New!TypeInv' <=> Second!TypeInv')
BY DEF New!TypeInv, Second!TypeInv, New!TypeOK, Second!TypeOK, New!IdleClean, Second!IdleClean,
       New!Phases, Second!Phases, New!NoPlan, Second!NoPlan, New!Jobs, Second!Jobs,
       New!Job, Second!Job, New!Pool, Second!Pool, New!PoolStatus, Second!PoolStatus,
       New!DesiredEntry, Second!DesiredEntry, New!NoHash, Second!NoHash,
       New!NoPool, Second!NoPool, New!Node, Second!Node

-----------------------------------------------------------------------------
(* Types. *)

\* A step of the others: the new manager's own state does not change.
LEMMA SecondFrame ==
  ASSUME TypeInv', Second!TypeInv,
         UNCHANGED <<pc2, desired2, existing2, locked2, plan2, marking2, requesting2,
                     waiting2, failed2, expired2, inProgress2>>,
         queued2' \in BOOLEAN,
         seen2' \in [cm: ConfigMaps, slices: SUBSET Subblocks, nodes: SUBSET Node]
  PROVE  Second!TypeInv'
<1>1. /\ cm' \in ConfigMaps /\ slices' \subseteq Subblocks /\ nodes' \subseteq Second!Node
      /\ pools' \in [Names -> Second!Pool \union {Second!NoPool}]
      /\ faults' \in Nat /\ edits' \in Nat
  BY SameConstants DEF TypeInv, TypeOK
<1>2. seen2' \in [cm: ConfigMaps, slices: SUBSET Subblocks, nodes: SUBSET Second!Node]
  BY SameConstants
<1>3. UNCHANGED <<pc2, Second!frame, inProgress2>>
  BY DEF Second!frame
<1> QED
  BY <1>1, <1>2, <1>3, Second!FrameUnchanged, ProvisionerAssumption, SubsetsAssumption,
     SameConstants

\* A step of the new manager: the old one's own state does not change.
LEMMA OldFrame ==
  ASSUME TypeInv, Second!TypeInv', UNCHANGED oldVars
  PROVE  TypeInv'
<1>1. /\ cm' \in ConfigMaps /\ slices' \subseteq Subblocks /\ nodes' \subseteq Node
      /\ pools' \in [Names -> Pool \union {NoPool}]
      /\ faults' \in Nat /\ edits' \in Nat
  BY SameConstants DEF Second!TypeInv, Second!TypeOK
<1>2. /\ queued' \in BOOLEAN
      /\ seen' \in [cm: ConfigMaps, slices: SUBSET Subblocks, nodes: SUBSET Node]
      /\ UNCHANGED <<pc, frame, inProgress>>
  BY DEF TypeInv, TypeOK, oldVars
<1> QED
  BY <1>1, <1>2, FrameUnchanged

\* The old manager is stopped, and nothing is left of its Reconcile.
LEMMA StopTypes == ASSUME TypeInv, StopOld PROVE TypeInv'
<1>1. existing' \in [Names -> Pool \union {NoPool}]
  BY DEF StopOld, ClearFrame, NoPools
<1>2. /\ plan' \in [Phases -> SUBSET (Names \X Nat)]
      /\ \A ph \in Phases : plan'[ph] = {}
  BY DEF StopOld, ClearFrame, NoPlan
<1>3. seen' \in [cm: ConfigMaps, slices: SUBSET Subblocks, nodes: SUBSET Node]
  BY DEF StopOld, NoCaches, TypeInv, TypeOK
<1>4. TypeOK'
  BY <1>1, <1>2, <1>3 DEF StopOld, ClearFrame, TypeInv, TypeOK, world, bounds, Phases
<1>5. IdleClean'
  BY DEF StopOld, ClearFrame, IdleClean, Phases
<1> QED
  BY <1>4, <1>5 DEF TypeInv

\* Types of both managers, and which of them is running.
TypesInv == TypeInv /\ Second!TypeInv

LEMMA RolloutTypesNext == TypesInv /\ [RolloutNext]_allVars => TypesInv'
<1> SUFFICES ASSUME TypesInv, [RolloutNext]_allVars PROVE TypesInv'
  OBVIOUS
<1> USE DEF TypesInv
<1>s. /\ seen2 \in [cm: ConfigMaps, slices: SUBSET Subblocks, nodes: SUBSET Node]
      /\ queued2 \in BOOLEAN
  BY SameConstants DEF Second!TypeInv, Second!TypeOK
<1>1. CASE StartNew
  <2>1. TypeInv'
    BY <1>1, TypeNext DEF StartNew
  <2>2. seen2' \in [cm: ConfigMaps, slices: SUBSET Subblocks, nodes: SUBSET Node]
    BY <1>1 DEF StartNew, TypeInv, TypeOK
  <2> QED
    BY <1>1, <2>1, <2>2, SecondFrame DEF StartNew
<1>2. CASE StopOld
  <2>1. TypeInv'
    BY <1>2, StopTypes
  <2> QED
    BY <1>2, <1>s, <2>1, SecondFrame DEF StopOld, newVars
<1>3. CASE OldStep
  <2>1. TypeInv'
    BY <1>3, TypeNext DEF OldStep, Next
  <2> QED
    BY <1>3, <1>s, <2>1, SecondFrame DEF OldStep, newVars
<1>4. CASE NewStep
  <2>1. Second!Informers \/ Second!Resync \/ Second!Reconcile \/ Second!CreateDeadline
    BY <1>4, SameManager DEF NewStep
  <2>2. Second!TypeInv'
    BY <2>1, Second!TypeNext, ProvisionerAssumption, SubsetsAssumption, SameConstants
       DEF Second!Next
  <2> QED
    BY <1>4, <2>2, OldFrame DEF NewStep
<1>5. CASE WorldStep
  <2>1. TypeInv'
    BY <1>5, TypeNext DEF WorldStep, Next
  <2> QED
    BY <1>5, <1>s, <2>1, SecondFrame DEF WorldStep, newVars
<1>6. CASE UNCHANGED allVars
  <2>1. TypeInv'
    BY <1>6, TypeNext DEF allVars
  <2> QED
    BY <1>6, <1>s, <2>1, SecondFrame DEF allVars, newVars
<1> QED
  BY <1>1, <1>2, <1>3, <1>4, <1>5, <1>6 DEF RolloutNext

\* A manager that does not run has no Reconcile and nothing queued.
LEMMA RolloutTypeNext ==
  RolloutTypeOK /\ [RolloutNext]_allVars => RolloutTypeOK'
<1> SUFFICES ASSUME RolloutTypeOK, [RolloutNext]_allVars PROVE RolloutTypeOK'
  OBVIOUS
<1>1. TypeInv' /\ New!TypeInv'
  BY RolloutTypesNext, SameTypes DEF RolloutTypeOK, TypesInv
<1>2. CASE OldStep \/ WorldStep \/ UNCHANGED allVars
  <2>1. UNCHANGED <<phase, pc2, queued2>>
    BY <1>2 DEF OldStep, WorldStep, newVars, allVars
  <2>2. phase = "new" => UNCHANGED <<pc, queued>>
    BY <1>2 DEF OldStep, WorldStep, User, EditConfig, SliceAcquire, SliceRelease, Gke, OpEnds,
                CreateOpDone, CreateOpFails, DeleteOpDone, DeleteOpFails, PoolFails,
                NodeRegisters, NodeLost, allVars, vars
  <2> QED
    BY <1>1, <2>1, <2>2 DEF RolloutTypeOK
<1>3. CASE NewStep
  BY <1>1, <1>3 DEF NewStep, oldVars, RolloutTypeOK
<1>4. CASE StartNew \/ StopOld
  BY <1>1, <1>4 DEF StartNew, StopOld, RolloutTypeOK
<1> QED
  BY <1>2, <1>3, <1>4 DEF RolloutNext

LEMMA RolloutTypeInit == RolloutInit => RolloutTypeOK
<1> SUFFICES ASSUME RolloutInit PROVE RolloutTypeOK
  OBVIOUS
<1>1. TypeInv
  BY TypeInit DEF RolloutInit
<1>2. Second!TypeInv
  <2>1. /\ cm \in ConfigMaps /\ slices \subseteq Subblocks /\ nodes \subseteq Second!Node
        /\ pools \in [Names -> Second!Pool \union {Second!NoPool}]
        /\ faults \in Nat /\ edits \in Nat
    BY <1>1, SameConstants DEF TypeInv, TypeOK
  <2>2. seen2 \in [cm: ConfigMaps, slices: SUBSET Subblocks, nodes: SUBSET Second!Node]
    BY <2>1 DEF RolloutInit, NoCaches
  <2>3. existing2 \in [Names -> Second!Pool \union {Second!NoPool}]
    BY DEF RolloutInit, NoPools, NoPool, Second!NoPool
  <2>4. /\ plan2 = Second!NoPlan /\ plan2 \in [Second!Phases -> SUBSET (Names \X Nat)]
        /\ \A ph \in Second!Phases : plan2[ph] = {}
    BY DEF RolloutInit, NoPlan, Phases, Second!NoPlan, Second!Phases
  <2>5. Second!TypeOK
    BY <2>1, <2>2, <2>3, <2>4 DEF RolloutInit, Second!TypeOK, Second!Phases
  <2> QED
    BY <2>4, <2>5 DEF RolloutInit, Second!TypeInv, Second!IdleClean
<1> QED
  BY <1>1, <1>2, SameTypes DEF RolloutInit, Init, RolloutTypeOK

\* During a rolling update both managers have a state of their type, and one that
\* does not run has no Reconcile, for any constants.
THEOREM RolloutTypes == RolloutSpec => []RolloutTypeOK
BY RolloutTypeInit, RolloutTypeNext, PTL DEF RolloutSpec

-----------------------------------------------------------------------------
(* Capacity. *)

\* The inductive invariant, for CapacityHypotheses.
RolloutInv ==
  /\ RolloutTypeOK
  /\ edits = 0 => PoolInv /\ SharedInv /\ Second!SharedInv

\* A step that leaves the new manager alone and creates no stray pool.
LEMMA SecondRests ==
  ASSUME Second!SharedInv, Second!TypeInv', StrayPersist, UNCHANGED cm,
         seen2'.cm = cm,
         UNCHANGED <<pc2, desired2, existing2, locked2, plan2, marking2, requesting2,
                     waiting2, failed2, expired2, inProgress2>>
  PROVE  Second!SharedInv'
<1>1. UNCHANGED <<cm, pc2, Second!frame>>
  BY DEF Second!frame
<1> QED
  BY <1>1, SameShared, Second!SharedFrame, ProvisionerAssumption, SubsetsAssumption,
     SameConstants

\* Users, who leave the ConfigMap alone, and GKE.
LEMMA WorldRests ==
  ASSUME CapacityHypotheses, TypeInv, PoolInv, WorldStep, edits' = 0
  PROVE  UNCHANGED <<cm, pc, frame, seen>> /\ StrayPersist /\ PoolInv'
<1>1. edits \in Nat
  BY DEF TypeInv, TypeOK
<1>2. CASE User
  <2>1. UNCHANGED <<cm, pools, pc, frame, seen>>
    BY <1>1, <1>2 DEF User, EditConfig, SliceAcquire, SliceRelease
  <2> QED
    BY <2>1, PersistSame, PersistStray, PersistCapacity DEF PoolInv
<1>3. ASSUME NEW n \in Names, Gke(n)
      PROVE  UNCHANGED <<cm, pc, frame, seen>> /\ StrayPersist /\ PoolInv'
  <2>1. UNCHANGED <<cm, pc, frame, seen>>
    BY <1>3 DEF Gke, OpEnds, CreateOpDone, CreateOpFails, DeleteOpDone, DeleteOpFails,
                PoolFails, NodeRegisters, NodeLost
  <2>2. Persist
    BY <1>3, GkePersists DEF CapacityHypotheses
  <2> QED
    BY <2>1, <2>2, PersistStray, PersistCapacity DEF PoolInv
<1> QED
  BY <1>2, <1>3 DEF WorldStep

\* An edit is never taken back: as long as none is counted, there was none.
LEMMA RolloutUnedited ==
  ASSUME TypeInv, [RolloutNext]_allVars, edits' = 0
  PROVE  edits = 0
<1>1. edits \in Nat
  BY DEF TypeInv, TypeOK
<1>2. edits' = edits \/ edits' = edits + 1
  <2>1. CASE WorldStep
    BY <2>1 DEF WorldStep, User, EditConfig, SliceAcquire, SliceRelease, Gke, OpEnds,
                CreateOpDone, CreateOpFails, DeleteOpDone, DeleteOpFails, PoolFails,
                NodeRegisters, NodeLost, bounds
  <2>2. CASE StartNew \/ StopOld \/ UNCHANGED allVars
    BY <2>2 DEF StartNew, StopOld, allVars, vars, bounds
  <2>3. CASE OldStep
    BY <2>3 DEF OldStep, Informers, SeeConfig, SeeSlices, SeeNodes, Resync, Reconcile, Start,
                List, Plan, BulkReturn, Worker, StartDelete, MarkDelete, RequestDelete,
                AwaitDelete, StartCreate, RequestCreate, AwaitCreate, CreateDeadline, bounds
  <2>4. CASE NewStep
    BY <2>4 DEF NewStep, New!Informers, New!SeeConfig, New!SeeSlices, New!SeeNodes,
                New!Resync, New!Reconcile, New!Start, New!List, New!Plan, New!BulkReturn,
                New!Worker, New!StartDelete, New!MarkDelete, New!RequestDelete,
                New!AwaitDelete, New!StartCreate, New!RequestCreate, New!AwaitCreate,
                New!CreateDeadline, New!bounds
  <2> QED
    BY <2>1, <2>2, <2>3, <2>4 DEF RolloutNext
<1> QED
  BY <1>1, <1>2

\* Every step of the rollout keeps the invariant.
LEMMA RolloutNextSafe ==
  ASSUME CapacityHypotheses, RolloutInv, [RolloutNext]_allVars
  PROVE  RolloutInv'
<1>t. RolloutTypeOK' /\ TypeInv' /\ Second!TypeInv'
  BY RolloutTypeNext, SameTypes DEF RolloutInv, RolloutTypeOK
<1> SUFFICES ASSUME edits' = 0 PROVE PoolInv' /\ SharedInv' /\ Second!SharedInv'
  BY <1>t DEF RolloutInv
<1>e. edits = 0
  BY RolloutUnedited DEF RolloutInv, RolloutTypeOK
<1>i. TypeInv /\ PoolInv /\ SharedInv /\ Second!SharedInv
  BY <1>e DEF RolloutInv, RolloutTypeOK
<1>c. seen.cm = cm /\ seen2.cm = cm
  BY <1>i DEF SharedInv, ReadsConfig, Second!SharedInv, Second!ReadsConfig
<1>s. UNCHANGED <<cm, pools>> => StrayPersist /\ PoolInv'
  BY <1>i, PersistSame, PersistStray, PersistCapacity DEF PoolInv
<1>1. CASE StartNew
  <2>1. UNCHANGED <<cm, pools, pc, frame, seen>> /\ seen2'.cm = cm
    BY <1>1 DEF StartNew, vars, world
  <2>2. SharedInv'
    BY <2>1, <1>c, <1>i, <1>s, <1>t, SharedFrame
  <2> QED
    BY <1>1, <2>1, <2>2, <1>i, <1>s, <1>t, SecondRests DEF StartNew
<1>2. CASE StopOld
  <2>1. UNCHANGED <<cm, pools, seen2>> /\ pc' = "idle" /\ desired' = <<>> /\ seen'.cm = cm
    BY <1>2 DEF StopOld, ClearFrame, NoCaches, world, newVars
  <2>2. ReadsConfig'
    BY <2>1 DEF ReadsConfig
  <2>3. SharedInv'
    BY <2>1, <2>2, <1>t, SharedIdle
  <2> QED
    BY <1>2, <2>1, <2>3, <1>c, <1>i, <1>s, <1>t, SecondRests DEF StopOld, newVars
<1>3. CASE OldStep
  <2>1. SharedInv' /\ StrayPersist /\ PoolInv'
    BY <1>3, <1>i, <1>t, ManagerStep DEF OldStep
  <2>2. UNCHANGED cm
    BY <1>3 DEF OldStep, Informers, SeeConfig, SeeSlices, SeeNodes, Resync, Reconcile, Start,
                List, Plan, BulkReturn, Worker, StartDelete, MarkDelete, RequestDelete,
                AwaitDelete, StartCreate, RequestCreate, AwaitCreate, CreateDeadline, world
  <2> QED
    BY <1>3, <2>1, <2>2, <1>c, <1>i, <1>t, SecondRests DEF OldStep, newVars
<1>4. CASE NewStep
  <2>1. Second!Informers \/ Second!Resync \/ Second!Reconcile \/ Second!CreateDeadline
    BY <1>4, SameManager DEF NewStep
  <2>2. Second!SharedInv' /\ StrayPersist /\ PoolInv'
    <3>1. Second!PoolInv /\ Second!CapacityHypotheses
      BY <1>i, SameShared
    <3>2. Second!SharedInv' /\ Second!StrayPersist /\ Second!PoolInv'
      BY <2>1, <3>1, <1>i, <1>t, Second!ManagerStep, ProvisionerAssumption, SubsetsAssumption,
         SameConstants
    <3>3. Second!PoolInv' => PoolInv'
      BY SameShared, PTL
    <3> QED
      BY <3>2, <3>3, SameShared
  <2>3. UNCHANGED cm
    BY <1>4 DEF NewStep, New!Informers, New!SeeConfig, New!SeeSlices, New!SeeNodes,
                New!Resync, New!Reconcile, New!Start, New!List, New!Plan, New!BulkReturn,
                New!Worker, New!StartDelete, New!MarkDelete, New!RequestDelete,
                New!AwaitDelete, New!StartCreate, New!RequestCreate, New!AwaitCreate,
                New!CreateDeadline, New!world
  <2>4. UNCHANGED <<pc, frame, seen>>
    BY <1>4 DEF NewStep, oldVars
  <2> QED
    BY <2>2, <2>3, <2>4, <1>c, <1>i, <1>t, SharedFrame
<1>5. CASE WorldStep
  <2>1. UNCHANGED <<cm, pc, frame, seen>> /\ StrayPersist /\ PoolInv'
    BY <1>5, <1>i, WorldRests
  <2>2. SharedInv'
    BY <2>1, <1>c, <1>i, <1>t, SharedFrame
  <2> QED
    BY <1>5, <2>1, <2>2, <1>c, <1>i, <1>t, SecondRests DEF WorldStep, newVars
<1>6. CASE UNCHANGED allVars
  <2>1. UNCHANGED <<cm, pools, pc, frame, seen>>
    BY <1>6 DEF allVars, vars, world
  <2>2. SharedInv'
    BY <2>1, <1>c, <1>i, <1>s, <1>t, SharedFrame
  <2> QED
    BY <1>6, <2>1, <2>2, <1>c, <1>i, <1>s, <1>t, SecondRests DEF allVars, newVars
<1> QED
  BY <1>1, <1>2, <1>3, <1>4, <1>5, <1>6 DEF RolloutNext

\* The rollout starts with one manager that has done nothing yet.
LEMMA RolloutInitSafe ==
  ASSUME CapacityHypotheses, RolloutInit
  PROVE  RolloutInv
<1>1. RolloutTypeOK /\ TypeInv /\ Second!TypeInv
  BY RolloutTypeInit, SameTypes DEF RolloutTypeOK
<1>2. PoolInv
  BY DEF RolloutInit, Init, CapacityHypotheses, PoolInv, PoolsLabelled, CapacityExclusive
<1>3. SharedInv
  BY <1>1 DEF RolloutInit, Init, SharedInv, ReadsConfig, StraySnapshot, StrayStopping, Covered,
              Unobstructed, DeletePhases
<1>4. Second!SharedInv
  BY <1>1 DEF RolloutInit, NoCaches, Second!SharedInv, Second!ReadsConfig,
              Second!StraySnapshot, Second!StrayStopping, Second!Covered, Second!Unobstructed,
              Second!DeletePhases
<1> QED
  BY <1>1, <1>2, <1>3, <1>4 DEF RolloutInv

\* However the steps of the two managers interleave, and wherever the old one is
\* stopped, two pools never hold one subblock while the ConfigMap is not edited.
THEOREM RolloutSafe == CapacityHypotheses => (RolloutSpec => []RolloutCapacity)
<1> SUFFICES ASSUME CapacityHypotheses PROVE RolloutSpec => []RolloutCapacity
  OBVIOUS
<1>1. RolloutInit => RolloutInv
  BY RolloutInitSafe
<1>2. RolloutInv /\ [RolloutNext]_allVars => RolloutInv'
  BY RolloutNextSafe
<1>3. RolloutInv => RolloutCapacity
  BY DEF RolloutInv, PoolInv, RolloutCapacity
<1> QED
  BY <1>1, <1>2, <1>3, PTL DEF RolloutSpec

-----------------------------------------------------------------------------
(* The allocator.  *)

\* What the new manager does to the pools is what its instance in the lemmas does.
LEMMA SameTouches == Second!Touches => Touches
BY DEF Touches, Second!Touches, DeleteAccepted, Second!DeleteAccepted, SetStatus,
       Second!SetStatus, Begins, Second!Begins, DesiredEntry, Second!DesiredEntry, Exists,
       Second!Exists, StaticNodePoolForSubBlock, Second!StaticNodePoolForSubBlock,
       NodePoolHash, Second!NodePoolHash

\* To the allocator, a pool that is created is an acquisition, and one whose delete
\* is accepted the beginning of a release.
LEMMA TouchesRefine ==
  ASSUME TypeInv, Touches
  PROVE  [Allocator!Next]_Holder
<1>1. CASE UNCHANGED pools
  BY <1>1, RefinesSame
<1>2. ASSUME NEW n \in Names, DeleteAccepted(n) PROVE [Allocator!Next]_Holder
  BY <1>2, RefinesStatus DEF DeleteAccepted, Exists, PoolStatus
<1>3. ASSUME NEW n \in Names, Begins(n) PROVE [Allocator!Next]_Holder
  <2>1. PICK i \in DOMAIN cm.pools :
          /\ cm.pools[i].name = n /\ cm.pools[i] \in DesiredEntry
          /\ ~Exists(pools[n])
          /\ \A m \in Names : Exists(pools[m]) => pools[m].sub # cm.pools[i].sub
          /\ pools' = [pools EXCEPT ![n] = StaticNodePoolForSubBlock(cm.pools[i])]
    BY <1>3 DEF Begins
  <2> DEFINE s == cm.pools[i].sub
  <2>2. pools \in [Names -> Pool \union {NoPool}] /\ s \in Subblocks
    BY <2>1 DEF TypeInv, TypeOK, DesiredEntry
  <2>3. <<n, s>> \in ConfiguredClaims
    BY <2>1 DEF TypeInv, TypeOK, ConfiguredClaims
  <2>4. \A m \in Names : ~Allocator!Holds(m, s)
    BY <2>1, HoldsPool
  <2>5. Holder' = [Holder EXCEPT ![n] = [phase |-> "held", sub |-> s]]
    BY <2>1, <2>2 DEF Holder, StaticNodePoolForSubBlock, Exists
  <2>6. Holder[n] = Allocator!Free
    BY <2>1, HolderAt
  <2>7. Allocator!Acquire(n, s)
    BY <2>3, <2>4, <2>5, <2>6 DEF Allocator!Acquire
  <2> QED
    BY <2>2, <2>7 DEF Allocator!Next
<1> QED
  BY <1>1, <1>2, <1>3 DEF Touches

\* Each step of the rollout is one of the allocator, or none of its concern.
LEMMA RolloutRefines ==
  ASSUME CapacityHypotheses, RolloutInv, [RolloutNext]_allVars, edits' = 0
  PROVE  [Allocator!Next]_Holder
<1>1. TypeInv /\ SharedInv /\ Second!SharedInv
  BY RolloutUnedited DEF RolloutInv, RolloutTypeOK
<1>2. CASE StartNew \/ StopOld \/ UNCHANGED allVars
  BY <1>2, RefinesSame DEF StartNew, StopOld, allVars, vars, world
<1>3. CASE OldStep
  BY <1>1, <1>3, ManagerTouches, TouchesRefine DEF OldStep
<1>4. CASE NewStep
  <2>1. Second!Informers \/ Second!Resync \/ Second!Reconcile \/ Second!CreateDeadline
    BY <1>4, SameManager DEF NewStep
  <2>2. Second!Touches
    BY <1>1, <2>1, Second!ManagerTouches, ProvisionerAssumption, SubsetsAssumption,
       SameConstants
  <2> QED
    BY <1>1, <2>2, SameTouches, TouchesRefine
<1>5. CASE WorldStep
  <2>1. CASE User
    BY <2>1, RefinesSame DEF User, EditConfig, SliceAcquire, SliceRelease
  <2>2. CASE \E n \in Names : Gke(n)
    BY <1>1, <2>2, RefinesGke
  <2> QED
    BY <1>5, <2>1, <2>2 DEF WorldStep
<1> QED
  BY <1>2, <1>3, <1>4, <1>5 DEF RolloutNext

\* While the ConfigMap is not edited, two managers acquire free subblocks only, and
\* only those that it names, and take no release back: together they implement the
\* allocator.
THEOREM RolloutAllocator == CapacityHypotheses => (RolloutSpec => RolloutAllocates)
<1> SUFFICES ASSUME CapacityHypotheses PROVE RolloutSpec => RolloutAllocates
  OBVIOUS
<1>1. RolloutInit => Allocator!Init
  BY RefinesInit DEF RolloutInit
<1>2. RolloutInit => RolloutInv
  BY RolloutInitSafe
<1>3. RolloutInv /\ [RolloutNext]_allVars => RolloutInv'
  BY RolloutNextSafe
<1>4. RolloutInv /\ [RolloutNext]_allVars => (edits' = 0 => [Allocator!Next]_Holder)
  BY RolloutRefines
<1> QED
  BY <1>1, <1>2, <1>3, <1>4, PTL DEF RolloutSpec, RolloutAllocates

-----------------------------------------------------------------------------
(* Rest. *)

\* Both instances agree on what rest is (DiffStaticNodePools finds nothing).
LEMMA SameRest ==
  /\ New!NothingToDo <=> Second!NothingToDo
  /\ (New!NothingToDo)' <=> (Second!NothingToDo)'
  /\ Second!AtRest <=> Applicable(cm) /\ Converged /\ Second!NothingToDo
<1>1. /\ New!NothingToDo <=> Second!NothingToDo
      /\ (New!NothingToDo)' <=> (Second!NothingToDo)'
  BY DEF New!NothingToDo, New!ToCreate, New!ToDeleteMissing, New!Jobs, New!Job, New!Absent,
         New!Failed, New!Changed, New!Outdated, New!NodePoolHash, New!NoHash, New!Exists,
         New!InError, New!DesiredNames, New!Jobs2Do, New!Phases,
         Second!NothingToDo, Second!ToCreate, Second!ToDeleteMissing, Second!Jobs, Second!Job,
         Second!Absent, Second!Failed, Second!Changed, Second!Outdated, Second!NodePoolHash,
         Second!NoHash, Second!Exists, Second!InError, Second!DesiredNames, Second!Jobs2Do,
         Second!Phases
<1>2. Second!Applicable(cm) <=> Applicable(cm)
  BY DEF Second!Applicable, Applicable, Second!DiffFails, DiffFails, Second!DesiredNames,
         DesiredNames
<1>3. Second!Converged <=> Converged
  BY DEF Second!Converged, Converged, Second!Outdated, Outdated, Second!NodePoolHash,
         NodePoolHash, Second!NoHash, NoHash, Second!Exists, Exists, Second!DesiredNames,
         DesiredNames
<1> QED
  BY <1>1, <1>2, <1>3 DEF Second!AtRest

\* Every step of a rollout at rest keeps it, or is an edit or a failure of GKE.
LEMMA RolloutRests ==
  ASSUME RolloutTypeOK, RolloutTypeOK', [RolloutNext]_allVars, RolloutAtRest,
         UNCHANGED cm, ~ConfiguredPoolFails
  PROVE  RolloutAtRest'
<1>t. TypeInv /\ TypeInv' /\ Second!TypeInv /\ Second!TypeInv'
  BY SameTypes DEF RolloutTypeOK
<1>r. Applicable(cm) /\ Applicable(cm)' /\ Converged
  BY DEF RolloutAtRest, Applicable
<1>o. phase # "new" => NothingToDo /\ seen.cm = cm
  BY DEF RolloutAtRest, NothingToDo
<1>n. phase # "old" => Second!NothingToDo /\ seen2.cm = cm
  BY SameRest DEF RolloutAtRest, Second!NothingToDo
<1>c. UNCHANGED pools => Converged'
  BY <1>r DEF Converged
<1>f. /\ UNCHANGED oldVars /\ phase # "new" => NothingToDo'
      /\ UNCHANGED newVars /\ phase # "old" => Second!NothingToDo'
  <2>1. UNCHANGED oldVars /\ phase # "new" => NothingToDo'
    BY <1>o, RestFrame DEF oldVars, frame
  <2>2. UNCHANGED newVars /\ phase # "old" => Second!NothingToDo'
    BY <1>n, Second!RestFrame, ProvisionerAssumption, SubsetsAssumption, SameConstants
       DEF newVars
  <2> QED
    BY <2>1, <2>2
<1> SUFFICES /\ Converged'
             /\ phase' # "new" => NothingToDo'
             /\ phase' # "old" => Second!NothingToDo'
  BY <1>r, SameRest DEF RolloutAtRest
<1>1. CASE StartNew
  <2>1. UNCHANGED <<vars, pc2>> /\ phase = "old" /\ seen2'.cm = cm'
    BY <1>1 DEF StartNew
  <2>2. UNCHANGED oldVars /\ UNCHANGED pools
    BY <2>1 DEF vars, world, oldVars
  <2>3. pc2' = "idle"
    BY <2>1 DEF RolloutTypeOK
  <2>4. Second!NothingToDo'
    BY <1>t, <2>1, <2>3, Second!RestIdle, ProvisionerAssumption, SubsetsAssumption, SameConstants
  <2> QED
    BY <1>c, <1>f, <2>1, <2>2, <2>4
<1>2. CASE StopOld
  BY <1>2, <1>c, <1>f DEF StopOld, world
<1>3. CASE OldStep
  <2>1. NothingToDo' /\ UNCHANGED pools
    BY <1>3, <1>o, <1>r, <1>t, ManagerRests DEF OldStep, AtRest
  <2> QED
    BY <1>3, <2>1, <1>c, <1>f DEF OldStep
<1>4. CASE NewStep
  <2>1. Second!Informers \/ Second!Resync \/ Second!Reconcile \/ Second!CreateDeadline
    BY <1>4, SameManager DEF NewStep
  <2>2. Second!AtRest
    BY <1>4, <1>n, <1>r, SameRest DEF NewStep
  <2>3. Second!NothingToDo' /\ UNCHANGED pools
    BY <1>t, <2>1, <2>2, Second!ManagerRests, ProvisionerAssumption, SubsetsAssumption,
       SameConstants
  <2> QED
    BY <1>4, <2>3, <1>c, <1>f DEF NewStep
<1>5. CASE WorldStep
  <2>1. Converged'
    <3>1. CASE User
      BY <3>1, <1>c DEF User, EditConfig, SliceAcquire, SliceRelease
    <3>2. ASSUME NEW n \in Names, Gke(n) PROVE Converged'
      BY <3>2, <1>r, <1>t, GkeRests
    <3> QED
      BY <1>5, <3>1, <3>2 DEF WorldStep
  <2>2. UNCHANGED oldVars
    BY <1>5 DEF WorldStep, User, EditConfig, SliceAcquire, SliceRelease, Gke, OpEnds,
                CreateOpDone, CreateOpFails, DeleteOpDone, DeleteOpFails, PoolFails,
                NodeRegisters, NodeLost, oldVars
  <2> QED
    BY <1>5, <2>1, <2>2, <1>f DEF WorldStep
<1>6. CASE UNCHANGED allVars
  BY <1>6, <1>c, <1>f DEF allVars, vars, world, oldVars
<1> QED
  BY <1>1, <1>2, <1>3, <1>4, <1>5, <1>6 DEF RolloutNext

\* At rest, a rollout at any stage touches no pool, for all constants and faults.
THEOREM RolloutRestKept == RolloutSpec => RolloutRestIsKept
<1>1. RolloutTypeOK /\ RolloutTypeOK' /\ [RolloutNext]_allVars
        => [RolloutAtRest /\ ~RolloutAtRest' => cm' # cm \/ ConfiguredPoolFails]_allVars
  BY RolloutRests
<1> QED
  BY <1>1, RolloutTypes, PTL DEF RolloutSpec, RolloutRestIsKept
=============================================================================
