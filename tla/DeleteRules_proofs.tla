-------------------------- MODULE DeleteRules_proofs --------------------------
(***************************************************************************)
(* Proofs about what a Reconcile of Provisioner may delete and create: the *)
(* in-use lock, the pools that are as configured and the pools of others.  *)
(*                                                                         *)
(* The argument: when the plan is made, every pool it lists for deletion   *)
(* may be deleted, by what was listed and read until then (PlanJustified). *)
(* Nothing that happens later adds a job or changes what MayDelete speaks  *)
(* of before the Reconcile ends (JustifiedNext), and only the request of a *)
(* goroutine puts a pool into STOPPING (OnlyRequestsDelete).               *)
(***************************************************************************)
EXTENDS Provisioner_proofs

\* What this Reconcile has listed and read allows it to delete pool n.
MayDelete(n) ==
  /\ n \notin locked \/ InError(existing[n])
  /\ ~(~InError(existing[n]) /\ UpToDate(existing[n], n, desired))
  /\ existing[n].static \/ n \in DesiredNames(desired)

Active == marking \union requesting \union waiting

\* Every delete that is planned or under way is allowed.
DeletesJustified ==
  /\ \A ph \in DeletePhases : \A j \in plan[ph] : MayDelete(j[1])
  /\ pc \in DeletePhases => \A j \in Active : MayDelete(j[1])

\* The inductive invariant.
DeleteInv == TypeInv /\ DeletesJustified

-----------------------------------------------------------------------------
(* The plan. *)

\* The three delete lists that are left after the filters hold only pools that
\* may be deleted (gke.go:122-163, static_nodepool_controller.go:147-167).
LEMMA PlanJustified ==
  ASSUME TypeInv, plan' = ReconcilePlan(existing, desired, locked'),
         UNCHANGED <<existing, desired>>
  PROVE  \A ph \in DeletePhases : \A j \in plan'[ph] : MayDelete(j[1])'
<1>1. /\ plan'["missing"] = FilterLocked(ToDeleteMissing(existing, desired), locked')
      /\ plan'["error"] = ToDeleteError(existing, desired)
      /\ plan'["update"] = FilterLocked(ToDeleteUpdate(existing, desired), locked')
  BY DEF ReconcilePlan, Phases
<1>2. ASSUME NEW j \in plan'["missing"] PROVE MayDelete(j[1])'
  <2>1. /\ j[1] \notin locked' /\ existing[j[1]].static
        /\ j[1] \notin DesiredNames(desired)
    BY <1>1, <1>2 DEF FilterLocked, ToDeleteMissing
  <2>2. ~UpToDate(existing[j[1]], j[1], desired)
    BY <2>1 DEF UpToDate, DesiredNames
  <2> QED
    BY <2>1, <2>2 DEF MayDelete
<1>3. ASSUME NEW j \in plan'["error"] PROVE MayDelete(j[1])'
  <2>1. PICK i \in DOMAIN desired : j = Job(desired, i) /\ InError(existing[desired[i].name])
    BY <1>1, <1>3 DEF ToDeleteError, Jobs, Failed
  <2>2. j[1] = desired[i].name
    BY <2>1 DEF Job
  <2>3. j[1] \in DesiredNames(desired)
    BY <2>2 DEF DesiredNames
  <2> QED
    BY <2>1, <2>2, <2>3 DEF MayDelete
<1>4. ASSUME NEW j \in plan'["update"] PROVE MayDelete(j[1])'
  <2>1. j[1] \notin locked' /\ j \in Jobs(desired, Changed(existing, desired))
    BY <1>1, <1>4 DEF FilterLocked, ToDeleteUpdate
  <2>2. PICK i \in DOMAIN desired :
          j = Job(desired, i) /\ Outdated(existing[desired[i].name], desired[i])
    BY <2>1 DEF Jobs, Changed
  <2>3. j[1] = desired[i].name
    BY <2>2 DEF Job
  <2>4. j[1] \in DesiredNames(desired)
    BY <2>3 DEF DesiredNames
  <2>5. ~UpToDate(existing[j[1]], j[1], desired)
    BY <2>2, <2>3 DEF UpToDate
  <2> QED
    BY <2>1, <2>4, <2>5 DEF MayDelete
<1> QED
  BY <1>2, <1>3, <1>4 DEF DeletePhases

-----------------------------------------------------------------------------
(* The invariant. *)

\* A step that adds no job to a delete phase, and changes nothing of what was
\* listed and read, keeps every delete justified.
LEMMA JustifiedFrame ==
  ASSUME DeletesJustified,
         UNCHANGED <<desired, existing, locked>>,
         \A ph \in DeletePhases : plan'[ph] \subseteq plan[ph],
         pc' \in DeletePhases =>
           \/ pc' = pc /\ Active' \subseteq plan[pc] \union Active
           \/ Active' = {}
  PROVE  DeletesJustified'
<1>1. \A n : MayDelete(n)' <=> MayDelete(n)
  BY DEF MayDelete
<1>2. ASSUME NEW ph \in DeletePhases, NEW j \in plan'[ph] PROVE MayDelete(j[1])'
  BY <1>1, <1>2 DEF DeletesJustified
<1>3. ASSUME pc' \in DeletePhases, NEW j \in Active' PROVE MayDelete(j[1])'
  BY <1>1, <1>3 DEF DeletesJustified
<1> QED
  BY <1>2, <1>3 DEF DeletesJustified

\* Outside the bulk operations nothing is planned.
LEMMA JustifiedIdle ==
  ASSUME TypeInv', pc' \notin Phases
  PROVE  DeletesJustified'
<1>1. \A ph \in DeletePhases : plan'[ph] = {}
  BY DEF TypeInv, IdleClean, NoPlan, DeletePhases, Phases
<1>2. pc' \notin DeletePhases
  BY DEF DeletePhases, Phases
<1> QED
  BY <1>1, <1>2 DEF DeletesJustified

\* A step of a goroutine takes its job from the plan of its phase or works on
\* one that is under way.
LEMMA JustifiedWorker ==
  ASSUME DeleteInv, NEW j, Worker(j)
  PROVE  DeletesJustified'
<1>1. plan \in [Phases -> SUBSET (Names \X Nat)] /\ DeletePhases \subseteq Phases
  BY DEF DeleteInv, TypeInv, TypeOK, DeletePhases, Phases
<1>2. UNCHANGED <<desired, existing, locked, pc>>
  BY DEF Worker, StartDelete, MarkDelete, RequestDelete, AwaitDelete, StartCreate,
         RequestCreate, AwaitCreate
<1>3. CASE StartDelete(j) \/ StartCreate(j)
  <2>1. Launch(j)
    BY <1>3 DEF StartDelete, StartCreate
  <2>2. \A ph \in DeletePhases : plan'[ph] \subseteq plan[ph]
    BY <1>1, <2>1 DEF Launch
  <2>3. Active' \subseteq plan[pc] \union Active
    BY <1>3, <2>1 DEF StartDelete, StartCreate, Finish, Request, Active, Launch
  <2> QED
    BY <1>2, <2>2, <2>3, JustifiedFrame DEF DeleteInv
<1>4. CASE MarkDelete(j) \/ RequestDelete(j) \/ AwaitDelete(j)
           \/ RequestCreate(j) \/ AwaitCreate(j)
  <2>1. plan' = plan
    BY <1>4 DEF MarkDelete, RequestDelete, AwaitDelete, RequestCreate, AwaitCreate
  <2>2. Active' \subseteq Active
    BY <1>4 DEF MarkDelete, RequestDelete, AwaitDelete, RequestCreate, AwaitCreate,
                FinishDelete, Finish, Request, Wait, Active
  <2> QED
    BY <1>2, <2>1, <2>2, JustifiedFrame DEF DeleteInv
<1> QED
  BY <1>3, <1>4 DEF Worker

\* Every step keeps every delete justified.
LEMMA JustifiedNext == DeleteInv /\ [Next]_vars => DeleteInv'
<1> SUFFICES ASSUME DeleteInv, [Next]_vars PROVE DeleteInv'
  OBVIOUS
<1>t. TypeInv'
  BY TypeNext DEF DeleteInv
<1>i. pc' \notin Phases => DeletesJustified'
  BY <1>t, JustifiedIdle
<1>f. UNCHANGED <<pc, desired, existing, locked, plan, marking, requesting, waiting>>
        => DeletesJustified'
  BY JustifiedFrame DEF DeleteInv, Active
<1>1. CASE User \/ Informers \/ Resync
  BY <1>1, <1>f, <1>t
     DEF User, EditConfig, SliceAcquire, SliceRelease, Informers, SeeConfig, SeeSlices,
         SeeNodes, Resync, frame, DeleteInv
<1>2. CASE \E n \in Names : Gke(n)
  BY <1>2, <1>f, <1>t
     DEF Gke, OpEnds, CreateOpDone, CreateOpFails, DeleteOpDone, DeleteOpFails, PoolFails,
         NodeRegisters, NodeLost, frame, DeleteInv
<1>3. CASE Start \/ List
  BY <1>3, <1>i, <1>t DEF Start, List, Return, Phases, DeleteInv
<1>4. CASE Plan
  <2>1. CASE Return(TRUE)
    BY <1>i, <1>t, <2>1 DEF Return, Phases, DeleteInv
  <2>2. CASE /\ plan' = ReconcilePlan(existing, desired, locked')
             /\ UNCHANGED <<desired, existing, marking, requesting, waiting>>
    <3>1. Active' = {}
      BY <1>4, <2>2 DEF Plan, DeleteInv, TypeInv, IdleClean, Phases, Active
    <3>2. \A ph \in DeletePhases : \A j \in plan'[ph] : MayDelete(j[1])'
      BY <2>2, PlanJustified DEF DeleteInv
    <3> QED
      BY <1>t, <3>1, <3>2 DEF DeleteInv, DeletesJustified
  <2> QED
    BY <1>4, <2>1, <2>2 DEF Plan
<1>5. CASE BulkReturn
  <2>1. CASE Return(failed)
    BY <1>i, <1>t, <2>1 DEF Return, Phases, DeleteInv
  <2>2. CASE UNCHANGED <<queued, frame>>
    <3>1. Active' = {}
      BY <1>5, <2>2 DEF BulkReturn, frame, Active
    <3> QED
      BY <1>t, <2>2, <3>1, JustifiedFrame DEF DeleteInv, frame
  <2> QED
    BY <1>5, <2>1, <2>2 DEF BulkReturn
<1>6. CASE \E j \in Jobs2Do : Worker(j)
  BY <1>6, <1>t, JustifiedWorker DEF DeleteInv
<1>7. CASE CreateDeadline \/ UNCHANGED vars
  BY <1>7, <1>f, <1>t DEF CreateDeadline, vars, frame, DeleteInv
<1>8. CASE Crash
  BY <1>8, <1>i, <1>t DEF Crash, Phases, DeleteInv
<1> QED
  BY <1>1, <1>2, <1>3, <1>4, <1>5, <1>6, <1>7, <1>8 DEF Next, Reconcile

-----------------------------------------------------------------------------
(* The rules. *)

\* Only the request of a goroutine of a bulk delete starts the deletion of a
\* pool, and it is the pool of its job (gke.go:225-237).
LEMMA OnlyRequestsDelete ==
  ASSUME TypeInv, [Next]_vars, NEW n \in Names, StartsDeleting(n)
  PROVE  pc \in DeletePhases /\ \E j \in requesting : j[1] = n
<1>p. pools \in [Names -> Pool \union {NoPool}]
  BY DEF TypeInv, TypeOK
<1>1. CASE User \/ Informers \/ Resync \/ Start \/ List \/ Plan \/ BulkReturn
           \/ CreateDeadline \/ Crash \/ UNCHANGED vars
  BY <1>1 DEF User, EditConfig, SliceAcquire, SliceRelease, Informers, SeeConfig, SeeSlices,
              SeeNodes, Resync, Start, List, Plan, BulkReturn, CreateDeadline, Crash, vars,
              world, StartsDeleting
<1>2. ASSUME NEW m \in Names, Gke(m) PROVE FALSE
  <2>1. CASE pools' = pools
    BY <2>1 DEF StartsDeleting
  <2>2. CASE \E st \in {"RUNNING", "ERROR"} : SetStatus(m, st)
    BY <1>p, <2>2 DEF SetStatus, StartsDeleting, Pool, NoPool
  <2>3. CASE pools' = [pools EXCEPT ![m] = NoPool]
    BY <1>p, <2>3 DEF StartsDeleting, NoPool
  <2> QED
    BY <1>2, <2>1, <2>2, <2>3
       DEF Gke, OpEnds, CreateOpDone, CreateOpFails, DeleteOpDone, DeleteOpFails, PoolFails,
           NodeRegisters, NodeLost
<1>3. ASSUME NEW j, Worker(j) PROVE pc \in DeletePhases /\ j \in requesting /\ j[1] = n
  <2>1. pools' # pools
    BY DEF StartsDeleting
  <2>2. CASE RequestDelete(j)
    <3>1. DeleteAccepted(j[1])
      BY <2>1, <2>2 DEF RequestDelete
    <3>2. j[1] = n
      BY <1>p, <3>1 DEF DeleteAccepted, SetStatus, StartsDeleting
    <3> QED
      BY <2>2, <3>2 DEF RequestDelete
  <2>3. CASE RequestCreate(j)
    <3>1. CreateAccepted(j)
      BY <2>1, <2>3 DEF RequestCreate
    <3> QED
      BY <1>p, <3>1 DEF CreateAccepted, StaticNodePoolForSubBlock, StartsDeleting
  <2> QED
    BY <1>3, <2>1, <2>2, <2>3
       DEF Worker, StartDelete, MarkDelete, AwaitDelete, StartCreate, AwaitCreate, world
<1> QED
  BY <1>1, <1>2, <1>3 DEF Next, Reconcile

\* A pool whose deletion starts may be deleted.
LEMMA StartedDeletesAllowed ==
  ASSUME DeleteInv, [Next]_vars, NEW n \in Names, StartsDeleting(n)
  PROVE  MayDelete(n)
<1>1. pc \in DeletePhases /\ \E j \in requesting : j[1] = n
  BY OnlyRequestsDelete DEF DeleteInv
<1> QED
  BY <1>1 DEF DeleteInv, DeletesJustified, Active

\* Every delete that is planned or under way is justified at all times.
LEMMA JustifiedInvariant == Spec => []DeleteInv
<1>1. Init => DeleteInv
  <2> SUFFICES ASSUME Init PROVE DeleteInv
    OBVIOUS
  <2>1. TypeInv
    BY TypeInit
  <2>2. (\A ph \in DeletePhases : plan[ph] = {}) /\ pc \notin DeletePhases
    BY DEF Init, NoPlan, DeletePhases, Phases
  <2> QED
    BY <2>1, <2>2 DEF DeleteInv, DeletesJustified
<1>2. DeleteInv /\ [Next]_vars => DeleteInv'
  BY JustifiedNext
<1> QED
  BY <1>1, <1>2, PTL DEF Spec

\* A Reconcile never deletes a pool that it found to be in use by a Slice,
\* unless the pool was in ERROR when it was listed: not even when two entries of
\* the configuration share its name, when a goroutine is slow, or after a crash.
THEOREM LockedPoolsKept == Spec => LockedPoolKept
<1>1. DeleteInv /\ [Next]_vars =>
        [\A n \in Names : StartsDeleting(n) => n \notin locked \/ InError(existing[n])]_vars
  BY StartedDeletesAllowed DEF MayDelete
<1> QED
  BY <1>1, JustifiedInvariant, PTL DEF Spec, LockedPoolKept

\* A Reconcile never deletes a pool that was healthy and as configured when it
\* was listed, nor one that is not ours and that no entry names.
THEOREM ConfiguredPoolsKept == Spec => ConfiguredPoolKept
<1>1. DeleteInv /\ [Next]_vars =>
        [\A n \in Names : StartsDeleting(n) =>
           /\ ~(~InError(existing[n]) /\ UpToDate(existing[n], n, desired))
           /\ existing[n].static \/ n \in DesiredNames(desired)]_vars
  BY StartedDeletesAllowed DEF MayDelete
<1> QED
  BY <1>1, JustifiedInvariant, PTL DEF Spec, ConfiguredPoolKept

-----------------------------------------------------------------------------
(* The in-use lock. *)

\* The pools a Reconcile plans from carried the labels of the provisioner when
\* it listed them, whatever has become of them since.
ListedLabelled ==
  pc = "plan" => \A n \in Names : Exists(existing[n]) => Labelled(existing[n])

\* No step but List brings new pools before the Plan.
LEMMA ListedNext == IInv /\ ListedLabelled /\ [Next]_vars => ListedLabelled'
<1> SUFFICES ASSUME IInv, ListedLabelled, [Next]_vars, pc' = "plan"
             PROVE  \A n \in Names : Exists(existing'[n]) => Labelled(existing'[n])
  BY DEF ListedLabelled
<1>1. CASE List
  BY <1>1 DEF List, Return, IInv, PoolsLabelled
<1>2. CASE pc = "plan" /\ existing' = existing
  BY <1>2 DEF ListedLabelled
<1>3. CASE User \/ Informers \/ Resync \/ CreateDeadline \/ UNCHANGED vars
  BY <1>2, <1>3 DEF User, EditConfig, SliceAcquire, SliceRelease, Informers, SeeConfig,
                    SeeSlices, SeeNodes, Resync, CreateDeadline, frame, vars
<1>4. CASE \E n \in Names : Gke(n)
  BY <1>2, <1>4 DEF Gke, OpEnds, CreateOpDone, CreateOpFails, DeleteOpDone, DeleteOpFails,
                    PoolFails, NodeRegisters, NodeLost, frame
<1>5. CASE \E j \in Jobs2Do : Worker(j)
  BY <1>2, <1>5 DEF Worker, StartDelete, MarkDelete, RequestDelete, AwaitDelete,
                    StartCreate, RequestCreate, AwaitCreate
<1>6. CASE Start \/ Plan \/ Crash
  BY <1>2, <1>6 DEF Start, Plan, Return, Crash
<1>7. CASE BulkReturn
  BY <1>7 DEF BulkReturn, Return, NextPhase, DeletePhases
<1> QED
  BY <1>1, <1>3, <1>4, <1>5, <1>6, <1>7 DEF Next, Reconcile

\* A plan keeps every pool that the caches show in use when it is made, and its
\* capacity, also when DiffStaticNodePools found no reason to read the Slices.
LEMMA PlanHonoursLock ==
  ASSUME CapacityHypotheses, IInv, ListedLabelled, Plan, pc' = "missing"
  PROVE  LET inUse == GetInUseNodepools(seen.slices, seen.nodes)
         IN  /\ \A j \in plan'["missing"] \union plan'["update"] : j[1] \notin inUse
             /\ \A j \in plan'["create"] : \A n \in inUse \ {j[1]} :
                  LET p == existing[n]
                  IN  Exists(p) /\ ~InError(p) /\ p.hash # NoHash
                        => p.sub # desired[j[2]].sub
<1> DEFINE inUse == GetInUseNodepools(seen.slices, seen.nodes)
<1>t. TypeInv
  BY DEF IInv
<1>1. /\ plan' = ReconcilePlan(existing, desired, locked')
      /\ locked' = IF ReadsLock(existing, desired) THEN inUse ELSE {}
      /\ pc = "plan"
  BY DEF Plan, Return
<1>2. inUse \subseteq Names /\ locked' \subseteq Names
  BY <1>t, <1>1 DEF TypeInv, TypeOK, GetInUseNodepools, Node
<1>3. /\ plan'["missing"] = FilterLocked(ToDeleteMissing(existing, desired), locked')
      /\ plan'["error"] = ToDeleteError(existing, desired)
      /\ plan'["update"] = FilterLocked(ToDeleteUpdate(existing, desired), locked')
  BY <1>1 DEF ReconcilePlan, Phases
<1>4. ASSUME NEW j \in plan'["missing"] \union plan'["update"] PROVE j[1] \notin inUse
  <2>1. j \in ToDeleteMissing(existing, desired) \union ToDeleteUpdate(existing, desired)
    BY <1>3, <1>4 DEF FilterLocked
  <2>2. locked' = inUse
    BY <1>1, <2>1 DEF ReadsLock
  <2> QED
    BY <1>3, <1>4, <2>2 DEF FilterLocked
<1>5. ASSUME NEW j \in plan'["create"], NEW n \in inUse \ {j[1]},
             Exists(existing[n]), ~InError(existing[n]),
             existing[n].sub = desired[j[2]].sub
      PROVE  FALSE
  <2>1. Labelled(existing[n]) /\ n \in Names
    BY <1>1, <1>2, <1>5 DEF ListedLabelled
  <2>2. /\ desired \in {c.pools : c \in ConfigMaps} \union {<<>>}
        /\ existing \in [Names -> Pool \union {NoPool}]
    BY <1>t DEF TypeInv, TypeOK
  <2>3. DistinctCapacity(desired)
    BY <1>t, DesiredDistinct
  <2>4. \E k \in UNION {plan'[ph] : ph \in DeletePhases} : k[1] = n
    BY <1>1, <1>2, <1>5, <2>1, <2>2, <2>3, PlanCovers
  <2>5. PICK k \in plan'["missing"] \union plan'["error"] \union plan'["update"] : k[1] = n
    BY <2>4 DEF DeletePhases
  <2>6. k \in plan'["error"]
    BY <1>4, <1>5, <2>5
  <2> QED
    BY <1>3, <1>5, <2>5, <2>6 DEF ToDeleteError, Failed, Jobs, Job
<1> QED
  BY <1>4, <1>5

\* When a Reconcile has read the Slices, it plans to delete no healthy pool that
\* its caches show in use and to create none on the capacity of such a pool.
THEOREM LockIsHonoured == CapacityHypotheses => (Spec => LockHonoured)
<1> SUFFICES ASSUME CapacityHypotheses PROVE Spec => LockHonoured
  OBVIOUS
<1>1. Init => ListedLabelled
  BY DEF Init, ListedLabelled
<1>2. IInv /\ ListedLabelled /\ [Next]_vars => ListedLabelled'
  BY ListedNext
<1>3. ASSUME [Next]_vars, pc = "plan", pc' = "missing" PROVE Plan
  <2>1. CASE User \/ Informers \/ Resync \/ CreateDeadline \/ UNCHANGED vars
    BY <1>3, <2>1 DEF User, EditConfig, SliceAcquire, SliceRelease, Informers, SeeConfig,
                      SeeSlices, SeeNodes, Resync, CreateDeadline, vars
  <2>2. CASE \E n \in Names : Gke(n)
    BY <1>3, <2>2 DEF Gke, OpEnds, CreateOpDone, CreateOpFails, DeleteOpDone, DeleteOpFails,
                      PoolFails, NodeRegisters, NodeLost
  <2>3. CASE \E j \in Jobs2Do : Worker(j)
    BY <1>3, <2>3 DEF Worker, StartDelete, MarkDelete, RequestDelete, AwaitDelete,
                      StartCreate, RequestCreate, AwaitCreate
  <2>4. CASE Start \/ List \/ BulkReturn \/ Crash
    BY <1>3, <2>4 DEF Start, List, BulkReturn, Crash, Phases
  <2> QED
    BY <1>3, <2>1, <2>2, <2>3, <2>4 DEF Next, Reconcile
<1>4. IInv /\ ListedLabelled /\ [Next]_vars =>
        [pc = "plan" /\ pc' = "missing" =>
           LET inUse == GetInUseNodepools(seen.slices, seen.nodes)
           IN  /\ \A j \in plan'["missing"] \union plan'["update"] : j[1] \notin inUse
               /\ \A j \in plan'["create"] : \A n \in inUse \ {j[1]} :
                    LET p == existing[n]
                    IN  Exists(p) /\ ~InError(p) /\ p.hash # NoHash
                          => p.sub # desired[j[2]].sub]_vars
  BY <1>3, PlanHonoursLock
<1> QED
  BY <1>1, <1>2, <1>4, CapacityInvariant, PTL DEF Spec, LockHonoured
=============================================================================
