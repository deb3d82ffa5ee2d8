-------------------------- MODULE SharedPools_proofs --------------------------
(***************************************************************************)
(* Lemmas about a manager of Provisioner that shares the node pools with   *)
(* another one, as both do during a rolling update.  What it listed and    *)
(* what it waits for may then be out of date: the other manager may have   *)
(* deleted a pool and created it again.                                    *)
(*                                                                         *)
(* What saves the day, as long as the ConfigMap does not change, is that   *)
(* no manager ever creates a stray pool, one on a subblock that the        *)
(* configuration wants under another name.  Stray pools can only go away   *)
(* (StrayPersist), so what a manager learns about them stays true.         *)
(*                                                                         *)
(* Two more sections say what the steps of a manager do to the node pools  *)
(* (ManagerTouches), and that a manager at rest touches none.              *)
(***************************************************************************)
EXTENDS Provisioner_proofs

\* Pool n holds a subblock that the configuration wants under another name.
Stray(n) ==
  /\ Exists(pools[n])
  /\ \E i \in DOMAIN cm.pools : cm.pools[i].sub = pools[n].sub /\ cm.pools[i].name # n

\* What any step does to the stray pools.
StrayPersist ==
  \A n \in Names : Stray(n)' =>
    /\ Stray(n)
    /\ pools'[n].sub = pools[n].sub
    /\ pools'[n].hash = pools[n].hash
    /\ pools'[n].static = pools[n].static
    /\ pools[n].status = "STOPPING" => pools'[n].status = "STOPPING"

\* The manager has seen the only ConfigMap there is.
ReadsConfig == seen.cm = cm /\ desired \in {<<>>, cm.pools}

StraySnapshot ==
  pc = "plan" => \A n \in Names : Stray(n) =>
    /\ Exists(existing[n])
    /\ existing[n].sub = pools[n].sub
    /\ existing[n].hash = pools[n].hash
    /\ existing[n].static = pools[n].static

StrayStopping ==
  pc \in DeletePhases => \A j \in waiting : Stray(j[1]) => pools[j[1]].status = "STOPPING"

\* What is invariant of the pools, and of each manager.
PoolInv   == PoolsLabelled /\ CapacityExclusive
SharedInv == /\ TypeInv /\ ReadsConfig /\ StraySnapshot /\ StrayStopping
             /\ Covered /\ Unobstructed

-----------------------------------------------------------------------------
(* Stray pools. *)

\* A step that creates no pool creates no stray pool.
LEMMA PersistStray ==
  ASSUME Persist, UNCHANGED cm
  PROVE  StrayPersist
BY DEF Persist, StrayPersist, Stray, Exists

\* What is in the way of a job is stray, and was in its way before.
LEMMA WayShrinks ==
  ASSUME ReadsConfig, StrayPersist, UNCHANGED <<cm, desired>>,
         NEW j \in Jobs(desired, DOMAIN desired), NEW m \in Names, InTheWay(m, j)'
  PROVE  InTheWay(m, j) /\ Stray(m)'
<1>1. PICK i \in DOMAIN desired : j = <<desired[i].name, i>>
  BY DEF Jobs, Job
<1>2. desired = cm.pools
  BY <1>1 DEF ReadsConfig
<1>3. m # j[1] /\ Exists(pools'[m]) /\ pools'[m].sub = desired[i].sub
  BY <1>1 DEF InTheWay
<1>4. Stray(m)'
  BY <1>1, <1>2, <1>3 DEF Stray
<1>5. Exists(pools[m]) /\ pools[m].sub = pools'[m].sub
  BY <1>4 DEF StrayPersist, Stray
<1> QED
  BY <1>1, <1>3, <1>4, <1>5 DEF InTheWay

\* The jobs of the create list, and in the create phase all jobs, have an entry.
LEMMA CreateJobs ==
  ASSUME TypeInv
  PROVE  /\ plan["create"] \subseteq Jobs(desired, DOMAIN desired)
         /\ pc = "create" => requesting \subseteq Jobs(desired, DOMAIN desired)
BY DEF TypeInv, TypeOK, Phases

-----------------------------------------------------------------------------
(* Steps of the manager, and of the others, while the ConfigMap rests. *)

\* The manager does not move: what it knows of the stray pools stays true.
LEMMA SharedFrame ==
  ASSUME SharedInv, StrayPersist, TypeInv', UNCHANGED <<cm, pc, frame>>, seen'.cm = cm
  PROVE  SharedInv'
<1> USE DEF frame
<1>1. ReadsConfig'
  BY DEF SharedInv, ReadsConfig
<1>2. StraySnapshot'
  BY DEF SharedInv, StraySnapshot, StrayPersist
<1>3. StrayStopping'
  <2> SUFFICES ASSUME pc \in DeletePhases, NEW j \in waiting, Stray(j[1])'
               PROVE  pools'[j[1]].status = "STOPPING"
    BY DEF StrayStopping
  <2>1. j[1] \in Names
    BY JobTypes DEF SharedInv, DeletePhases, Phases
  <2> QED
    BY <2>1 DEF SharedInv, StrayStopping, StrayPersist
<1>4. \A j \in plan["create"], m \in Names : InTheWay(m, j)' => InTheWay(m, j)
  BY WayShrinks, CreateJobs DEF SharedInv
<1>5. pc = "create" =>
        \A j \in requesting, m \in Names : InTheWay(m, j)' => InTheWay(m, j)
  BY WayShrinks, CreateJobs DEF SharedInv
<1>6. ToBeDeleted' = ToBeDeleted
  BY DEF ToBeDeleted
<1>7. Covered'
  BY <1>4, <1>6 DEF SharedInv, Covered
<1>8. Unobstructed'
  BY <1>4, <1>5 DEF SharedInv, Unobstructed
<1> QED
  BY <1>1, <1>2, <1>3, <1>7, <1>8 DEF SharedInv

\* The manager is between two Reconciles, or has not listed the pools yet.
LEMMA SharedIdle ==
  ASSUME TypeInv', ReadsConfig', pc' \in {"idle", "list"}
  PROVE  SharedInv'
BY DEF SharedInv, StraySnapshot, StrayStopping, Covered, Unobstructed, DeletePhases

\* A goroutine of a bulk delete moves: unless one has failed, a stray pool drops
\* out of those to be deleted only when it is gone.
LEMMA SharedDelete ==
  ASSUME SharedInv, StrayPersist, pc \in DeletePhases,
         UNCHANGED <<cm, pc, desired, existing>>, seen'.cm = cm,
         plan'["create"] = plan["create"],
         \A j \in waiting' : Stray(j[1])' => pools'[j[1]].status = "STOPPING",
         ~failed' => /\ ~failed
                     /\ \A m \in Names : m \in ToBeDeleted /\ Stray(m)' => m \in ToBeDeleted',
         TypeInv'
  PROVE  SharedInv'
<1>1. ReadsConfig' /\ StraySnapshot' /\ Unobstructed' /\ StrayStopping'
  BY DEF SharedInv, ReadsConfig, StraySnapshot, Unobstructed, StrayStopping, DeletePhases
<1>2. Covered'
  <2> SUFFICES ASSUME ~failed', NEW j \in plan["create"], NEW m \in Names, InTheWay(m, j)'
               PROVE  m \in ToBeDeleted'
    BY DEF Covered
  <2>1. InTheWay(m, j) /\ Stray(m)'
    BY WayShrinks, CreateJobs DEF SharedInv
  <2> QED
    BY <2>1 DEF SharedInv, Covered
<1> QED
  BY <1>1, <1>2 DEF SharedInv

\* A goroutine of a bulk create moves.
LEMMA SharedCreate ==
  ASSUME SharedInv, StrayPersist, pc = "create",
         UNCHANGED <<cm, pc, desired>>, seen'.cm = cm,
         plan'["create"] \union requesting' \subseteq plan["create"] \union requesting,
         TypeInv'
  PROVE  SharedInv'
<1>1. ReadsConfig' /\ StraySnapshot' /\ StrayStopping' /\ Covered'
  BY DEF SharedInv, ReadsConfig, StraySnapshot, StrayStopping, Covered, DeletePhases
<1>2. Unobstructed'
  <2> SUFFICES ASSUME NEW j \in plan["create"] \union requesting, NEW m \in Names,
                      InTheWay(m, j)'
               PROVE  FALSE
    BY DEF Unobstructed
  <2>1. InTheWay(m, j)
    BY WayShrinks, CreateJobs DEF SharedInv
  <2> QED
    BY <2>1 DEF SharedInv, Unobstructed
<1> QED
  BY <1>1, <1>2 DEF SharedInv

\* GKE accepts a request to create a pool: the pool is not stray, carries its
\* labels, and nobody else is on its subblock.
LEMMA SharedAccepted ==
  ASSUME CapacityHypotheses, SharedInv, PoolInv, pc = "create", UNCHANGED cm,
         NEW j \in requesting, CreateAccepted(j)
  PROVE  StrayPersist /\ PoolInv'
<1> DEFINE d == desired[j[2]]
<1>1. /\ j[1] \in Names /\ j[2] \in DOMAIN desired /\ d \in DesiredEntry
      /\ j = <<d.name, j[2]>>
  BY JobTypes DEF SharedInv, Phases
<1>2. DistinctCapacity(desired) /\ desired = cm.pools
  BY <1>1, DesiredDistinct DEF SharedInv, ReadsConfig
<1>3. pools \in [Names -> Pool \union {NoPool}]
  BY DEF SharedInv, TypeInv, TypeOK
<1>4. /\ pools'[j[1]] = StaticNodePoolForSubBlock(d)
      /\ \A m \in Names \ {j[1]} : pools'[m] = pools[m]
  BY <1>1, <1>3 DEF CreateAccepted
<1>5. pools'[j[1]].sub = d.sub /\ pools'[j[1]].hash = d
      /\ pools'[j[1]].static = (d.cfg \notin Relabeling)
  BY <1>4 DEF StaticNodePoolForSubBlock, NodePoolHash
<1>6. Labelled(pools'[j[1]])
  BY <1>1, <1>2, <1>5, HashIsNotAbsent DEF Labelled, DistinctCapacity
<1>7. \A m \in Names \ {j[1]} : Exists(pools[m]) => pools[m].sub # d.sub
  BY DEF SharedInv, Unobstructed, InTheWay
<1>8. PoolsLabelled'
  BY <1>4, <1>6 DEF PoolInv, PoolsLabelled
<1>9. CapacityExclusive'
  BY <1>4, <1>5, <1>7 DEF PoolInv, CapacityExclusive
<1>10. ~Stray(j[1])'
  <2> SUFFICES ASSUME NEW i \in DOMAIN desired, desired[i].sub = d.sub
               PROVE  desired[i].name = j[1]
    BY <1>2, <1>5 DEF Stray
  <2>1. i = j[2]
    BY <1>1, <1>2 DEF DistinctCapacity
  <2>2. j[1] = d.name
    BY <1>1
  <2> QED
    BY <2>1, <2>2
<1>11. \A m \in Names \ {j[1]} : Stray(m)' => Stray(m)
  BY <1>4 DEF Stray
<1>12. StrayPersist
  BY <1>4, <1>10, <1>11 DEF StrayPersist
<1> QED
  BY <1>8, <1>9, <1>12 DEF PoolInv

\* When the manager has its diff, every stray pool on the subblock of an entry to
\* create is on one of its delete lists.
LEMMA SharedPlan ==
  ASSUME CapacityHypotheses, SharedInv, PoolInv, Plan, ~Return(TRUE), TypeInv'
  PROVE  SharedInv'
<1>1. /\ plan' = ReconcilePlan(existing, desired, locked')
      /\ pc = "plan" /\ pc' = "missing"
      /\ UNCHANGED <<cm, seen, pools, desired, existing, marking, requesting, waiting, failed>>
  BY DEF Plan, world
<1>2. ReadsConfig' /\ StraySnapshot' /\ Unobstructed'
  BY <1>1 DEF SharedInv, ReadsConfig, StraySnapshot, Unobstructed
<1>3. waiting = {}
  BY <1>1 DEF SharedInv, TypeInv, IdleClean, Phases
<1>4. StrayStopping'
  BY <1>1, <1>3 DEF StrayStopping
<1>5. StrayPersist
  BY <1>1, PersistSame, PersistStray
<1>6. plan'["create"] \subseteq Jobs(desired, DOMAIN desired)
  BY <1>1 DEF TypeInv, TypeOK, Phases
<1>7. ASSUME NEW j \in plan'["create"], NEW m \in Names, InTheWay(m, j)'
      PROVE  m \in ToBeDeleted'
  <2>1. m # j[1] /\ pools[m].sub = desired[j[2]].sub
    BY <1>7, <1>1 DEF InTheWay
  <2>2. Stray(m)
    BY <1>1, <1>5, <1>6, <1>7, WayShrinks DEF SharedInv, StrayPersist
  <2>3. Labelled(pools[m])
    BY <2>2 DEF PoolInv, PoolsLabelled, Stray
  <2>4. Exists(existing[m]) /\ existing[m].sub = desired[j[2]].sub /\ Labelled(existing[m])
    BY <2>1, <2>2, <2>3, <1>1 DEF SharedInv, StraySnapshot, Labelled
  <2>5. /\ desired \in {c.pools : c \in ConfigMaps} \union {<<>>}
        /\ existing \in [Names -> Pool \union {NoPool}]
        /\ locked' \in SUBSET Names
    BY <1>1 DEF SharedInv, TypeInv, TypeOK
  <2>6. PICK k \in UNION {plan'[ph] : ph \in DeletePhases} : k[1] = m
    BY <2>1, <2>4, <2>5, <1>1, PlanCovers, DesiredDistinct DEF SharedInv
  <2>7. Ahead[pc'] = DeletePhases
    BY <1>1 DEF Ahead
  <2> QED
    BY <2>6, <2>7 DEF ToBeDeleted
<1>8. Covered'
  BY <1>7 DEF Covered
<1> QED
  BY <1>2, <1>4, <1>8 DEF SharedInv

\* The create phase starts only after every delete list was worked off without
\* an error.
LEMMA SharedNextPhase ==
  ASSUME SharedInv, BulkReturn, ~Return(failed), TypeInv'
  PROVE  SharedInv'
<1>1. /\ pc \in DeletePhases /\ ~failed /\ pc' = NextPhase[pc]
      /\ plan[pc] = {} /\ marking = {} /\ requesting = {} /\ waiting = {}
      /\ UNCHANGED <<cm, seen, frame, pools>>
  BY DEF BulkReturn, world
<1>2. ReadsConfig' /\ StraySnapshot' /\ StrayStopping'
  BY <1>1 DEF SharedInv, ReadsConfig, StraySnapshot, StrayStopping, NextPhase, DeletePhases,
              frame
<1>3. \A j \in plan["create"], m \in Names : InTheWay(m, j) => m \in ToBeDeleted
  BY <1>1 DEF SharedInv, Covered
<1>4. \A j, m : InTheWay(m, j)' <=> InTheWay(m, j)
  BY <1>1 DEF InTheWay, frame
<1>5. CASE pc = "update"
  <2>1. ToBeDeleted = {}
    BY <1>1, <1>5 DEF ToBeDeleted, Ahead
  <2>2. pc' = "create"
    BY <1>1, <1>5 DEF NextPhase
  <2>3. Unobstructed'
    BY <2>1, <1>1, <1>3, <1>4 DEF Unobstructed, frame
  <2>4. Covered'
    BY <2>2 DEF Covered, DeletePhases
  <2> QED
    BY <1>2, <2>3, <2>4 DEF SharedInv
<1>6. CASE pc \in {"missing", "error"}
  <2>1. pc' \in {"error", "update"} /\ Ahead[pc] = {pc} \union Ahead[pc']
    BY <1>1, <1>6 DEF NextPhase, Ahead, DeletePhases
  <2>2. ToBeDeleted \subseteq ToBeDeleted'
    BY <2>1, <1>1 DEF ToBeDeleted, frame
  <2>3. Covered'
    BY <2>2, <1>1, <1>3, <1>4 DEF Covered, frame
  <2>4. Unobstructed'
    BY <2>1 DEF Unobstructed
  <2> QED
    BY <1>2, <2>3, <2>4 DEF SharedInv
<1> QED
  BY <1>1, <1>5, <1>6 DEF DeletePhases

\* A goroutine of a bulk delete starts, marks, requests or has waited.
LEMMA SharedDeleteWorker ==
  ASSUME CapacityHypotheses, SharedInv, PoolInv, TypeInv', NEW j, DeleteWorker(j)
  PROVE  SharedInv' /\ StrayPersist /\ PoolInv'
<1>1. /\ pc \in DeletePhases /\ pc \in Phases
      /\ UNCHANGED <<cm, pc, desired, existing>> /\ seen'.cm = cm
      /\ plan'["create"] = plan["create"]
  BY DeleteProgress DEF SharedInv, ReadsConfig, DeletePhases, Phases
<1>2. Persist
  BY DeletePersists DEF SharedInv
<1>3. StrayPersist /\ PoolInv'
  BY <1>1, <1>2, PersistStray, PersistCapacity DEF PoolInv
<1>w. \A k \in waiting : Stray(k[1]) => pools[k[1]].status = "STOPPING"
  BY <1>1 DEF SharedInv, StrayStopping
<1>4. ASSUME NEW k \in waiting', Stray(k[1])' PROVE pools'[k[1]].status = "STOPPING"
  <2>1. CASE k \in waiting
    <3>1. k[1] \in Names
      BY <1>1, <2>1, JobTypes DEF SharedInv
    <3> QED
      BY <1>3, <1>4, <1>w, <2>1, <3>1 DEF StrayPersist
  <2>2. CASE k \notin waiting
    BY <1>4, <2>2, DeletePersists DEF SharedInv
  <2> QED
    BY <2>1, <2>2
<1>5. ASSUME ~failed', NEW m \in Names, m \in ToBeDeleted, Stray(m)', m \notin ToBeDeleted'
      PROVE  FALSE
  <2>1. Stray(m)
    BY <1>3, <1>5 DEF StrayPersist
  <2>2. m = j[1] /\ j \in waiting /\ pools[m].status # "STOPPING"
    BY <1>5, <2>1, DeleteProgress DEF SharedInv, Stray
  <2> QED
    BY <1>w, <2>1, <2>2
<1>6. ~failed' => ~failed
  BY DeleteProgress DEF SharedInv
<1>7. SharedInv'
  BY <1>1, <1>3, <1>4, <1>5, <1>6, SharedDelete
<1> QED
  BY <1>3, <1>7

\* A goroutine of a bulk create checks, requests or has waited.
LEMMA SharedCreateWorker ==
  ASSUME CapacityHypotheses, SharedInv, PoolInv, TypeInv', NEW j,
         StartCreate(j) \/ RequestCreate(j) \/ AwaitCreate(j)
  PROVE  SharedInv' /\ StrayPersist /\ PoolInv'
<1>t. plan \in [Phases -> SUBSET (Names \X Nat)]
  BY DEF SharedInv, TypeInv, TypeOK
<1>f. /\ pc = "create" /\ UNCHANGED <<cm, seen, pc, desired>> /\ seen'.cm = cm
  BY DEF StartCreate, RequestCreate, AwaitCreate, world, SharedInv, ReadsConfig
<1>1. UNCHANGED pools => StrayPersist /\ PoolInv'
  BY <1>f, PersistSame, PersistStray, PersistCapacity DEF PoolInv
<1>2. CASE StartCreate(j)
  <2>1. /\ UNCHANGED pools /\ j \in plan["create"]
        /\ plan' = [plan EXCEPT !["create"] = @ \ {j}]
        /\ requesting' \subseteq requesting \union {j}
    BY <1>2 DEF StartCreate, Launch, Finish, Request, world
  <2>2. plan'["create"] \subseteq plan["create"]
    BY <2>1, <1>t DEF Phases
  <2> QED
    BY <2>1, <2>2, <1>1, <1>f, SharedCreate
<1>3. CASE RequestCreate(j)
  <2>1. j \in requesting /\ requesting' \subseteq requesting /\ UNCHANGED plan
    BY <1>3 DEF RequestCreate, Finish, Wait
  <2>2. CreateAccepted(j) \/ UNCHANGED pools
    BY <1>3 DEF RequestCreate
  <2>3. StrayPersist /\ PoolInv'
    BY <2>1, <2>2, <1>1, <1>f, SharedAccepted
  <2> QED
    BY <2>1, <2>3, <1>f, SharedCreate
<1>4. CASE AwaitCreate(j)
  BY <1>1, <1>4, <1>f, SharedCreate DEF AwaitCreate, Finish, world
<1> QED
  BY <1>2, <1>3, <1>4

\* Whatever the manager does, it keeps what it relies on, creates no stray pool,
\* and puts no pool on a subblock that another one holds.
LEMMA ManagerStep ==
  ASSUME CapacityHypotheses, SharedInv, PoolInv, TypeInv',
         Informers \/ Resync \/ Reconcile \/ CreateDeadline
  PROVE  SharedInv' /\ StrayPersist /\ PoolInv'
<1>1. UNCHANGED pools /\ UNCHANGED cm => StrayPersist /\ PoolInv'
  BY PersistSame, PersistStray, PersistCapacity DEF PoolInv
<1>2. CASE Informers \/ Resync
  <2>1. UNCHANGED <<cm, pools, pc, frame>>
    BY <1>2 DEF Informers, SeeConfig, SeeSlices, SeeNodes, Resync, world
  <2>2. seen'.cm = cm
    <3>1. seen.cm = cm /\ seen \in [cm: ConfigMaps, slices: SUBSET Subblocks, nodes: SUBSET Node]
      BY DEF SharedInv, ReadsConfig, TypeInv, TypeOK
    <3> QED
      BY <1>2, <3>1 DEF Informers, SeeConfig, SeeSlices, SeeNodes, Resync
  <2> QED
    BY <1>1, <2>1, <2>2, SharedFrame
<1>3. CASE Start
  BY <1>1, <1>3, SharedIdle DEF Start, world, SharedInv, ReadsConfig
<1>4. CASE List
  <2>1. UNCHANGED <<cm, seen, pools>>
    BY <1>4 DEF List, world
  <2>2. CASE Return(TRUE)
    BY <1>1, <2>1, <2>2, SharedIdle DEF Return, ClearFrame, SharedInv, ReadsConfig
  <2>3. CASE existing' = pools /\ pc' = "plan" /\ UNCHANGED desired
    <3>1. \A n : Stray(n)' => Exists(existing'[n])
      BY <2>1, <2>3 DEF Stray
    <3>2. StraySnapshot' /\ StrayStopping' /\ Covered' /\ Unobstructed'
      BY <2>1, <2>3, <3>1
         DEF StraySnapshot, StrayStopping, Covered, Unobstructed, DeletePhases
    <3> QED
      BY <1>1, <2>1, <2>3, <3>2 DEF SharedInv, ReadsConfig
  <2> QED
    BY <1>4, <2>2, <2>3 DEF List
<1>5. CASE Plan
  <2>1. UNCHANGED <<cm, seen, pools>>
    BY <1>5 DEF Plan, world
  <2>2. CASE Return(TRUE)
    BY <1>1, <2>1, <2>2, SharedIdle DEF Return, ClearFrame, SharedInv, ReadsConfig
  <2> QED
    BY <1>1, <1>5, <2>1, <2>2, SharedPlan
<1>6. CASE BulkReturn
  <2>1. UNCHANGED <<cm, seen, pools>>
    BY <1>6 DEF BulkReturn, world
  <2>2. CASE Return(failed)
    BY <1>1, <2>1, <2>2, SharedIdle DEF Return, ClearFrame, SharedInv, ReadsConfig
  <2> QED
    BY <1>1, <1>6, <2>1, <2>2, SharedNextPhase
<1>7. ASSUME NEW j, Worker(j) PROVE SharedInv' /\ StrayPersist /\ PoolInv'
  BY <1>7, SharedDeleteWorker, SharedCreateWorker DEF Worker, DeleteWorker
<1>8. CASE CreateDeadline
  <2>1. UNCHANGED <<cm, seen, pools, pc, desired, plan, requesting>> /\ pc = "create"
    BY <1>8 DEF CreateDeadline, world
  <2> QED
    BY <1>1, <2>1, SharedCreate DEF SharedInv, ReadsConfig
<1> QED
  BY <1>2, <1>3, <1>4, <1>5, <1>6, <1>7, <1>8 DEF Reconcile

-----------------------------------------------------------------------------
(* What a manager does to the node pools.  *)

\* Pool n is created as some entry of the ConfigMap wants it, and nobody else is on
\* its subblock.
Begins(n) ==
  \E i \in DOMAIN cm.pools :
    /\ cm.pools[i].name = n /\ cm.pools[i] \in DesiredEntry
    /\ ~Exists(pools[n])
    /\ \A m \in Names : Exists(pools[m]) => pools[m].sub # cm.pools[i].sub
    /\ pools' = [pools EXCEPT ![n] = StaticNodePoolForSubBlock(cm.pools[i])]

\* A step of a manager as its node pools see it.
Touches == UNCHANGED pools \/ \E n \in Names : DeleteAccepted(n) \/ Begins(n)

\* A create request that GKE accepts is for an entry of the ConfigMap, and on a free
\* subblock.
LEMMA AcceptedBegins ==
  ASSUME SharedInv, pc = "create", NEW j \in requesting, CreateAccepted(j)
  PROVE  Begins(j[1])
<1>1. /\ j[1] \in Names /\ j[2] \in DOMAIN desired /\ desired[j[2]] \in DesiredEntry
      /\ j = <<desired[j[2]].name, j[2]>>
  BY JobTypes DEF SharedInv, Phases
<1>2. desired = cm.pools
  BY <1>1 DEF SharedInv, ReadsConfig
<1>3. \A m \in Names \ {j[1]} : Exists(pools[m]) => pools[m].sub # desired[j[2]].sub
  BY DEF SharedInv, Unobstructed, InTheWay
<1>4. desired[j[2]].name = j[1]
  BY <1>1
<1> QED
  BY <1>1, <1>2, <1>3, <1>4 DEF CreateAccepted, Begins

\* Only the requests of the goroutines touch the node pools.
LEMMA ManagerTouches ==
  ASSUME SharedInv, Informers \/ Resync \/ Reconcile \/ CreateDeadline
  PROVE  Touches
<1>1. CASE Informers \/ Resync \/ CreateDeadline
  BY <1>1 DEF Informers, SeeConfig, SeeSlices, SeeNodes, Resync, CreateDeadline, world, Touches
<1>2. CASE Start \/ List \/ Plan \/ BulkReturn
  BY <1>2 DEF Start, List, Plan, BulkReturn, world, Touches
<1>3. ASSUME NEW j, StartDelete(j) \/ MarkDelete(j) \/ AwaitDelete(j) \/ StartCreate(j)
                      \/ AwaitCreate(j)
      PROVE  Touches
  BY <1>3 DEF StartDelete, MarkDelete, AwaitDelete, StartCreate, AwaitCreate, world, Touches
<1>4. ASSUME NEW j, RequestDelete(j) PROVE Touches
  <2>1. pc \in Phases /\ j \in requesting
    BY <1>4 DEF RequestDelete, DeletePhases, Phases
  <2>2. j[1] \in Names
    BY <2>1, JobTypes DEF SharedInv
  <2> QED
    BY <1>4, <2>2 DEF RequestDelete, Touches
<1>5. ASSUME NEW j, RequestCreate(j) PROVE Touches
  <2>1. pc = "create" /\ j \in requesting
    BY <1>5 DEF RequestCreate
  <2>2. j[1] \in Names
    BY <2>1, JobTypes DEF SharedInv, Phases
  <2>3. CreateAccepted(j) \/ UNCHANGED pools
    BY <1>5 DEF RequestCreate
  <2> QED
    BY <2>1, <2>2, <2>3, AcceptedBegins DEF Touches
<1> QED
  BY <1>1, <1>2, <1>3, <1>4, <1>5 DEF Reconcile, Worker

-----------------------------------------------------------------------------
(* Rest: once the pools are what the ConfigMap asks for, nobody touches them. *)

\* The diff of pools that have converged is empty (DiffStaticNodePools).
LEMMA NoDiff ==
  ASSUME Converged
  PROVE  ToCreate(pools, cm.pools) \union ToDeleteMissing(pools, cm.pools) = {}
<1>1. \A i \in DOMAIN cm.pools :
        LET p == pools[cm.pools[i].name]
        IN  Exists(p) /\ ~InError(p) /\ ~Outdated(p, cm.pools[i])
  BY DEF Converged, Exists, InError
<1>2. ToCreate(pools, cm.pools) = {}
  BY <1>1 DEF ToCreate, Absent, Failed, Changed, Jobs
<1>3. ToDeleteMissing(pools, cm.pools) = {}
  BY DEF Converged, ToDeleteMissing
<1> QED
  BY <1>2, <1>3

\* An empty diff makes an empty plan, whatever is in use (Reconcile's filters).
LEMMA NoPlanFromNoDiff ==
  ASSUME NEW e, NEW d, NEW l, ToCreate(e, d) \union ToDeleteMissing(e, d) = {}
  PROVE  \A ph \in Phases : ReconcilePlan(e, d, l)[ph] = {}
<1>1. Absent(e, d) = {} /\ Failed(e, d) = {} /\ Changed(e, d) = {}
  BY DEF ToCreate, Jobs
<1>2. ToDeleteError(e, d) = {} /\ ToDeleteUpdate(e, d) = {}
  BY <1>1 DEF ToDeleteError, ToDeleteUpdate, Jobs
<1>3. /\ FilterLocked(ToDeleteMissing(e, d), l) = {}
      /\ FilterLocked(ToDeleteUpdate(e, d), l) = {}
  BY <1>2 DEF FilterLocked
<1>4. \A u, c : FilterCreate(d, ToCreate(e, d), u, c) = {}
  BY DEF FilterCreate
<1> QED
  BY <1>2, <1>3, <1>4 DEF ReconcilePlan, Phases

\* The manager does not move, and knows the ConfigMap.
LEMMA RestFrame ==
  ASSUME NothingToDo, seen'.cm = cm',
         UNCHANGED <<cm, pc, desired, existing, plan, marking, requesting, waiting>>
  PROVE  NothingToDo'
BY DEF NothingToDo, Jobs2Do

\* The manager is between two Reconciles.
LEMMA RestIdle ==
  ASSUME TypeInv', pc' = "idle", seen'.cm = cm'
  PROVE  NothingToDo'
<1>1. plan' = NoPlan /\ marking' = {} /\ requesting' = {} /\ waiting' = {}
  BY DEF TypeInv, IdleClean, Phases
<1>2. Jobs2Do' = {}
  BY <1>1 DEF Jobs2Do, NoPlan
<1> QED
  BY <1>2 DEF NothingToDo

\* A manager at rest, whatever step it takes, stays at rest and leaves the pools
\* alone.
LEMMA ManagerRests ==
  ASSUME TypeInv, TypeInv', AtRest, Informers \/ Resync \/ Reconcile \/ CreateDeadline
  PROVE  NothingToDo' /\ UNCHANGED <<cm, pools>>
<1>t. seen \in [cm: ConfigMaps, slices: SUBSET Subblocks, nodes: SUBSET Node]
  BY DEF TypeInv, TypeOK
<1>r. NothingToDo /\ seen.cm = cm /\ Applicable(cm) /\ Converged /\ Jobs2Do = {}
  BY DEF AtRest, NothingToDo
<1>1. CASE Informers \/ Resync
  <2>1. seen'.cm = cm /\ UNCHANGED <<cm, pools>>
    BY <1>1, <1>t, <1>r DEF Informers, SeeConfig, SeeSlices, SeeNodes, Resync, world
  <2> QED
    BY <1>1, <2>1, <1>r, RestFrame DEF Informers, SeeConfig, SeeSlices, SeeNodes, Resync, frame
<1>2. CASE Start
  <2>1. UNCHANGED <<cm, pools, seen>> /\ seen.cm.class = "valid"
    BY <1>2, <1>r DEF Start, world, Applicable
  <2>2. desired' = cm.pools /\ pc' = "list"
    BY <1>2, <2>1, <1>r DEF Start
  <2>3. Jobs2Do' = {}
    BY <1>2, <1>r DEF Start, Jobs2Do
  <2> QED
    BY <2>1, <2>2, <2>3, <1>r DEF NothingToDo
<1>3. CASE List
  <2>1. UNCHANGED <<cm, pools, seen>> /\ pc = "list" /\ desired = cm.pools
    BY <1>3, <1>r DEF List, world, NothingToDo
  <2>2. CASE Return(TRUE)
    BY <2>1, <2>2, <1>r, RestIdle DEF Return
  <2>3. CASE /\ existing' = pools /\ pc' = "plan"
             /\ UNCHANGED <<desired, plan, marking, requesting, waiting>>
    <3>1. Jobs2Do' = {}
      BY <2>3, <1>r DEF Jobs2Do
    <3> QED
      BY <2>1, <2>3, <3>1, <1>r, NoDiff DEF NothingToDo
  <2> QED
    BY <1>3, <2>1, <2>2, <2>3 DEF List
<1>4. CASE Plan
  <2>1. UNCHANGED <<cm, pools, seen>> /\ pc = "plan" /\ desired = cm.pools
    BY <1>4, <1>r DEF Plan, world, NothingToDo
  <2>2. CASE Return(TRUE)
    BY <2>1, <2>2, <1>r, RestIdle DEF Return
  <2>3. CASE /\ plan' = ReconcilePlan(existing, desired, locked') /\ pc' = "missing"
             /\ UNCHANGED <<desired, existing, marking, requesting, waiting>>
    <3>1. ToCreate(existing, desired) \union ToDeleteMissing(existing, desired) = {}
      BY <2>1, <1>r DEF NothingToDo
    <3>2. \A ph \in Phases : plan'[ph] = {}
      BY <2>3, <3>1, NoPlanFromNoDiff
    <3>3. Jobs2Do' = {}
      BY <2>3, <3>2, <1>r DEF Jobs2Do
    <3> QED
      BY <2>1, <2>3, <3>3, <1>r DEF NothingToDo
  <2> QED
    BY <1>4, <2>1, <2>2, <2>3 DEF Plan
<1>5. CASE BulkReturn
  <2>1. UNCHANGED <<cm, pools, seen>>
    BY <1>5 DEF BulkReturn, world
  <2>2. CASE Return(failed)
    BY <2>1, <2>2, <1>r, RestIdle DEF Return
  <2>3. CASE pc \in DeletePhases /\ pc' = NextPhase[pc] /\ UNCHANGED frame
    <3>1. pc' \notin {"idle", "plan"} /\ pc # "idle"
      BY <2>3 DEF DeletePhases, NextPhase
    <3>2. Jobs2Do' = {}
      BY <2>3, <1>r DEF Jobs2Do, frame
    <3> QED
      BY <2>1, <2>3, <3>1, <3>2, <1>r DEF NothingToDo, frame
  <2> QED
    BY <1>5, <2>1, <2>2, <2>3 DEF BulkReturn
<1>6. CASE CreateDeadline
  BY <1>6, <1>r, RestFrame DEF CreateDeadline, world
<1> QED
  BY <1>1, <1>2, <1>3, <1>4, <1>5, <1>6, <1>r DEF Reconcile

\* GKE, on its own, undoes convergence only by the failure of a configured pool.
LEMMA GkeRests ==
  ASSUME TypeInv, Converged, NEW n \in Names, Gke(n), ~ConfiguredPoolFails
  PROVE  Converged' /\ UNCHANGED cm
<1>t. /\ pools \in [Names -> Pool \union {NoPool}]
      /\ cm.pools \in {c.pools : c \in ConfigMaps} \union {<<>>}
  BY DEF TypeInv, TypeOK
<1>c. UNCHANGED cm
  BY DEF Gke, OpEnds, CreateOpDone, CreateOpFails, DeleteOpDone, DeleteOpFails, PoolFails,
         NodeRegisters, NodeLost
<1>1. ASSUME NEW st, SetStatus(n, st), Exists(pools[n])
      PROVE  pools'[n] = [pools[n] EXCEPT !.status = st] /\ pools[n] \in Pool
             /\ \A m \in Names \ {n} : pools'[m] = pools[m]
  BY <1>1, <1>t, PoolTypes DEF SetStatus
<1>2. /\ \A m \in Names \ {n} : pools'[m] = pools[m]
      /\ \/ pools'[n] = pools[n]
         \/ ~Exists(pools'[n]) /\ pools[n].status = "STOPPING"
         \/ /\ pools'[n].static = pools[n].static /\ Exists(pools[n])
            /\ pools[n].status # "RUNNING" \/ (~InError(pools[n]) /\ InError(pools'[n]))
  <2>1. CASE CreateOpDone(n)
    BY <2>1, <1>1 DEF CreateOpDone, Exists, Pool
  <2>2. CASE CreateOpFails(n)
    BY <2>2, <1>1 DEF CreateOpFails, Exists, Pool
  <2>3. CASE DeleteOpDone(n)
    BY <2>3, <1>t DEF DeleteOpDone, Exists, NoPool
  <2>4. CASE DeleteOpFails(n)
    BY <2>4, <1>1 DEF DeleteOpFails, Exists, Pool
  <2>5. CASE PoolFails(n)
    <3>1. SetStatus(n, "ERROR") /\ pools[n].status = "RUNNING" /\ Exists(pools[n])
      BY <2>5 DEF PoolFails, Exists
    <3>2. /\ pools'[n] = [pools[n] EXCEPT !.status = "ERROR"] /\ pools[n] \in Pool
          /\ \A m \in Names \ {n} : pools'[m] = pools[m]
      BY <3>1, <1>1
    <3>3. pools'[n].status = "ERROR" /\ pools'[n].static = pools[n].static
      BY <3>2 DEF Pool
    <3> QED
      BY <3>1, <3>2, <3>3 DEF InError
  <2>6. CASE NodeRegisters(n) \/ NodeLost(n)
    BY <2>6 DEF NodeRegisters, NodeLost
  <2> QED
    BY <2>1, <2>2, <2>3, <2>4, <2>5, <2>6 DEF Gke, OpEnds
<1>3. ASSUME NEW m \in DesiredNames(cm.pools) PROVE pools'[m] = pools[m]
  <2>1. pools[m].status = "RUNNING"
    BY DEF Converged, DesiredNames
  <2>2. ~(~InError(pools[m]) /\ InError(pools'[m]))
    BY DEF ConfiguredPoolFails
  <2>3. m \in Names
    BY <1>t, DesiredTypes DEF DesiredNames
  <2> QED
    BY <2>1, <2>2, <2>3, <1>2
<1>4. ASSUME NEW m \in Names, Exists(pools'[m]), pools'[m].static
      PROVE  Exists(pools[m]) /\ pools[m].static
  BY <1>2, <1>4
<1> QED
  BY <1>c, <1>3, <1>4 DEF Converged, DesiredNames

\* Once the pools are as configured and the manager knows it, only an edit or the
\* failure of a configured pool makes it touch a pool again; for all constants.
THEOREM RestKept == Spec => RestIsKept
<1> DEFINE Kept == AtRest /\ ~AtRest' => cm' # cm \/ ConfiguredPoolFails
<1>1. TypeInv /\ TypeInv' /\ [Next]_vars => [Kept]_vars
  <2> SUFFICES ASSUME TypeInv, TypeInv', Next, AtRest, UNCHANGED cm, ~ConfiguredPoolFails
               PROVE  AtRest'
    OBVIOUS
  <2>1. Applicable(cm)' /\ NothingToDo /\ Converged /\ seen.cm = cm
    BY DEF AtRest, Applicable, NothingToDo
  <2>2. CASE User
    <3>1. UNCHANGED <<pools, seen, pc, desired, existing, plan, marking, requesting, waiting>>
      BY <2>2 DEF User, EditConfig, SliceAcquire, SliceRelease, frame
    <3> QED
      BY <2>1, <3>1, RestFrame DEF AtRest, Converged
  <2>3. CASE Informers \/ Resync \/ Reconcile \/ CreateDeadline
    BY <2>1, <2>3, ManagerRests DEF AtRest, Converged
  <2>4. ASSUME NEW n \in Names, Gke(n) PROVE AtRest'
    <3>1. UNCHANGED <<seen, pc, desired, existing, plan, marking, requesting, waiting>>
      BY <2>4 DEF Gke, OpEnds, CreateOpDone, CreateOpFails, DeleteOpDone, DeleteOpFails,
                  PoolFails, NodeRegisters, NodeLost, frame
    <3> QED
      BY <2>1, <2>4, <3>1, GkeRests, RestFrame DEF AtRest
  <2>5. CASE Crash
    <3>1. UNCHANGED pools /\ pc' = "idle" /\ seen'.cm = cm'
      BY <2>5 DEF Crash, world
    <3> QED
      BY <2>1, <3>1, RestIdle DEF AtRest, Converged
  <2> QED
    BY <2>2, <2>3, <2>4, <2>5 DEF Next
<1>2. Spec => [][Kept]_vars
  BY <1>1, TypeInit, TypeNext, PTL DEF Spec
<1> QED
  BY <1>2 DEF RestIsKept
=============================================================================
