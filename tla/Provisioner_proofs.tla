-------------------------- MODULE Provisioner_proofs --------------------------
(* Proofs about Provisioner. *)
EXTENDS Provisioner, TLAPS

-----------------------------------------------------------------------------
(* The planning operators. *)

\* Among well-typed pools, those that exist are the records other than NoPool
\* (the map lookups of DiffStaticNodePools).
LEMMA PoolTypes ==
  ASSUME NEW p \in Pool \union {NoPool}
  PROVE  Exists(p) <=> p \in Pool
BY DEF Exists, Pool, NoPool, PoolStatus

\* What constructDesiredNodePools yields is a sequence of desired entries.
LEMMA DesiredTypes ==
  ASSUME NEW d \in {c.pools : c \in ConfigMaps} \union {<<>>}
  PROVE  /\ d \in Seq(DesiredEntry)
         /\ DOMAIN d \subseteq Nat
         /\ \A i \in DOMAIN d : d[i] \in DesiredEntry /\ d[i].name \in Names
<1>1. d \in Seq(DesiredEntry)
  <2>1. CASE d = <<>>
    BY <2>1
  <2>2. ASSUME NEW c \in ConfigMaps, d = c.pools PROVE d \in Seq(DesiredEntry)
    BY <2>2, ProvisionerAssumption DEF ConfigMap
  <2> QED
    BY <2>1, <2>2
<1>2. DOMAIN d \subseteq Nat /\ \A i \in DOMAIN d : d[i] \in DesiredEntry
  BY <1>1
<1>3. \A x \in DesiredEntry : x.name \in Names
  BY DEF DesiredEntry
<1> QED
  BY <1>1, <1>2, <1>3

\* The lists that DiffStaticNodePools and the two filters leave hold jobs only.
LEMMA PlanTypes ==
  ASSUME NEW d \in {c.pools : c \in ConfigMaps} \union {<<>>},
         NEW e \in [Names -> Pool \union {NoPool}],
         NEW l \in SUBSET Names
  PROVE  LET p == ReconcilePlan(e, d, l)
         IN  /\ p \in [Phases -> SUBSET (Names \X Nat)]
             /\ p["missing"] \subseteq Names \X {0}
             /\ \A ph \in Phases \ {"missing"} : p[ph] \subseteq Jobs(d, DOMAIN d)
<1> DEFINE p == ReconcilePlan(e, d, l)
<1> DEFINE missing == ToDeleteMissing(e, d)
<1> DEFINE update  == ToDeleteUpdate(e, d)
<1>1. /\ p["missing"] = FilterLocked(missing, l)
      /\ p["error"] = ToDeleteError(e, d)
      /\ p["update"] = FilterLocked(update, l)
      /\ p["create"] = FilterCreate(d, ToCreate(e, d), SkippedUpdates(update, l),
                                    SkippedCapacity(e, missing \union update, l))
      /\ p = [ph \in Phases |-> p[ph]]
  BY DEF ReconcilePlan, Phases
<1>2. p["missing"] \subseteq Names \X {0}
  BY <1>1 DEF FilterLocked, ToDeleteMissing
<1>3. p["error"] \subseteq Jobs(d, DOMAIN d)
  BY <1>1 DEF ToDeleteError, Failed, Jobs
<1>4. p["update"] \subseteq Jobs(d, DOMAIN d)
  BY <1>1 DEF FilterLocked, ToDeleteUpdate, Changed, Jobs
<1>5. p["create"] \subseteq Jobs(d, DOMAIN d)
  BY <1>1 DEF FilterCreate, ToCreate, Absent, Failed, Changed, Jobs
<1>6. Jobs(d, DOMAIN d) \subseteq Names \X Nat
  BY DesiredTypes DEF Jobs, Job
<1>7. \A ph \in Phases : p[ph] \in SUBSET (Names \X Nat)
  BY <1>2, <1>3, <1>4, <1>5, <1>6 DEF Phases
<1> HIDE DEF p
<1> QED
  BY <1>1, <1>2, <1>3, <1>4, <1>5, <1>7 DEF Phases, p

-----------------------------------------------------------------------------
(* Type correctness. *)

\* The provisioner starts well typed, with no leftover of a Reconcile.
THEOREM TypeInit == Init => TypeInv
<1> SUFFICES ASSUME Init PROVE TypeInv
  OBVIOUS
<1> USE ProvisionerAssumption DEF Init
<1>1. pools \in [Names -> Pool \union {NoPool}]
  OBVIOUS
<1>2. existing \in [Names -> Pool \union {NoPool}]
  BY DEF NoPools
<1>3. plan \in [Phases -> SUBSET (Names \X Nat)]
  BY DEF NoPlan
<1>4. plan["missing"] = {} /\ \A ph \in Phases : plan[ph] = {}
  BY DEF NoPlan, Phases
<1>5. seen \in [cm: ConfigMaps, slices: SUBSET Subblocks, nodes: SUBSET Node]
  OBVIOUS
<1>6. TypeOK
  BY <1>1, <1>2, <1>3, <1>4, <1>5 DEF TypeOK, DeletePhases, Phases
<1>7. IdleClean
  BY DEF IdleClean
<1> QED
  BY <1>6, <1>7 DEF TypeInv

\* The part of the state that only the running Reconcile changes.
LEMMA FrameUnchanged ==
  ASSUME TypeInv,
         UNCHANGED <<pc, frame, inProgress>>,
         cm' \in ConfigMaps, slices' \subseteq Subblocks, nodes' \subseteq Node,
         pools' \in [Names -> Pool \union {NoPool}],
         seen' \in [cm: ConfigMaps, slices: SUBSET Subblocks, nodes: SUBSET Node],
         queued' \in BOOLEAN, faults' \in Nat, edits' \in Nat
  PROVE  TypeInv'
BY DEF TypeInv, TypeOK, IdleClean, frame

\* A step with a fault, or without one, keeps the counter of faults in its bound.
LEMMA FaultTypes ==
  ASSUME faults \in Nat
  PROVE  /\ \A kind : Fault(kind) => faults' \in Nat
         /\ NoFault => faults' \in Nat
BY DEF Fault, NoFault

\* Ending a Reconcile.
LEMMA ReturnTypes ==
  ASSUME TypeInv, NEW err \in BOOLEAN, Return(err),
         UNCHANGED <<world, seen, edits>>, inProgress' \subseteq Names, faults' \in Nat
  PROVE  TypeInv'
<1>1. existing' \in [Names -> Pool \union {NoPool}]
  BY DEF Return, ClearFrame, NoPools
<1>2. /\ plan' \in [Phases -> SUBSET (Names \X Nat)]
      /\ \A ph \in Phases : plan'[ph] = {}
  BY DEF Return, ClearFrame, NoPlan
<1>3. "missing" \in Phases
  BY DEF Phases
<1>4. pc' = "idle" /\ queued' \in BOOLEAN
  BY DEF Return, TypeInv, TypeOK
<1>5. TypeOK'
  BY <1>1, <1>2, <1>3, <1>4 DEF Return, ClearFrame, TypeInv, TypeOK, world
<1>6. IdleClean'
  BY <1>4 DEF Return, ClearFrame, IdleClean, Phases
<1> QED
  BY <1>5, <1>6 DEF TypeInv

\* A step of the goroutines of a bulk operation.
LEMMA WorkerTypes ==
  ASSUME TypeInv, pc \in Phases,
         UNCHANGED <<cm, slices, nodes, seen, queued, pc, desired, existing, locked, edits>>,
         plan' = plan \/ (\E j : plan' = [plan EXCEPT ![pc] = @ \ {j}]),
         marking' \union requesting' \union waiting'
           \subseteq plan[pc] \union marking \union requesting \union waiting,
         failed' \in BOOLEAN, expired' \in BOOLEAN,
         inProgress' \subseteq Names, faults' \in Nat,
         pools' \in [Names -> Pool \union {NoPool}]
  PROVE  TypeInv'
<1> USE DEF TypeInv
<1>1. /\ plan' \in [Phases -> SUBSET (Names \X Nat)]
      /\ \A ph \in Phases : plan'[ph] \subseteq plan[ph]
  BY DEF TypeOK
<1>2. /\ plan'["missing"] \subseteq Names \X {0}
      /\ \A ph \in Phases \ {"missing"} : plan'[ph] \subseteq Jobs(desired', DOMAIN desired')
  BY <1>1 DEF TypeOK, Phases
<1>3. \A j \in marking' \union requesting' \union waiting' :
        IF pc' = "missing" THEN j \in Names \X {0} ELSE j \in Jobs(desired', DOMAIN desired')
  BY DEF TypeOK
<1>4. TypeOK'
  BY <1>1, <1>2, <1>3 DEF TypeOK
<1>5. IdleClean'
  BY DEF IdleClean
<1> QED
  BY <1>4, <1>5

\* A job of a phase of the plan is a job (the elements the bulk loops range over).
LEMMA JobTypes ==
  ASSUME TypeInv, pc \in Phases,
         NEW j \in plan[pc] \union marking \union requesting \union waiting
  PROVE  /\ j[1] \in Names
         /\ pc # "missing" => /\ j[2] \in DOMAIN desired
                              /\ j = <<desired[j[2]].name, j[2]>>
                              /\ desired[j[2]] \in DesiredEntry
<1>1. \A i \in DOMAIN desired : desired[i] \in DesiredEntry /\ desired[i].name \in Names
  BY DesiredTypes DEF TypeInv, TypeOK
<1>2. IF pc = "missing" THEN j \in Names \X {0} ELSE j \in Jobs(desired, DOMAIN desired)
  BY DEF TypeInv, TypeOK
<1> QED
  BY <1>1, <1>2 DEF Jobs, Job

\* Changing the status of a pool that exists, as GKE does, keeps the pools well
\* typed.
LEMMA SetStatusTypes ==
  ASSUME NEW n \in Names, NEW st \in PoolStatus,
         pools \in [Names -> Pool \union {NoPool}], Exists(pools[n]), SetStatus(n, st)
  PROVE  pools' \in [Names -> Pool \union {NoPool}]
<1>1. pools[n] \in Pool
  BY PoolTypes
<1>2. [pools[n] EXCEPT !.status = st] \in Pool
  BY <1>1 DEF Pool
<1> QED
  BY <1>2 DEF SetStatus

\* What StaticNodePoolForSubBlock builds is a pool.
LEMMA NewPoolTypes ==
  ASSUME NEW d \in DesiredEntry
  PROVE  StaticNodePoolForSubBlock(d) \in Pool
BY DEF StaticNodePoolForSubBlock, Pool, PoolStatus, NodePoolHash, DesiredEntry

\* An accepted delete request keeps the pools well typed.
LEMMA DeleteAcceptedTypes ==
  ASSUME NEW n \in Names, pools \in [Names -> Pool \union {NoPool}], DeleteAccepted(n)
  PROVE  pools' \in [Names -> Pool \union {NoPool}]
BY SetStatusTypes DEF DeleteAccepted, Exists, PoolStatus

\* Every step of the manager, of its goroutines and of GKE keeps the state well
\* typed, and a Reconcile that ends leaves nothing behind.
LEMMA TypeNext == TypeInv /\ [Next]_vars => TypeInv'
<1> SUFFICES ASSUME TypeInv, [Next]_vars PROVE TypeInv'
  OBVIOUS
<1> USE DEF TypeInv
<1>t. /\ cm \in ConfigMaps /\ slices \subseteq Subblocks /\ nodes \subseteq Node
      /\ pools \in [Names -> Pool \union {NoPool}]
      /\ seen \in [cm: ConfigMaps, slices: SUBSET Subblocks, nodes: SUBSET Node]
      /\ queued \in BOOLEAN /\ failed \in BOOLEAN /\ expired \in BOOLEAN
      /\ inProgress \subseteq Names
      /\ faults \in Nat /\ edits \in Nat
  BY DEF TypeOK
<1>f. (NoFault \/ \E kind : Fault(kind)) => faults' \in Nat
  BY <1>t, FaultTypes
<1>1. CASE User
  <2>1. CASE EditConfig
    BY <2>1, <1>t, FrameUnchanged DEF EditConfig
  <2>2. ASSUME NEW s \in Subblocks, SliceAcquire(s) \/ SliceRelease(s) PROVE TypeInv'
    BY <2>2, <1>t, FrameUnchanged DEF SliceAcquire, SliceRelease, bounds
  <2> QED
    BY <1>1, <2>1, <2>2 DEF User
<1>2. CASE Informers \/ Resync
  BY <1>2, <1>t, FrameUnchanged
     DEF Informers, SeeConfig, SeeSlices, SeeNodes, Resync, world, bounds
<1>3. ASSUME NEW n \in Names, Gke(n) PROVE TypeInv'
  <2>1. CASE CreateOpDone(n)
    BY <2>1, <1>t, SetStatusTypes, FrameUnchanged DEF CreateOpDone, Exists, PoolStatus, bounds
  <2>2. CASE CreateOpFails(n)
    BY <2>2, <1>t, <1>f, SetStatusTypes, FrameUnchanged DEF CreateOpFails, Exists, PoolStatus
  <2>3. CASE DeleteOpDone(n)
    BY <2>3, <1>t, FrameUnchanged DEF DeleteOpDone, bounds
  <2>4. CASE DeleteOpFails(n)
    BY <2>4, <1>t, <1>f, SetStatusTypes, FrameUnchanged DEF DeleteOpFails, Exists, PoolStatus
  <2>5. CASE PoolFails(n)
    BY <2>5, <1>t, <1>f, SetStatusTypes, FrameUnchanged DEF PoolFails, Exists, PoolStatus
  <2>6. CASE NodeRegisters(n)
    <3>1. pools[n] \in Pool
      BY <2>6, <1>t, PoolTypes DEF NodeRegisters, Exists
    <3>2. NodeOf(n) \in Node
      BY <3>1 DEF NodeOf, Node, Pool
    <3> QED
      BY <2>6, <3>2, <1>t, FrameUnchanged DEF NodeRegisters, bounds
  <2>7. CASE NodeLost(n)
    BY <2>7, <1>t, <1>f, FrameUnchanged DEF NodeLost
  <2> QED
    BY <1>3, <2>1, <2>2, <2>3, <2>4, <2>5, <2>6, <2>7 DEF Gke, OpEnds
<1>4. CASE Start
  <2>1. pc = "idle" /\ pc \notin Phases
    BY <1>4 DEF Start, Phases
  <2>2. plan = NoPlan /\ marking = {} /\ requesting = {} /\ waiting = {}
    BY <2>1 DEF IdleClean
  <2>3. desired' \in {c.pools : c \in ConfigMaps} \union {<<>>}
    BY <1>4, <1>t DEF Start, TypeOK
  <2>4. pc' \in {"idle", "list"} /\ queued' \in BOOLEAN
    BY <1>4, <2>1 DEF Start
  <2>5. \A ph \in Phases : plan'[ph] = {}
    BY <1>4, <2>2 DEF Start, NoPlan
  <2>6. TypeOK'
    BY <1>4, <2>2, <2>3, <2>4, <2>5 DEF Start, TypeOK, world, bounds, Phases
  <2>7. IdleClean'
    BY <1>4, <2>2 DEF Start, IdleClean
  <2> QED
    BY <2>6, <2>7
<1>5. CASE List
  <2>1. CASE Fault("list") /\ Return(TRUE)
    BY <1>5, <2>1, <1>t, <1>f, ReturnTypes DEF List
  <2>2. CASE NoFault /\ existing' = pools /\ pc' = "plan"
             /\ UNCHANGED <<queued, desired, locked, plan, marking, requesting, waiting,
                            failed, expired>>
    <3>1. pc \notin Phases
      BY <1>5 DEF List, Phases
    <3>2. plan = NoPlan /\ marking = {} /\ requesting = {} /\ waiting = {}
      BY <3>1 DEF IdleClean
    <3>3. TypeOK'
      BY <1>5, <2>2, <3>2, <1>f DEF List, TypeOK, world
    <3> QED
      BY <2>2, <3>2, <3>3 DEF IdleClean
  <2> QED
    BY <1>5, <2>1, <2>2 DEF List
<1>6. CASE Plan
  <2>1. CASE Return(TRUE)
    BY <1>6, <2>1, <1>t, <1>f, ReturnTypes DEF Plan
  <2>2. CASE ~Return(TRUE)
    <3>1. /\ locked' = IF ReadsLock(existing, desired)
                       THEN GetInUseNodepools(seen.slices, seen.nodes) ELSE {}
          /\ plan' = ReconcilePlan(existing, desired, locked')
          /\ pc' = "missing" /\ faults' \in Nat
          /\ UNCHANGED <<queued, desired, existing, marking, requesting, waiting,
                         failed, expired, world, seen, inProgress, edits>>
      BY <1>6, <2>2, <1>f DEF Plan
    <3>2. pc \notin Phases
      BY <1>6 DEF Plan, Phases
    <3>3. marking = {} /\ requesting = {} /\ waiting = {}
      BY <3>2 DEF IdleClean
    <3>4. locked' \subseteq Names
      BY <3>1, <1>t DEF GetInUseNodepools, Node
    <3>5. /\ plan' \in [Phases -> SUBSET (Names \X Nat)]
          /\ plan'["missing"] \subseteq Names \X {0}
          /\ \A ph \in Phases \ {"missing"} : plan'[ph] \subseteq Jobs(desired, DOMAIN desired)
      BY <3>1, <3>4, PlanTypes DEF TypeOK
    <3>6. TypeOK'
      BY <3>1, <3>3, <3>4, <3>5 DEF TypeOK, world, Phases
    <3>7. IdleClean'
      BY <3>1 DEF IdleClean, Phases
    <3> QED
      BY <3>6, <3>7
  <2> QED
    BY <2>1, <2>2
<1>7. ASSUME NEW j \in Jobs2Do, Worker(j) PROVE TypeInv'
  <2>1. CASE StartDelete(j)
    <3>1. pc \in Phases /\ j \in plan[pc]
      BY <2>1 DEF StartDelete, Launch, DeletePhases, Phases
    <3> QED
      BY <2>1, <3>1, <1>t, WorkerTypes DEF StartDelete, Launch, Finish, world, bounds
  <2>2. CASE MarkDelete(j)
    <3>1. pc \in Phases /\ j \in marking
      BY <2>2 DEF MarkDelete, DeletePhases, Phases
    <3>2. j[1] \in Names
      BY <3>1, JobTypes
    <3> QED
      BY <2>2, <3>1, <3>2, <1>t, WorkerTypes DEF MarkDelete, Request, world, bounds
  <2>3. CASE RequestDelete(j)
    <3>1. pc \in Phases /\ j \in requesting
      BY <2>3 DEF RequestDelete, DeletePhases, Phases
    <3>2. j[1] \in Names
      BY <3>1, JobTypes
    <3>3. pools' \in [Names -> Pool \union {NoPool}]
      BY <2>3, <3>2, <1>t, DeleteAcceptedTypes DEF RequestDelete
    <3>4. /\ UNCHANGED plan
          /\ marking' \union requesting' \union waiting'
               \subseteq marking \union requesting \union waiting
          /\ failed' \in BOOLEAN /\ inProgress' \subseteq Names
      BY <2>3, <3>1, <1>t DEF RequestDelete, FinishDelete, Finish, Wait
    <3>5. faults' \in Nat
      BY <2>3, <1>f DEF RequestDelete
    <3> QED
      BY <2>3, <3>1, <3>3, <3>4, <3>5, <1>t, WorkerTypes DEF RequestDelete
  <2>4. CASE AwaitDelete(j)
    <3>1. pc \in Phases
      BY <2>4 DEF AwaitDelete, DeletePhases, Phases
    <3>2. faults' \in Nat
      BY <2>4, <1>f DEF AwaitDelete
    <3> QED
      BY <2>4, <3>1, <3>2, <1>t, WorkerTypes DEF AwaitDelete, FinishDelete, Finish, world
  <2>5. CASE StartCreate(j)
    <3>1. pc \in Phases /\ j \in plan[pc]
      BY <2>5 DEF StartCreate, Launch, Phases
    <3>2. faults' \in Nat
      BY <2>5, <1>f DEF StartCreate
    <3> QED
      BY <2>5, <3>1, <3>2, <1>t, WorkerTypes DEF StartCreate, Launch, Finish, Request, world
  <2>6. CASE RequestCreate(j)
    <3>1. pc \in Phases /\ pc # "missing" /\ j \in requesting
      BY <2>6 DEF RequestCreate, Phases
    <3>2. j[1] \in Names /\ desired[j[2]] \in DesiredEntry
      BY <3>1, JobTypes
    <3>3. pools' \in [Names -> Pool \union {NoPool}]
      BY <2>6, <3>2, <1>t, NewPoolTypes DEF RequestCreate, CreateAccepted
    <3>4. faults' \in Nat
      BY <2>6, <1>f DEF RequestCreate
    <3> QED
      BY <2>6, <3>1, <3>3, <3>4, <1>t, WorkerTypes DEF RequestCreate, Finish, Wait
  <2>7. CASE AwaitCreate(j)
    <3>1. pc \in Phases
      BY <2>7 DEF AwaitCreate, Phases
    <3>2. faults' \in Nat
      BY <2>7, <1>f DEF AwaitCreate
    <3> QED
      BY <2>7, <3>1, <3>2, <1>t, WorkerTypes DEF AwaitCreate, Finish, world
  <2> QED
    BY <1>7, <2>1, <2>2, <2>3, <2>4, <2>5, <2>6, <2>7 DEF Worker
<1>8. CASE BulkReturn
  <2>1. CASE Return(failed)
    BY <1>8, <2>1, <1>t, ReturnTypes DEF BulkReturn, bounds
  <2>2. CASE pc \in DeletePhases /\ pc' = NextPhase[pc] /\ UNCHANGED <<queued, frame>>
    <3>1. pc' \in Phases /\ marking = {} /\ requesting = {} /\ waiting = {}
      BY <1>8, <2>2 DEF BulkReturn, NextPhase, DeletePhases, Phases
    <3>2. TypeOK'
      BY <1>8, <2>2, <3>1 DEF BulkReturn, TypeOK, frame, world, bounds
    <3> QED
      BY <3>1, <3>2 DEF IdleClean
  <2> QED
    BY <1>8, <2>1, <2>2 DEF BulkReturn
<1>9. CASE CreateDeadline
  <2>1. pc \in Phases
    BY <1>9 DEF CreateDeadline, Phases
  <2> QED
    BY <1>9, <2>1, <1>t, <1>f, WorkerTypes DEF CreateDeadline, world
<1>10. CASE Crash
  <2>1. Fault("crash") /\ pc' = "idle" /\ ClearFrame /\ inProgress' = {}
        /\ seen' = [cm |-> cm, slices |-> slices, nodes |-> nodes]
        /\ queued' \in BOOLEAN /\ UNCHANGED <<world, edits>>
    BY <1>10 DEF Crash
  <2>2. existing' \in [Names -> Pool \union {NoPool}]
    BY <2>1 DEF ClearFrame, NoPools
  <2>3. /\ plan' \in [Phases -> SUBSET (Names \X Nat)]
        /\ \A ph \in Phases : plan'[ph] = {}
    BY <2>1 DEF ClearFrame, NoPlan
  <2>4. "missing" \in Phases /\ faults' \in Nat
    BY <2>1, <1>f DEF Phases
  <2>5. TypeOK'
    BY <2>1, <2>2, <2>3, <2>4, <1>t DEF ClearFrame, TypeOK, world
  <2>6. IdleClean'
    BY <2>1 DEF ClearFrame, IdleClean
  <2> QED
    BY <2>5, <2>6
<1>11. CASE UNCHANGED vars
  BY <1>11, <1>t, FrameUnchanged DEF vars, world, frame, bounds
<1> QED
  BY <1>1, <1>2, <1>3, <1>4, <1>5, <1>6, <1>7, <1>8, <1>9, <1>10, <1>11 DEF Next, Reconcile

\* Every variable keeps its type in every behaviour, whatever the names,
\* subblocks, ConfigMaps, faults and concurrency.
THEOREM TypeCorrect == Spec => []TypeOK
<1>1. TypeInv => TypeOK
  BY DEF TypeInv
<1> QED
  BY <1>1, TypeInit, TypeNext, PTL DEF Spec

-----------------------------------------------------------------------------
(* Capacity: no two pools consume the same subblock. *)

\* A pool that the provisioner builds carries a hash: none is the absent label.
LEMMA HashIsNotAbsent == \A d \in DesiredEntry : d # NoHash
<1> SUFFICES ASSUME NEW d \in DesiredEntry, d = NoHash PROVE FALSE
  OBVIOUS
<1>1. DOMAIN d = {"name", "sub", "cfg"}
  BY DEF DesiredEntry
<1>2. DOMAIN d = {"hash"}
  BY DEF NoHash
<1> QED
  BY <1>1, <1>2

\* If no ConfigMap names a subblock twice, two entries of one configuration are
\* for different subblocks (constructDesiredNodePools keeps the subblock).
LEMMA DesiredDistinct ==
  ASSUME CapacityHypotheses, TypeInv
  PROVE  DistinctCapacity(desired)
<1>1. desired \in {c.pools : c \in ConfigMaps} \union {<<>>}
  BY DEF TypeInv, TypeOK
<1>2. CASE desired = <<>>
  BY <1>2 DEF DistinctCapacity
<1>3. ASSUME NEW c \in ConfigMaps, desired = c.pools PROVE DistinctCapacity(desired)
  BY <1>3 DEF CapacityHypotheses
<1> QED
  BY <1>1, <1>2, <1>3

\* A pool that holds the subblock of an entry to create is deleted first, by one
\* of the three delete lists of the same Reconcile.
LEMMA PlanCovers ==
  ASSUME NEW d \in {c.pools : c \in ConfigMaps} \union {<<>>}, DistinctCapacity(d),
         NEW e \in [Names -> Pool \union {NoPool}],
         NEW l \in SUBSET Names,
         NEW j \in ReconcilePlan(e, d, l)["create"],
         NEW m \in Names, m # j[1], Exists(e[m]), Labelled(e[m]), e[m].sub = d[j[2]].sub
  PROVE  \E k \in UNION {ReconcilePlan(e, d, l)[ph] : ph \in DeletePhases} : k[1] = m
<1> DEFINE missing == ToDeleteMissing(e, d)
<1> DEFINE update  == ToDeleteUpdate(e, d)
<1> DEFINE p == ReconcilePlan(e, d, l)
<1>1. /\ p["missing"] = FilterLocked(missing, l)
      /\ p["error"] = ToDeleteError(e, d)
      /\ p["update"] = FilterLocked(update, l)
      /\ p["create"] = FilterCreate(d, ToCreate(e, d), SkippedUpdates(update, l),
                                    SkippedCapacity(e, missing \union update, l))
  BY DEF ReconcilePlan, Phases
<1>2. PICK i \in DOMAIN d : j = <<d[i].name, i>>
  BY <1>1 DEF FilterCreate, ToCreate, Absent, Failed, Changed, Jobs, Job
<1>3. e[m].sub \notin SkippedCapacity(e, missing \union update, l)
  BY <1>1 DEF FilterCreate
<1>4. ASSUME NEW k \in missing \union update, k[1] = m
      PROVE  k \in FilterLocked(missing, l) \union FilterLocked(update, l)
  BY <1>3, <1>4 DEF SkippedCapacity, FilterLocked
<1>5. CASE m \notin DesiredNames(d)
  <2>1. <<m, 0>> \in missing
    BY <1>5 DEF ToDeleteMissing, Labelled
  <2>2. <<m, 0>> \in p["missing"] \union p["update"]
    BY <2>1, <1>4, <1>1
  <2> QED
    BY <2>2 DEF DeletePhases
<1>6. ASSUME NEW k \in DOMAIN d, d[k].name = m
      PROVE  \E x \in p["error"] \union p["missing"] \union p["update"] : x[1] = m
  <2>1. k # i
    BY <1>2, <1>6
  <2>2. d[k].sub # e[m].hash.sub
    BY <2>1, <1>2 DEF DistinctCapacity, Labelled
  <2>3. Outdated(e[m], d[k])
    BY <2>2 DEF Outdated, NodePoolHash, Labelled
  <2>4. CASE InError(e[m])
    <3>1. <<m, k>> \in ToDeleteError(e, d)
      BY <2>4, <1>6 DEF ToDeleteError, Failed, Jobs, Job
    <3> QED
      BY <3>1, <1>1
  <2>5. CASE ~InError(e[m])
    <3>1. <<m, k>> \in update
      BY <2>3, <2>5, <1>6 DEF ToDeleteUpdate, Changed, Jobs, Job
    <3>2. <<m, k>> \in p["missing"] \union p["update"]
      BY <3>1, <1>4, <1>1
    <3> QED
      BY <3>2
  <2> QED
    BY <2>4, <2>5
<1> QED
  BY <1>5, <1>6 DEF DesiredNames, DeletePhases

\* What every step but an accepted create request does to the pools.
Persist ==
  \A n \in Names :
    /\ Exists(pools'[n]) => /\ Exists(pools[n])
                            /\ pools'[n].sub = pools[n].sub
                            /\ pools'[n].hash = pools[n].hash
                            /\ pools'[n].static = pools[n].static
    /\ pools[n].status \in {"STOPPING", "NONE"} => pools'[n].status \in {"STOPPING", "NONE"}

\* A step that leaves the pools alone persists them.
LEMMA PersistSame == ASSUME UNCHANGED pools PROVE Persist
BY DEF Persist

\* A step that only moves one pool to a status GKE allows persists them.
LEMMA PersistStatus ==
  ASSUME NEW n \in Names, NEW st \in PoolStatus,
         pools \in [Names -> Pool \union {NoPool}], SetStatus(n, st), Exists(pools[n]),
         pools[n].status # "STOPPING" \/ st = "STOPPING"
  PROVE  Persist
<1>1. pools[n] \in Pool
  BY PoolTypes
<1>2. /\ pools'[n].status = st /\ pools'[n].sub = pools[n].sub
      /\ pools'[n].hash = pools[n].hash /\ pools'[n].static = pools[n].static
  BY <1>1 DEF SetStatus, Pool
<1>3. \A m \in Names \ {n} : pools'[m] = pools[m]
  BY DEF SetStatus
<1> QED
  BY <1>2, <1>3 DEF Persist, Exists

\* GKE, on its own, neither creates a pool nor relabels one, and never brings
\* back one that is being deleted, if no delete operation fails.
LEMMA GkePersists ==
  ASSUME "opDelete" \notin FaultKinds, TypeInv, NEW n \in Names, Gke(n)
  PROVE  Persist
<1>t. pools \in [Names -> Pool \union {NoPool}]
  BY DEF TypeInv, TypeOK
<1>1. CASE CreateOpDone(n)
  BY <1>1, <1>t, PersistStatus DEF CreateOpDone, Exists, PoolStatus
<1>2. CASE CreateOpFails(n)
  BY <1>2, <1>t, PersistStatus DEF CreateOpFails, Exists, PoolStatus
<1>3. CASE DeleteOpDone(n)
  BY <1>3, <1>t DEF DeleteOpDone, Persist, Exists, NoPool
<1>4. CASE DeleteOpFails(n)
  BY <1>4 DEF DeleteOpFails, Fault
<1>5. CASE PoolFails(n)
  BY <1>5, <1>t, PersistStatus DEF PoolFails, Exists, PoolStatus
<1>6. CASE NodeRegisters(n) \/ NodeLost(n)
  BY <1>6, PersistSame DEF NodeRegisters, NodeLost
<1> QED
  BY <1>1, <1>2, <1>3, <1>4, <1>5, <1>6 DEF Gke, OpEnds

\* The two parts of the invariant that do not depend on where the Reconcile is.
LEMMA PersistCapacity ==
  ASSUME PoolsLabelled, CapacityExclusive, Persist
  PROVE  PoolsLabelled' /\ CapacityExclusive'
BY DEF PoolsLabelled, CapacityExclusive, Persist, Labelled, Exists

\* The Reconcile does not move.
LEMMA CapacityFrame ==
  ASSUME IInv, Persist, UNCHANGED <<pc, frame>>, TypeInv'
  PROVE  IInv'
<1> USE DEF frame
<1>1. PoolsLabelled' /\ CapacityExclusive'
  BY PersistCapacity DEF IInv
<1>2. Snapshot'
  BY DEF IInv, Snapshot, Persist, Exists
<1>3. \A j \in plan["create"], m \in Names : InTheWay(m, j)' => InTheWay(m, j)
  BY DEF InTheWay, Persist
<1>4. \A j \in requesting, m \in Names : InTheWay(m, j)' => InTheWay(m, j)
  BY DEF InTheWay, Persist
<1>5. StoppingIsFinal'
  <2> SUFFICES ASSUME pc \in DeletePhases, NEW j \in waiting
               PROVE  pools'[j[1]].status \in {"STOPPING", "NONE"}
    BY DEF StoppingIsFinal
  <2>1. j[1] \in Names
    BY JobTypes DEF IInv, DeletePhases, Phases
  <2> QED
    BY <2>1 DEF IInv, StoppingIsFinal, Persist
<1>6. ToBeDeleted' = ToBeDeleted
  BY DEF ToBeDeleted
<1>7. Covered'
  BY <1>3, <1>6 DEF IInv, Covered
<1>8. Unobstructed'
  BY <1>3, <1>4 DEF IInv, Unobstructed
<1> QED
  BY <1>1, <1>2, <1>5, <1>7, <1>8 DEF IInv

\* The Reconcile ends, or has not planned yet.
LEMMA CapacityIdle ==
  ASSUME IInv, Persist, pc' \in {"idle", "list"}, TypeInv'
  PROVE  IInv'
<1>1. PoolsLabelled' /\ CapacityExclusive'
  BY PersistCapacity DEF IInv
<1>2. Snapshot' /\ StoppingIsFinal' /\ Covered' /\ Unobstructed'
  BY DEF Snapshot, StoppingIsFinal, Covered, Unobstructed, DeletePhases
<1> QED
  BY <1>1, <1>2 DEF IInv

\* A goroutine of a bulk delete moves: unless one has failed, a pool drops out of
\* those to be deleted only when it is gone.
LEMMA CapacityDelete ==
  ASSUME IInv, Persist, pc \in DeletePhases, UNCHANGED <<pc, desired, existing>>,
         plan' \in [Phases -> SUBSET (Names \X Nat)],
         plan'["create"] = plan["create"],
         \A j \in waiting' : pools'[j[1]].status \in {"STOPPING", "NONE"},
         ~failed' => /\ ~failed
                     /\ \A m \in Names : m \in ToBeDeleted /\ Exists(pools'[m])
                                           => m \in ToBeDeleted',
         TypeInv'
  PROVE  IInv'
<1>1. PoolsLabelled' /\ CapacityExclusive'
  BY PersistCapacity DEF IInv
<1>2. Snapshot' /\ Unobstructed'
  BY DEF Snapshot, Unobstructed, DeletePhases
<1>3. StoppingIsFinal'
  BY DEF StoppingIsFinal
<1>4. Covered'
  <2> SUFFICES ASSUME ~failed', NEW j \in plan["create"], NEW m \in Names, InTheWay(m, j)'
               PROVE  m \in ToBeDeleted'
    BY DEF Covered
  <2>1. InTheWay(m, j) /\ Exists(pools'[m])
    BY DEF InTheWay, Persist
  <2> QED
    BY <2>1 DEF IInv, Covered
<1> QED
  BY <1>1, <1>2, <1>3, <1>4 DEF IInv

\* A goroutine of a bulk create moves, and no request of its is accepted.
LEMMA CapacityCreate ==
  ASSUME IInv, Persist, pc = "create", UNCHANGED <<pc, desired>>,
         plan'["create"] \union requesting' \subseteq plan["create"] \union requesting,
         TypeInv'
  PROVE  IInv'
<1>1. PoolsLabelled' /\ CapacityExclusive'
  BY PersistCapacity DEF IInv
<1>2. Snapshot' /\ StoppingIsFinal' /\ Covered'
  BY DEF Snapshot, StoppingIsFinal, Covered, DeletePhases
<1>3. Unobstructed'
  BY DEF IInv, Unobstructed, InTheWay, Persist
<1> QED
  BY <1>1, <1>2, <1>3 DEF IInv

\* GKE accepts the request to create a pool.
LEMMA CapacityAccepted ==
  ASSUME CapacityHypotheses, IInv, pc = "create", UNCHANGED <<pc, desired, plan>>,
         NEW j \in requesting, CreateAccepted(j), requesting' \subseteq requesting,
         TypeInv'
  PROVE  IInv'
<1> DEFINE d == desired[j[2]]
<1>1. /\ j[1] \in Names /\ j[2] \in DOMAIN desired /\ d \in DesiredEntry
      /\ j = <<d.name, j[2]>>
  BY JobTypes DEF IInv, Phases
<1>2. DistinctCapacity(desired)
  BY DesiredDistinct DEF IInv
<1>3. pools \in [Names -> Pool \union {NoPool}]
  BY DEF IInv, TypeInv, TypeOK
<1>4. /\ pools'[j[1]] = StaticNodePoolForSubBlock(d)
      /\ \A m \in Names \ {j[1]} : pools'[m] = pools[m]
  BY <1>1, <1>3 DEF CreateAccepted
<1>5. pools'[j[1]].sub = d.sub
  BY <1>4 DEF StaticNodePoolForSubBlock
<1>6. Labelled(pools'[j[1]])
  <2>1. pools'[j[1]].hash = d
    BY <1>4 DEF StaticNodePoolForSubBlock, NodePoolHash
  <2>2. d.cfg \notin Relabeling
    BY <1>1, <1>2 DEF DistinctCapacity
  <2>3. pools'[j[1]].static = (d.cfg \notin Relabeling)
    BY <1>4 DEF StaticNodePoolForSubBlock
  <2> QED
    BY <2>1, <2>2, <2>3, <1>1, <1>5, HashIsNotAbsent DEF Labelled
<1>7. \A m \in Names \ {j[1]} : Exists(pools[m]) => pools[m].sub # d.sub
  <2> SUFFICES ASSUME NEW m \in Names, m # j[1], Exists(pools[m]), pools[m].sub = d.sub
               PROVE  FALSE
    OBVIOUS
  <2>1. InTheWay(m, j)
    BY DEF InTheWay
  <2> QED
    BY <2>1 DEF IInv, Unobstructed
<1>8. PoolsLabelled'
  BY <1>4, <1>6 DEF IInv, PoolsLabelled
<1>9. CapacityExclusive'
  BY <1>4, <1>5, <1>7 DEF IInv, CapacityExclusive
<1>10. Unobstructed'
  <2> SUFFICES ASSUME NEW k \in plan["create"] \union requesting, NEW m \in Names,
                      InTheWay(m, k)'
               PROVE  FALSE
    BY DEF Unobstructed
  <2>1. m # k[1] /\ Exists(pools'[m]) /\ pools'[m].sub = desired[k[2]].sub
    BY DEF InTheWay
  <2>2. k[2] \in DOMAIN desired /\ k = <<desired[k[2]].name, k[2]>>
    BY JobTypes DEF IInv, Phases
  <2>3. CASE m = j[1]
    <3>1. d.sub = desired[k[2]].sub
      BY <2>1, <2>3, <1>5
    <3>2. k[2] = j[2]
      BY <3>1, <2>2, <1>1, <1>2 DEF DistinctCapacity
    <3> QED
      BY <3>2, <2>1, <2>2, <2>3, <1>1
  <2>4. CASE m # j[1]
    <3>1. InTheWay(m, k)
      BY <2>1, <2>4, <1>4 DEF InTheWay
    <3> QED
      BY <3>1 DEF IInv, Unobstructed
  <2> QED
    BY <2>3, <2>4
<1>11. Snapshot' /\ StoppingIsFinal' /\ Covered'
  BY DEF Snapshot, StoppingIsFinal, Covered, DeletePhases
<1> QED
  BY <1>8, <1>9, <1>10, <1>11 DEF IInv

\* When Reconcile has its diff, every obstacle of an entry to create is on one of
\* the delete lists.
LEMMA CapacityPlan ==
  ASSUME CapacityHypotheses, IInv, Plan, ~Return(TRUE), TypeInv'
  PROVE  IInv'
<1>1. /\ plan' = ReconcilePlan(existing, desired, locked')
      /\ pc = "plan" /\ pc' = "missing"
      /\ UNCHANGED <<pools, desired, existing, marking, requesting, waiting, failed>>
  BY DEF Plan, world
<1>2. PoolsLabelled' /\ CapacityExclusive'
  BY <1>1, PersistSame, PersistCapacity DEF IInv
<1>3. Snapshot' /\ Unobstructed'
  BY <1>1 DEF Snapshot, Unobstructed
<1>4. waiting = {}
  BY <1>1 DEF IInv, TypeInv, IdleClean, Phases
<1>5. StoppingIsFinal'
  BY <1>1, <1>4 DEF StoppingIsFinal
<1>6. ASSUME NEW j \in plan'["create"], NEW m \in Names, InTheWay(m, j)'
      PROVE  m \in ToBeDeleted'
  <2>1. m # j[1] /\ Exists(pools[m]) /\ pools[m].sub = desired[j[2]].sub
    BY <1>6, <1>1 DEF InTheWay
  <2>2. Exists(existing[m]) /\ existing[m].sub = desired[j[2]].sub
    BY <2>1, <1>1 DEF IInv, Snapshot
  <2>3. Labelled(pools[m])
    BY <2>1 DEF IInv, PoolsLabelled
  <2>4. Labelled(existing[m])
    BY <2>1, <2>3, <1>1 DEF IInv, Snapshot, Labelled
  <2>5. /\ desired \in {c.pools : c \in ConfigMaps} \union {<<>>}
        /\ existing \in [Names -> Pool \union {NoPool}]
        /\ locked' \in SUBSET Names
    BY <1>1 DEF IInv, TypeInv, TypeOK
  <2>6. PICK k \in UNION {plan'[ph] : ph \in DeletePhases} : k[1] = m
    BY <2>1, <2>2, <2>4, <2>5, <1>1, PlanCovers, DesiredDistinct DEF IInv
  <2>7. Ahead[pc'] = DeletePhases
    BY <1>1 DEF Ahead
  <2> QED
    BY <2>6, <2>7 DEF ToBeDeleted
<1>7. Covered'
  BY <1>6 DEF Covered
<1> QED
  BY <1>2, <1>3, <1>5, <1>7 DEF IInv

\* Going on to the next bulk operation: the create phase starts only after every
\* delete list was worked off without an error.
LEMMA CapacityNextPhase ==
  ASSUME IInv, BulkReturn, ~Return(failed), TypeInv'
  PROVE  IInv'
<1>1. /\ pc \in DeletePhases /\ ~failed /\ pc' = NextPhase[pc]
      /\ plan[pc] = {} /\ marking = {} /\ requesting = {} /\ waiting = {}
      /\ UNCHANGED <<frame, pools>>
  BY DEF BulkReturn, world
<1>2. PoolsLabelled' /\ CapacityExclusive'
  BY <1>1, PersistSame, PersistCapacity DEF IInv
<1>3. Snapshot' /\ StoppingIsFinal'
  BY <1>1 DEF Snapshot, StoppingIsFinal, NextPhase, DeletePhases, frame
<1>4. \A j \in plan["create"], m \in Names : InTheWay(m, j) => m \in ToBeDeleted
  BY <1>1 DEF IInv, Covered
<1>5. \A j, m : InTheWay(m, j)' <=> InTheWay(m, j)
  BY <1>1 DEF InTheWay, frame
<1>6. CASE pc = "update"
  <2>1. ToBeDeleted = {}
    BY <1>1, <1>6 DEF ToBeDeleted, Ahead
  <2>2. pc' = "create"
    BY <1>1, <1>6 DEF NextPhase
  <2>3. Unobstructed'
    BY <2>1, <1>1, <1>4, <1>5 DEF Unobstructed, frame
  <2>4. Covered'
    BY <2>2 DEF Covered, DeletePhases
  <2> QED
    BY <1>2, <1>3, <2>3, <2>4 DEF IInv
<1>7. CASE pc \in {"missing", "error"}
  <2>1. pc' \in {"error", "update"} /\ Ahead[pc] = {pc} \union Ahead[pc']
    BY <1>1, <1>7 DEF NextPhase, Ahead, DeletePhases
  <2>2. ToBeDeleted \subseteq ToBeDeleted'
    BY <2>1, <1>1 DEF ToBeDeleted, frame
  <2>3. Covered'
    BY <2>2, <1>1, <1>4, <1>5 DEF Covered, frame
  <2>4. Unobstructed'
    BY <2>1 DEF Unobstructed
  <2> QED
    BY <1>2, <1>3, <2>3, <2>4 DEF IInv
<1> QED
  BY <1>1, <1>6, <1>7 DEF DeletePhases

\* What is left to do in this phase and the later ones.
Unstarted == UNION {plan[ph] : ph \in Ahead[pc]}

DeleteWorker(j) == StartDelete(j) \/ MarkDelete(j) \/ RequestDelete(j) \/ AwaitDelete(j)

\* A goroutine of a bulk delete leaves the create list alone, and unless it fails
\* it drops no pool from those to be deleted but its own: one that was gone when it
\* sent its request, or whose operation has ended (gke.go:225-242).
LEMMA DeleteProgress ==
  ASSUME TypeInv, NEW j, DeleteWorker(j)
  PROVE  /\ pc \in DeletePhases /\ UNCHANGED <<cm, seen, pc, desired, existing, locked>>
         /\ plan'["create"] = plan["create"]
         /\ ~failed' =>
              /\ ~failed
              /\ ToBeDeleted' \subseteq ToBeDeleted
              /\ \A m \in ToBeDeleted \ ToBeDeleted' :
                   /\ m = j[1] /\ UNCHANGED pools
                   /\ ~Exists(pools[m]) \/ (j \in waiting /\ pools[m].status # "STOPPING")
<1> USE DEF DeleteWorker
<1>t. plan \in [Phases -> SUBSET (Names \X Nat)]
  BY DEF TypeInv, TypeOK
<1>f. /\ pc \in DeletePhases /\ pc \in Phases /\ pc # "create"
      /\ UNCHANGED <<cm, seen, pc, desired, existing, locked>>
  BY DEF StartDelete, MarkDelete, RequestDelete, AwaitDelete, world, DeletePhases, Phases
<1>a. pc \in Ahead[pc] /\ Ahead[pc] \subseteq Phases
  BY <1>f DEF Ahead, DeletePhases, Phases
<1>1. CASE StartDelete(j)
  <2>1. j \in plan[pc] /\ plan' = [plan EXCEPT ![pc] = @ \ {j}]
    BY <1>1 DEF StartDelete, Launch
  <2>2. plan'["create"] = plan["create"]
    BY <2>1, <1>f, <1>t DEF Phases
  <2>3. \A ph \in Phases : plan'[ph] \subseteq plan[ph] /\ plan[ph] \subseteq plan'[ph] \union {j}
    BY <2>1, <1>f, <1>t
  <2>4. ~failed' => ~failed /\ marking' = marking \union {j} /\ UNCHANGED <<requesting, waiting>>
    BY <1>1 DEF StartDelete, Finish
  <2>5. ~failed' => Unstarted' \union marking' = Unstarted \union marking
    <3> SUFFICES ASSUME ~failed' PROVE Unstarted' \union marking' = Unstarted \union marking
      OBVIOUS
    <3>1. Unstarted' \subseteq Unstarted /\ Unstarted \subseteq Unstarted' \union {j}
      BY <2>3, <1>a, <1>f DEF Unstarted
    <3>2. j \in Unstarted
      BY <2>1, <1>a DEF Unstarted
    <3> QED
      BY <3>1, <3>2, <2>4
  <2>6. ~failed' => ToBeDeleted' = ToBeDeleted
    BY <2>4, <2>5, <1>f DEF ToBeDeleted, Unstarted
  <2> QED
    BY <2>2, <2>4, <2>6, <1>f
<1>2. CASE MarkDelete(j)
  <2>1. /\ j \in marking /\ UNCHANGED <<plan, waiting, failed>>
        /\ marking' = marking \ {j} /\ requesting' = requesting \union {j}
    BY <1>2 DEF MarkDelete, Request
  <2>2. ToBeDeleted' = ToBeDeleted
    BY <2>1, <1>f DEF ToBeDeleted
  <2> QED
    BY <2>1, <2>2, <1>f
<1>3. CASE RequestDelete(j) \/ AwaitDelete(j)
  <2>1. j \in requesting \union waiting /\ UNCHANGED plan
    BY <1>3 DEF RequestDelete, AwaitDelete
  <2>2. ~failed' =>
          /\ ~failed
          /\ \/ /\ marking' = marking \ {j}
                /\ requesting' = requesting \ {j} /\ waiting' = waiting \ {j}
                /\ UNCHANGED pools
                /\ \/ ~Exists(pools[j[1]])
                   \/ j \in waiting /\ pools[j[1]].status # "STOPPING"
             \/ /\ UNCHANGED marking
                /\ requesting' = requesting \ {j} /\ waiting' = waiting \union {j}
    BY <1>3 DEF RequestDelete, AwaitDelete, FinishDelete, Finish, Wait, world
  <2>3. Unstarted' = Unstarted
    BY <2>1, <1>f DEF Unstarted
  <2> DEFINE A == Unstarted \union marking \union requesting \union waiting
  <2>4. ToBeDeleted = {x[1] : x \in A} /\ ToBeDeleted' = {x[1] : x \in A'}
    BY DEF ToBeDeleted, Unstarted
  <2>5. ~failed' => A' \subseteq A
    BY <2>1, <2>2, <2>3
  <2>6. ASSUME ~failed', NEW x \in A \ A'
        PROVE  /\ x = j /\ UNCHANGED pools
               /\ ~Exists(pools[j[1]]) \/ (j \in waiting /\ pools[j[1]].status # "STOPPING")
    BY <2>1, <2>2, <2>3, <2>6
  <2> HIDE DEF A
  <2>7. ASSUME ~failed', NEW m \in ToBeDeleted \ ToBeDeleted'
        PROVE  \E x \in A \ A' : x[1] = m
    BY <2>4, <2>7
  <2>8. ~failed' => ToBeDeleted' \subseteq ToBeDeleted
    BY <2>4, <2>5
  <2> QED
    BY <2>1, <2>2, <2>6, <2>7, <2>8, <1>f
<1> QED
  BY <1>1, <1>2, <1>3

\* To the pools it does no more than to accept a deletion, which its job then
\* waits for (gke.go:225-237).
LEMMA DeletePersists ==
  ASSUME TypeInv, NEW j, DeleteWorker(j)
  PROVE  Persist /\ \A k \in waiting' : k \in waiting \/ pools'[k[1]].status = "STOPPING"
<1> USE DEF DeleteWorker
<1>t. pools \in [Names -> Pool \union {NoPool}]
  BY DEF TypeInv, TypeOK
<1>1. CASE StartDelete(j) \/ MarkDelete(j) \/ AwaitDelete(j)
  BY <1>1, PersistSame
     DEF StartDelete, MarkDelete, AwaitDelete, FinishDelete, Finish, Request, world
<1>2. CASE RequestDelete(j)
  <2>1. j[1] \in Names
    BY <1>2, JobTypes DEF RequestDelete, DeletePhases, Phases
  <2>2. ASSUME DeleteAccepted(j[1]) PROVE Persist /\ pools'[j[1]].status = "STOPPING"
    <3>1. SetStatus(j[1], "STOPPING") /\ Exists(pools[j[1]]) /\ pools[j[1]] \in Pool
      BY <2>1, <2>2, <1>t, PoolTypes DEF DeleteAccepted, Exists
    <3>2. pools'[j[1]].status = "STOPPING"
      BY <3>1, <2>1, <1>t DEF SetStatus, Pool
    <3> QED
      BY <3>1, <3>2, <2>1, <2>2, <1>t, PersistStatus DEF PoolStatus, DeleteAccepted
  <2>3. Persist
    BY <1>2, <2>2, PersistSame DEF RequestDelete
  <2>4. \A k \in waiting' : k \in waiting \/ (k = j /\ DeleteAccepted(j[1]))
    BY <1>2 DEF RequestDelete, FinishDelete, Finish, Wait
  <2> QED
    BY <2>2, <2>3, <2>4
<1> QED
  BY <1>1, <1>2

\* Every step of a goroutine of a bulk operation preserves the invariant.
LEMMA CapacityWorker ==
  ASSUME CapacityHypotheses, IInv, NEW j \in Jobs2Do, Worker(j), TypeInv'
  PROVE  IInv'
<1>t. /\ pools \in [Names -> Pool \union {NoPool}]
      /\ plan \in [Phases -> SUBSET (Names \X Nat)]
      /\ plan' \in [Phases -> SUBSET (Names \X Nat)]
  BY DEF IInv, TypeInv, TypeOK
<1>w. \A k \in waiting : pc \in DeletePhases => pools[k[1]].status \in {"STOPPING", "NONE"}
  BY DEF IInv, StoppingIsFinal
<1>1. CASE DeleteWorker(j)
  <2>1. /\ pc \in DeletePhases /\ pc \in Phases /\ UNCHANGED <<pc, desired, existing>>
        /\ plan'["create"] = plan["create"]
    BY <1>1, DeleteProgress DEF IInv, DeletePhases, Phases
  <2>2. Persist
    BY <1>1, DeletePersists DEF IInv
  <2>3. ASSUME NEW k \in waiting' PROVE pools'[k[1]].status \in {"STOPPING", "NONE"}
    <3>1. k \in waiting => k[1] \in Names
      BY <2>1, JobTypes DEF IInv
    <3> QED
      BY <1>1, <2>1, <2>2, <3>1, <1>w, DeletePersists DEF IInv, Persist
  <2>4. ~failed' => /\ ~failed
                    /\ \A m \in Names : m \in ToBeDeleted /\ Exists(pools'[m])
                                          => m \in ToBeDeleted'
    BY <1>1, <2>1, <1>w, DeleteProgress DEF IInv, Exists
  <2> QED
    BY <2>1, <2>2, <2>3, <2>4, <1>t, CapacityDelete
<1>2. CASE StartCreate(j)
  <2>1. Persist
    BY <1>2, PersistSame DEF StartCreate, world
  <2>2. /\ pc = "create" /\ UNCHANGED <<pc, desired>> /\ j \in plan["create"]
        /\ plan' = [plan EXCEPT !["create"] = @ \ {j}]
        /\ requesting' \subseteq requesting \union {j}
    BY <1>2 DEF StartCreate, Launch, Finish, Request
  <2>3. plan'["create"] \subseteq plan["create"]
    BY <2>2, <1>t DEF Phases
  <2> QED
    BY <2>1, <2>2, <2>3, CapacityCreate
<1>3. CASE RequestCreate(j)
  <2>1. /\ pc = "create" /\ j \in requesting /\ requesting' \subseteq requesting
        /\ UNCHANGED <<pc, desired, plan>>
    BY <1>3 DEF RequestCreate, Finish, Wait
  <2>2. CASE CreateAccepted(j)
    BY <2>1, <2>2, CapacityAccepted
  <2>3. CASE UNCHANGED pools
    BY <2>1, <2>3, PersistSame, CapacityCreate
  <2> QED
    BY <1>3, <2>2, <2>3 DEF RequestCreate
<1>4. CASE AwaitCreate(j)
  BY <1>4, PersistSame, CapacityCreate DEF AwaitCreate, Finish, world
<1> QED
  BY <1>1, <1>2, <1>3, <1>4 DEF Worker, DeleteWorker

\* Every step preserves the invariant.
LEMMA CapacityNext ==
  ASSUME CapacityHypotheses, IInv, [Next]_vars
  PROVE  IInv'
<1>t. TypeInv'
  BY TypeNext DEF IInv
<1>1. CASE User
  BY <1>1, <1>t, PersistSame, CapacityFrame DEF User, EditConfig, SliceAcquire, SliceRelease
<1>2. CASE Informers \/ Resync
  BY <1>2, <1>t, PersistSame, CapacityFrame
     DEF Informers, SeeConfig, SeeSlices, SeeNodes, Resync, world
<1>3. ASSUME NEW n \in Names, Gke(n) PROVE IInv'
  <2>1. UNCHANGED <<pc, frame>>
    BY <1>3 DEF Gke, OpEnds, CreateOpDone, CreateOpFails, DeleteOpDone, DeleteOpFails,
                PoolFails, NodeRegisters, NodeLost
  <2> QED
    BY <1>3, <1>t, <2>1, GkePersists, CapacityFrame DEF IInv, CapacityHypotheses
<1>4. CASE Start
  BY <1>4, <1>t, PersistSame, CapacityIdle DEF Start, world
<1>5. CASE List
  <2>1. UNCHANGED pools
    BY <1>5 DEF List, world
  <2>2. CASE Return(TRUE)
    BY <2>1, <2>2, <1>t, PersistSame, CapacityIdle DEF Return
  <2>3. CASE existing' = pools /\ pc' = "plan"
    <3>1. PoolsLabelled' /\ CapacityExclusive'
      BY <2>1, PersistSame, PersistCapacity DEF IInv
    <3>2. Snapshot' /\ StoppingIsFinal' /\ Covered' /\ Unobstructed'
      BY <2>1, <2>3 DEF Snapshot, StoppingIsFinal, Covered, Unobstructed, DeletePhases
    <3> QED
      BY <3>1, <3>2, <1>t DEF IInv
  <2> QED
    BY <1>5, <2>2, <2>3 DEF List
<1>6. CASE Plan
  <2>1. CASE Return(TRUE)
    BY <1>6, <2>1, <1>t, PersistSame, CapacityIdle DEF Plan, Return, world
  <2> QED
    BY <1>6, <2>1, <1>t, CapacityPlan
<1>7. ASSUME NEW j \in Jobs2Do, Worker(j) PROVE IInv'
  BY <1>7, <1>t, CapacityWorker
<1>8. CASE BulkReturn
  <2>1. CASE Return(failed)
    BY <1>8, <2>1, <1>t, PersistSame, CapacityIdle DEF BulkReturn, Return, world
  <2> QED
    BY <1>8, <2>1, <1>t, CapacityNextPhase
<1>9. CASE CreateDeadline
  BY <1>9, <1>t, PersistSame, CapacityCreate DEF CreateDeadline, world
<1>10. CASE Crash
  BY <1>10, <1>t, PersistSame, CapacityIdle DEF Crash, world
<1>11. CASE UNCHANGED vars
  BY <1>11, <1>t, PersistSame, CapacityFrame DEF vars, world
<1> QED
  BY <1>1, <1>2, <1>3, <1>4, <1>5, <1>6, <1>7, <1>8, <1>9, <1>10, <1>11 DEF Next, Reconcile

\* The invariant holds at the start.
LEMMA CapacityInit ==
  ASSUME CapacityHypotheses, Init
  PROVE  IInv
<1>1. TypeInv
  BY TypeInit
<1>2. PoolsLabelled /\ CapacityExclusive
  BY DEF Init, CapacityHypotheses, PoolsLabelled, CapacityExclusive
<1>3. Snapshot /\ StoppingIsFinal /\ Covered /\ Unobstructed
  BY DEF Init, Snapshot, StoppingIsFinal, Covered, Unobstructed, DeletePhases
<1> QED
  BY <1>1, <1>2, <1>3 DEF IInv

\* The strengthened invariant: pools hold distinct subblocks, those in the way of
\* a planned create are yet to be deleted, and nothing is in the way once the
\* create phase has begun.
THEOREM CapacityInvariant == CapacityHypotheses => (Spec => []IInv)
<1> SUFFICES ASSUME CapacityHypotheses PROVE Spec => []IInv
  OBVIOUS
<1>1. Init => IInv
  BY CapacityInit
<1>2. IInv /\ [Next]_vars => IInv'
  BY CapacityNext
<1> QED
  BY <1>1, <1>2, PTL DEF Spec

\* Two static pools never hold one subblock, whatever the order in which the
\* goroutines, GKE and the crashes take their steps.
THEOREM CapacityNeverShared == CapacityHypotheses => (Spec => []CapacityExclusive)
<1>1. IInv => CapacityExclusive
  BY DEF IInv
<1> QED
  BY <1>1, CapacityInvariant, PTL
-----------------------------------------------------------------------------
(* In-progress marks. *)

\* Outside a bulk delete nothing is marked.
MarksOfDelete == pc \notin DeletePhases => inProgress = {}

\* A job that no goroutine has taken yet has no goroutine.
JobsApart ==
  pc \in Phases => plan[pc] \intersect (marking \union requesting \union waiting) = {}

\* The inductive invariant of the marks.
MarkInv == TypeInv /\ NoLeakedMark /\ MarksOfDelete /\ JobsApart

\* A step that leaves the Reconcile and its goroutines alone keeps the marks.
LEMMA MarkFrame ==
  ASSUME MarkInv, TypeInv',
         UNCHANGED <<pc, plan, marking, requesting, waiting, inProgress>>
  PROVE  MarkInv'
BY DEF MarkInv, NoLeakedMark, MarksOfDelete, JobsApart

\* Outside the bulk operations there is nothing to mark.
LEMMA MarkIdle ==
  ASSUME TypeInv', pc' \notin Phases, inProgress' = {}
  PROVE  MarkInv'
BY DEF MarkInv, NoLeakedMark, MarksOfDelete, JobsApart

\* A goroutine of a bulk delete ends and its deferred call takes the mark off.
LEMMA MarkFinish ==
  ASSUME MarkInv, TypeInv', pc \in DeletePhases, pc' = pc, plan' = plan,
         NEW j, NEW err, FinishDelete(j, err)
  PROVE  MarkInv'
<1>1. NoLeakedMark'
  BY DEF MarkInv, NoLeakedMark, FinishDelete, Finish
<1>2. JobsApart'
  BY DEF MarkInv, JobsApart, FinishDelete, Finish
<1> QED
  BY <1>1, <1>2 DEF MarkInv, MarksOfDelete

\* A goroutine of a bulk create moves, while nothing is marked.
LEMMA MarkCreate ==
  ASSUME MarkInv, TypeInv', pc = "create", pc' = pc, UNCHANGED inProgress,
         NEW j,
         \/ Launch(j) /\ (\E err : Finish(j, err))
         \/ Launch(j) /\ Request(j)
         \/ UNCHANGED plan /\ (\E err : Finish(j, err))
         \/ UNCHANGED plan /\ Wait(j) /\ j \in requesting
         \/ UNCHANGED <<plan, marking, requesting, waiting>>
  PROVE  MarkInv'
<1>1. inProgress = {}
  BY DEF MarkInv, MarksOfDelete, DeletePhases
<1>2. pc \in Phases
  BY DEF Phases
<1>3. plan \in [Phases -> SUBSET (Names \X Nat)]
  BY DEF MarkInv, TypeInv, TypeOK
<1>4. JobsApart'
  BY <1>2, <1>3 DEF MarkInv, JobsApart, Launch, Finish, Request, Wait
<1> QED
  BY <1>1, <1>4 DEF MarkInv, NoLeakedMark, MarksOfDelete

\* Every step of a goroutine keeps the marks.
LEMMA MarkWorker ==
  ASSUME MarkInv, TypeInv', NEW j, Worker(j)
  PROVE  MarkInv'
<1> USE DEF MarkInv
<1>p. plan \in [Phases -> SUBSET (Names \X Nat)]
  BY DEF TypeInv, TypeOK
<1>d. DeletePhases \subseteq Phases
  BY DEF DeletePhases, Phases
<1>1. CASE StartDelete(j)
  <2>1. j \notin marking \union requesting \union waiting /\ pc' = pc /\ pc \in Phases
    BY <1>1, <1>d DEF StartDelete, Launch, JobsApart
  <2>2. plan'[pc] = plan[pc] \ {j}
    BY <1>1, <1>p, <2>1 DEF StartDelete, Launch
  <2>3. NoLeakedMark'
    BY <1>1, <2>1 DEF StartDelete, Finish, NoLeakedMark
  <2>4. JobsApart'
    BY <1>1, <2>1, <2>2 DEF StartDelete, Finish, JobsApart
  <2> QED
    BY <1>1, <2>1, <2>3, <2>4 DEF StartDelete, MarksOfDelete
<1>2. CASE MarkDelete(j)
  <2>1. NoLeakedMark'
    BY <1>2 DEF MarkDelete, Request, NoLeakedMark
  <2>2. JobsApart' /\ MarksOfDelete'
    BY <1>2 DEF MarkDelete, Request, JobsApart, MarksOfDelete
  <2> QED
    BY <2>1, <2>2
<1>3. CASE RequestDelete(j)
  <2>1. pc' = pc /\ plan' = plan /\ pc \in DeletePhases /\ j \in requesting
    BY <1>3 DEF RequestDelete
  <2>2. \/ \E err : FinishDelete(j, err)
        \/ Wait(j) /\ UNCHANGED inProgress
    BY <1>3 DEF RequestDelete
  <2>3. CASE Wait(j) /\ UNCHANGED inProgress
    BY <2>1, <2>3 DEF Wait, NoLeakedMark, MarksOfDelete, JobsApart
  <2> QED
    BY <2>1, <2>2, <2>3, MarkFinish
<1>4. CASE AwaitDelete(j)
  BY <1>4, MarkFinish DEF AwaitDelete
<1>5. CASE StartCreate(j)
  BY <1>5, MarkCreate DEF StartCreate
<1>6. CASE RequestCreate(j)
  BY <1>6, MarkCreate DEF RequestCreate
<1>7. CASE AwaitCreate(j)
  BY <1>7, MarkCreate DEF AwaitCreate
<1> QED
  BY <1>1, <1>2, <1>3, <1>4, <1>5, <1>6, <1>7 DEF Worker

\* Every step keeps the marks.
LEMMA MarkNext == MarkInv /\ [Next]_vars => MarkInv'
<1> SUFFICES ASSUME MarkInv, [Next]_vars PROVE MarkInv'
  OBVIOUS
<1>t. TypeInv'
  BY TypeNext DEF MarkInv
<1>1. CASE User \/ Informers \/ Resync
  BY <1>1, <1>t, MarkFrame
     DEF User, EditConfig, SliceAcquire, SliceRelease, Informers, SeeConfig, SeeSlices, SeeNodes, Resync, frame
<1>2. CASE \E n \in Names : Gke(n)
  BY <1>2, <1>t, MarkFrame
     DEF Gke, OpEnds, CreateOpDone, CreateOpFails, DeleteOpDone, DeleteOpFails, PoolFails,
         NodeRegisters, NodeLost, frame
<1>3. CASE Start \/ List
  <2>1. pc \notin Phases /\ pc' \notin Phases
    BY <1>3 DEF Start, List, Return, Phases
  <2>2. inProgress = {} /\ inProgress' = inProgress
    BY <1>3, <2>1 DEF Start, List, MarkInv, MarksOfDelete, DeletePhases, Phases
  <2> QED
    BY <1>t, <2>1, <2>2, MarkIdle
<1>4. CASE Plan
  <2>1. inProgress = {} /\ inProgress' = {}
    BY <1>4 DEF Plan, MarkInv, MarksOfDelete, DeletePhases
  <2>2. CASE Return(TRUE)
    BY <1>t, <2>1, <2>2, MarkIdle DEF Return, Phases
  <2>3. marking = {} /\ requesting = {} /\ waiting = {}
    BY <1>4 DEF Plan, MarkInv, TypeInv, IdleClean, Phases
  <2>4. CASE UNCHANGED <<marking, requesting, waiting>>
    BY <1>t, <2>1, <2>3, <2>4 DEF MarkInv, NoLeakedMark, MarksOfDelete, JobsApart
  <2> QED
    BY <1>4, <2>2, <2>4 DEF Plan
<1>5. CASE BulkReturn
  <2>1. inProgress = {} /\ inProgress' = {}
    BY <1>5 DEF BulkReturn, MarkInv, NoLeakedMark
  <2>2. CASE Return(failed)
    BY <1>t, <2>1, <2>2, MarkIdle DEF Return, Phases
  <2>3. CASE UNCHANGED <<queued, frame>>
    BY <1>5, <1>t, <2>1, <2>3 DEF BulkReturn, MarkInv, NoLeakedMark, MarksOfDelete, JobsApart, frame
  <2> QED
    BY <1>5, <2>2, <2>3 DEF BulkReturn
<1>6. CASE \E j \in Jobs2Do : Worker(j)
  BY <1>6, <1>t, MarkWorker
<1>7. CASE CreateDeadline \/ UNCHANGED vars
  BY <1>7, <1>t, MarkFrame DEF CreateDeadline, vars, frame
<1>8. CASE Crash
  BY <1>8, <1>t, MarkIdle DEF Crash, Phases
<1> QED
  BY <1>1, <1>2, <1>3, <1>4, <1>5, <1>6, <1>7, <1>8 DEF Next, Reconcile

\* No return path of DeleteNodePool leaks a mark, whatever names the jobs of one
\* bulk delete share and however the requests fail.
THEOREM MarksNeverLeak == Spec => []NoLeakedMark
<1>1. Init => MarkInv
  BY TypeInit DEF Init, MarkInv, NoLeakedMark, MarksOfDelete, JobsApart, Phases
<1>2. MarkInv /\ [Next]_vars => MarkInv'
  BY MarkNext
<1>3. MarkInv => NoLeakedMark
  BY DEF MarkInv
<1> QED
  BY <1>1, <1>2, <1>3, PTL DEF Spec
=============================================================================
