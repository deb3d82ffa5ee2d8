---------------------------- MODULE Success_proofs ----------------------------
(***************************************************************************)
(* Proofs about what a Reconcile of Provisioner achieves: what it has done *)
(* when it ends well (SuccessMeansApplied), that nothing is left over when *)
(* it creates (NothingLeftOver), and that it takes finitely many steps     *)
(* (ReconcileAdvances).                                                    *)
(*                                                                         *)
(* The first argument: an entry of the configuration is either settled,    *)
(* its pool being there and up to date, or has a job on the create list    *)
(* (Decided); the pool in the place of such a job is due to be deleted     *)
(* (Due) and gone when the create phase begins (Creating).  A settled pool *)
(* stays, because a pool is only ever stopped by a goroutine that then     *)
(* waits for the end of the operation (Watched).                           *)
(*                                                                         *)
(* The second: a pool that left the configuration is in use or due to be   *)
(* deleted (LeftoverDue) until it is gone.  The third: StepsLeft weighs    *)
(* each job with the steps that its goroutine has left at most.            *)
(***************************************************************************)
EXTENDS Provisioner_proofs, FiniteSetTheorems

\* The faults that neither end an operation badly nor leave one unobserved.
HarmlessFaults == {"list", "get", "refuse", "deadline", "nodeLoss"}

NamesDistinct(d) == \A i, k \in DOMAIN d : i # k => d[i].name # d[k].name

SuccessHypotheses ==
  /\ CapacityHypotheses
  /\ FaultKinds \subseteq HarmlessFaults
  /\ \A c \in ConfigMaps : NamesDistinct(c.pools)
  /\ \A P \in InitPools : \A n \in Names : P[n].status # "STOPPING"

\* The pool of entry i is there and as configured.
Settled(i) ==
  LET p == pools[desired[i].name]
  IN  p.status \in {"PROVISIONING", "RUNNING"} /\ ~Outdated(p, desired[i])

\* A pool in use holds the name or the subblock of entry i.
Blocked(i) ==
  \E n \in locked : \/ n = desired[i].name
                    \/ Exists(existing[n]) /\ existing[n].sub = desired[i].sub

\* A job is with one goroutine, at one place of its way.
OnePlace ==
  /\ marking \intersect requesting = {} /\ marking \intersect waiting = {}
  /\ requesting \intersect waiting = {}

\* A pool that is being deleted has a goroutine that waits for it.
Watched ==
  \A n \in Names : pools[n].status = "STOPPING" =>
    pc \in DeletePhases /\ \E j \in waiting : j[1] = n

\* Between the List and the Plan a pool can at most finish to start.
Listed ==
  pc = "plan" => \A n \in Names :
    /\ Exists(existing[n]) <=> Exists(pools[n])
    /\ Exists(pools[n]) => existing[n].hash = pools[n].hash
    /\ InError(existing[n]) <=> InError(pools[n])

Decided ==
  pc \in DeletePhases /\ ~failed => \A i \in DOMAIN desired :
    \/ Blocked(i)
    \/ Job(desired, i) \in plan["create"]
    \/ Settled(i) /\ desired[i].name \notin ToBeDeleted

Due ==
  pc \in DeletePhases /\ ~failed => \A i \in DOMAIN desired :
    Job(desired, i) \in plan["create"] /\ Exists(pools[desired[i].name])
      => desired[i].name \in ToBeDeleted

Creating ==
  pc = "create" /\ ~failed => \A i \in DOMAIN desired :
    \/ Blocked(i)
    \/ Job(desired, i) \in plan["create"] \union requesting /\ ~Exists(pools[desired[i].name])
    \/ Settled(i)

\* The inductive invariant, with those of the capacity and of the marks.
SuccessInv ==
  /\ IInv /\ MarkInv
  /\ OnePlace /\ Watched /\ Listed /\ Decided /\ Due /\ Creating

-----------------------------------------------------------------------------
\* constructDesiredNodePools keeps the names of a configuration apart.
LEMMA NamesApart ==
  ASSUME SuccessHypotheses, TypeInv
  PROVE  NamesDistinct(desired)
<1>1. desired \in {c.pools : c \in ConfigMaps} \union {<<>>}
  BY DEF TypeInv, TypeOK
<1>2. CASE desired = <<>>
  BY <1>2 DEF NamesDistinct
<1>3. ASSUME NEW c \in ConfigMaps, desired = c.pools PROVE NamesDistinct(desired)
  BY <1>3 DEF SuccessHypotheses
<1> QED
  BY <1>1, <1>2, <1>3

\* What the pools do while no request of the manager is accepted.
Quiet ==
  \A n \in Names :
    /\ \/ pools'[n].status = pools[n].status
       \/ pools[n].status = "PROVISIONING" /\ pools'[n].status = "RUNNING"
       \/ pools[n].status = "STOPPING" /\ pools'[n].status = "NONE"
    /\ Exists(pools'[n]) => pools'[n].hash = pools[n].hash

\* The entries of the configuration have names of pools.
LEMMA EntryNames ==
  ASSUME TypeInv, NEW i \in DOMAIN desired
  PROVE  desired[i].name \in Names /\ desired[i] \in DesiredEntry
BY DesiredTypes DEF TypeInv, TypeOK

\* A settled entry stays settled when its pool is left alone.
LEMMA SettledKept ==
  ASSUME NEW i, Settled(i), UNCHANGED desired,
         LET n == desired[i].name
         IN  /\ pools'[n].status \in {pools[n].status, "RUNNING"}
             /\ Exists(pools'[n]) => pools'[n].hash = pools[n].hash
  PROVE  Settled(i)'
BY DEF Settled, Outdated, NodePoolHash, Exists

\* GKE, on its own, does no more than to end the operations well: no create
\* operation fails for want of capacity.
LEMMA GkeQuiet ==
  ASSUME SuccessHypotheses, IInv, NEW n \in Names, Gke(n)
  PROVE  Quiet
<1>t. pools \in [Names -> Pool \union {NoPool}] /\ TypeInv
  BY DEF IInv, TypeInv, TypeOK
<1>p. Persist
  BY <1>t, GkePersists DEF SuccessHypotheses, CapacityHypotheses
<1>f. ~Fault("opCreate") /\ ~Fault("opDelete") /\ ~Fault("poolError")
  BY DEF Fault, SuccessHypotheses, HarmlessFaults
<1>1. CASE CreateOpDone(n)
  <2>1. /\ pools[n].status = "PROVISIONING" /\ pools[n] \in Pool
        /\ pools' = [pools EXCEPT ![n].status = "RUNNING"]
    BY <1>1, <1>t, PoolTypes DEF CreateOpDone, SetStatus, Exists
  <2>2. pools'[n].status = "RUNNING" /\ \A m \in Names \ {n} : pools'[m] = pools[m]
    BY <2>1, <1>t DEF Pool
  <2> QED
    BY <2>1, <2>2, <1>p DEF Quiet, Persist
<1>2. CASE CreateOpFails(n)
  <2>1. CapacityTaken(n) /\ Exists(pools[n])
    BY <1>2, <1>f DEF CreateOpFails, Exists
  <2> QED
    BY <2>1 DEF CapacityTaken, IInv, CapacityExclusive
<1>3. CASE DeleteOpDone(n)
  <2>1. pools'[n].status = "NONE" /\ \A m \in Names \ {n} : pools'[m] = pools[m]
    BY <1>3, <1>t DEF DeleteOpDone, NoPool
  <2> QED
    BY <2>1, <1>3, <1>p DEF DeleteOpDone, Quiet, Persist
<1>4. CASE DeleteOpFails(n) \/ PoolFails(n)
  BY <1>4, <1>f DEF DeleteOpFails, PoolFails
<1>5. CASE NodeRegisters(n) \/ NodeLost(n)
  BY <1>5 DEF NodeRegisters, NodeLost, Quiet
<1> QED
  BY <1>1, <1>2, <1>3, <1>4, <1>5 DEF Gke, OpEnds

\* Nothing is being deleted unless a goroutine of a bulk delete waits for it.
LEMMA NothingStops ==
  ASSUME Watched, pc \notin DeletePhases \/ waiting = {}
  PROVE  \A n \in Names : pools[n].status # "STOPPING"
BY DEF Watched

\* The Reconcile does not move.
LEMMA SuccessFrame ==
  ASSUME SuccessInv, Quiet, IInv', MarkInv',
         UNCHANGED <<pc, desired, existing, locked, plan, marking, requesting, waiting, failed>>
  PROVE  SuccessInv'
<1>t. TypeInv
  BY DEF SuccessInv, IInv
<1>1. OnePlace'
  BY DEF SuccessInv, OnePlace
<1>2. Watched'
  BY DEF SuccessInv, Watched, Quiet
<1>3. Listed'
  <2> SUFFICES ASSUME pc = "plan", NEW n \in Names
               PROVE  /\ Exists(existing[n]) <=> Exists(pools'[n])
                      /\ Exists(pools'[n]) => existing[n].hash = pools'[n].hash
                      /\ InError(existing[n]) <=> InError(pools'[n])
    BY DEF Listed
  <2>1. pools[n].status # "STOPPING"
    BY NothingStops DEF SuccessInv, DeletePhases
  <2> QED
    BY <2>1 DEF SuccessInv, Listed, Quiet, Exists, InError
<1>4. ASSUME NEW i \in DOMAIN desired, Settled(i) PROVE Settled(i)'
  <2>1. desired[i].name \in Names
    BY <1>t, EntryNames
  <2>2. pools[desired[i].name].status \in {"PROVISIONING", "RUNNING"}
    BY <1>4 DEF Settled
  <2> QED
    BY <2>1, <2>2, <1>4, SettledKept DEF Quiet
<1>5. \A i \in DOMAIN desired : /\ Blocked(i) => Blocked(i)'
                                /\ Exists(pools'[desired[i].name]) => Exists(pools[desired[i].name])
  BY <1>t, EntryNames DEF Blocked, Quiet, Exists
<1>6. ToBeDeleted' = ToBeDeleted
  BY DEF ToBeDeleted
<1>7. Decided'
  BY <1>4, <1>5, <1>6 DEF SuccessInv, Decided, Job
<1>8. Due'
  BY <1>5, <1>6 DEF SuccessInv, Due, Job
<1>9. Creating'
  BY <1>4, <1>5 DEF SuccessInv, Creating, Job
<1> QED
  BY <1>1, <1>2, <1>3, <1>7, <1>8, <1>9 DEF SuccessInv

\* The Reconcile ends, or has not listed the pools yet.
LEMMA SuccessIdle ==
  ASSUME SuccessInv, UNCHANGED pools, pc \notin DeletePhases \/ waiting = {},
         pc' \in {"idle", "list"}, IInv', MarkInv'
  PROVE  SuccessInv'
<1>1. Watched'
  BY NothingStops DEF SuccessInv, Watched
<1>2. OnePlace'
  BY DEF IInv, TypeInv, IdleClean, OnePlace, Phases
<1>3. Listed' /\ Decided' /\ Due' /\ Creating'
  BY DEF Listed, Decided, Due, Creating, DeletePhases
<1> QED
  BY <1>1, <1>2, <1>3 DEF SuccessInv

\* The diff: an entry whose pool is not there and up to date has a job to create
\* it, unless a pool in use is in its way.
LEMMA PlanDecides ==
  ASSUME NEW d \in {c.pools : c \in ConfigMaps} \union {<<>>}, NamesDistinct(d),
         NEW e, NEW l, NEW i \in DOMAIN d
  PROVE  LET p == ReconcilePlan(e, d, l)
             n == d[i].name
         IN  \/ \E m \in l : m = n \/ (Exists(e[m]) /\ e[m].sub = d[i].sub)
             \/ Job(d, i) \in p["create"]
             \/ /\ Exists(e[n]) /\ ~InError(e[n]) /\ ~Outdated(e[n], d[i])
                /\ \A ph \in DeletePhases : \A j \in p[ph] : j[1] # n
<1> DEFINE n == d[i].name
<1> DEFINE missing == ToDeleteMissing(e, d)
<1> DEFINE update  == ToDeleteUpdate(e, d)
<1> DEFINE p == ReconcilePlan(e, d, l)
<1> DEFINE wanted == Absent(e, d) \union Failed(e, d) \union Changed(e, d)
<1>1. /\ p["missing"] = FilterLocked(missing, l)
      /\ p["error"] = ToDeleteError(e, d)
      /\ p["update"] = FilterLocked(update, l)
      /\ p["create"] = FilterCreate(d, ToCreate(e, d), SkippedUpdates(update, l),
                                    SkippedCapacity(e, missing \union update, l))
  BY DEF ReconcilePlan, Phases
<1>2. \A j \in missing \union update : Exists(e[j[1]])
  BY DEF ToDeleteMissing, ToDeleteUpdate, Changed, Jobs, Job
<1>3. CASE i \in wanted
  <2>1. Job(d, i) \in ToCreate(e, d)
    BY <1>3 DEF ToCreate, Jobs
  <2>2. Job(d, i)[1] = n /\ Job(d, i)[2] = i
    BY DEF Job
  <2>3. CASE n \in SkippedUpdates(update, l)
    BY <2>3 DEF SkippedUpdates, FilterLocked
  <2>4. CASE d[i].sub \in SkippedCapacity(e, missing \union update, l)
    BY <2>4, <1>2 DEF SkippedCapacity, FilterLocked
  <2> HIDE DEF missing, update, n
  <2>5. CASE n \notin SkippedUpdates(update, l)
             /\ d[i].sub \notin SkippedCapacity(e, missing \union update, l)
    BY <2>1, <2>2, <2>5, <1>1 DEF FilterCreate
  <2> QED
    BY <2>3, <2>4, <2>5 DEF n
<1>4. CASE i \notin wanted
  <2>1. Exists(e[n]) /\ ~InError(e[n]) /\ ~Outdated(e[n], d[i])
    BY <1>4 DEF Absent, Failed, Changed
  <2>2. \A j \in missing : j[1] # n
    BY DEF ToDeleteMissing, DesiredNames
  <2>3. \A k \in DOMAIN d : d[k].name = n => k \notin Failed(e, d) \union Changed(e, d)
    BY <1>4 DEF NamesDistinct
  <2>4. \A j \in ToDeleteError(e, d) \union update : j[1] # n
    BY <2>3 DEF ToDeleteError, ToDeleteUpdate, Failed, Changed, Jobs, Job
  <2>5. \A ph \in DeletePhases : \A j \in p[ph] : j[1] # n
    BY <1>1, <2>2, <2>4 DEF DeletePhases, FilterLocked
  <2> QED
    BY <2>1, <2>5
<1> QED
  BY <1>3, <1>4

\* A pool in the place of one to create is deleted first.
LEMMA PlanReplaces ==
  ASSUME NEW d, NEW e, NEW l, NEW i \in DOMAIN d,
         Job(d, i) \in ReconcilePlan(e, d, l)["create"], Exists(e[d[i].name])
  PROVE  \E ph \in DeletePhases : \E j \in ReconcilePlan(e, d, l)[ph] : j[1] = d[i].name
<1> DEFINE update == ToDeleteUpdate(e, d)
<1> DEFINE p == ReconcilePlan(e, d, l)
<1>1. /\ p["error"] = ToDeleteError(e, d)
      /\ p["update"] = FilterLocked(update, l)
      /\ p["create"] = FilterCreate(d, ToCreate(e, d), SkippedUpdates(update, l),
                                    SkippedCapacity(e, ToDeleteMissing(e, d) \union update, l))
  BY DEF ReconcilePlan, Phases
<1>2. PICK k \in Absent(e, d) \union Failed(e, d) \union Changed(e, d) : Job(d, i) = Job(d, k)
  BY <1>1 DEF FilterCreate, ToCreate, Jobs
<1>3. i = k
  BY <1>2 DEF Job
<1>4. i \in Failed(e, d) \union Changed(e, d)
  BY <1>2, <1>3 DEF Absent
<1>5. Job(d, i)[1] = d[i].name
  BY DEF Job
<1>6. CASE i \in Failed(e, d)
  BY <1>1, <1>5, <1>6 DEF ToDeleteError, Jobs, DeletePhases
<1>7. CASE i \in Changed(e, d)
  <2>1. Job(d, i) \in update
    BY <1>7 DEF ToDeleteUpdate, Jobs
  <2>2. Job(d, i)[1] \notin SkippedUpdates(update, l)
    BY <1>1 DEF FilterCreate
  <2>3. Job(d, i) \in FilterLocked(update, l)
    BY <2>1, <2>2 DEF SkippedUpdates
  <2> QED
    BY <2>3, <1>1, <1>5 DEF DeletePhases
<1> QED
  BY <1>4, <1>6, <1>7

\* When Reconcile has its lists, every entry is decided.
LEMMA SuccessPlan ==
  ASSUME SuccessHypotheses, SuccessInv, Plan, ~Return(TRUE), IInv', MarkInv'
  PROVE  SuccessInv'
<1>1. /\ plan' = ReconcilePlan(existing, desired, locked')
      /\ pc = "plan" /\ pc' = "missing"
      /\ UNCHANGED <<pools, desired, existing, marking, requesting, waiting, failed>>
  BY DEF Plan, world
<1>2. /\ TypeInv /\ NamesDistinct(desired)
      /\ desired \in {c.pools : c \in ConfigMaps} \union {<<>>}
      /\ pools \in [Names -> Pool \union {NoPool}]
  BY NamesApart DEF SuccessInv, IInv, TypeInv, TypeOK
<1>3. marking = {} /\ requesting = {} /\ waiting = {}
  BY <1>1, <1>2 DEF TypeInv, IdleClean, Phases
<1>4. OnePlace' /\ Watched'
  BY <1>1, <1>3, NothingStops DEF SuccessInv, OnePlace, Watched
<1>5. Listed' /\ Creating'
  BY <1>1 DEF Listed, Creating
<1>6. ToBeDeleted' = {j[1] : j \in UNION {plan'[ph] : ph \in DeletePhases}}
  BY <1>1, <1>3 DEF ToBeDeleted, Ahead
<1>7. Decided'
  <2> SUFFICES ASSUME NEW i \in DOMAIN desired
               PROVE  \/ Blocked(i)'
                      \/ Job(desired, i) \in plan'["create"]
                      \/ Settled(i)' /\ desired[i].name \notin ToBeDeleted'
    BY <1>1 DEF Decided, Job
  <2> DEFINE n == desired[i].name
  <2>1. n \in Names
    BY <1>2, EntryNames
  <2>2. CASE \E m \in locked' : m = n \/ (Exists(existing[m]) /\ existing[m].sub = desired[i].sub)
    BY <2>2, <1>1 DEF Blocked
  <2>3. CASE /\ Exists(existing[n]) /\ ~InError(existing[n]) /\ ~Outdated(existing[n], desired[i])
             /\ \A ph \in DeletePhases : \A j \in plan'[ph] : j[1] # n
    <3>1. Exists(pools[n]) /\ ~InError(pools[n]) /\ existing[n].hash = pools[n].hash
      BY <2>1, <2>3, <1>1 DEF SuccessInv, Listed
    <3>2. pools[n] \in Pool /\ pools[n].status # "STOPPING"
      BY <2>1, <3>1, <1>1, <1>2, PoolTypes, NothingStops DEF SuccessInv, DeletePhases
    <3>3. pools[n].status \in {"PROVISIONING", "RUNNING"}
      BY <3>1, <3>2 DEF Pool, PoolStatus, InError
    <3>4. Settled(i)'
      BY <3>1, <3>3, <2>3, <1>1 DEF Settled, Outdated, NodePoolHash
    <3>5. n \notin ToBeDeleted'
      BY <2>3, <1>6
    <3> QED
      BY <3>4, <3>5
  <2> QED
    BY <2>2, <2>3, <1>1, <1>2, PlanDecides
<1>8. Due'
  <2> SUFFICES ASSUME NEW i \in DOMAIN desired, Job(desired, i) \in plan'["create"],
                      Exists(pools[desired[i].name])
               PROVE  desired[i].name \in ToBeDeleted'
    BY <1>1 DEF Due, Job
  <2>1. Exists(existing[desired[i].name])
    BY <1>1, <1>2, EntryNames DEF SuccessInv, Listed
  <2> QED
    BY <2>1, <1>1, <1>6, PlanReplaces
<1> QED
  BY <1>4, <1>5, <1>7, <1>8 DEF SuccessInv

\* Going on to the next bulk operation: what was due to be deleted is gone when the
\* create phase begins.
LEMMA SuccessNextPhase ==
  ASSUME SuccessInv, BulkReturn, ~Return(failed), IInv', MarkInv'
  PROVE  SuccessInv'
<1>1. /\ pc \in DeletePhases /\ ~failed /\ pc' = NextPhase[pc]
      /\ plan[pc] = {} /\ marking = {} /\ requesting = {} /\ waiting = {}
      /\ UNCHANGED <<desired, existing, locked, plan, marking, requesting, waiting, failed, pools>>
  BY DEF BulkReturn, world, frame
<1>2. OnePlace' /\ Watched'
  BY <1>1, NothingStops DEF SuccessInv, OnePlace, Watched
<1>3. Listed'
  BY <1>1 DEF Listed, NextPhase, DeletePhases
<1>4. \A i : /\ Blocked(i)' = Blocked(i) /\ Settled(i)' = Settled(i)
             /\ Job(desired, i)' = Job(desired, i)
  BY <1>1 DEF Blocked, Settled, Job
<1>5. CASE pc = "update"
  <2>1. ToBeDeleted = {} /\ pc' = "create"
    BY <1>1, <1>5 DEF ToBeDeleted, Ahead, NextPhase
  <2>2. \A i \in DOMAIN desired : \/ Blocked(i)
                                  \/ Job(desired, i) \in plan["create"]
                                     /\ ~Exists(pools[desired[i].name])
                                  \/ Settled(i)
    BY <2>1, <1>1 DEF SuccessInv, Decided, Due
  <2>3. Creating'
    BY <2>2, <1>1, <1>4 DEF Creating
  <2>4. Decided' /\ Due'
    BY <2>1 DEF Decided, Due, DeletePhases
  <2> QED
    BY <1>2, <1>3, <2>3, <2>4 DEF SuccessInv
<1>6. CASE pc \in {"missing", "error"}
  <2>1. pc' \in {"error", "update"} /\ Ahead[pc] = {pc} \union Ahead[pc']
    BY <1>1, <1>6 DEF NextPhase, Ahead, DeletePhases
  <2>2. ToBeDeleted = ToBeDeleted'
    BY <2>1, <1>1 DEF ToBeDeleted
  <2>3. Decided' /\ Due'
    BY <2>2, <1>1, <1>4 DEF SuccessInv, Decided, Due
  <2>4. Creating'
    BY <2>1 DEF Creating
  <2> QED
    BY <1>2, <1>3, <2>3, <2>4 DEF SuccessInv
<1> QED
  BY <1>1, <1>5, <1>6 DEF DeletePhases

\* A goroutine of a bulk delete moves its job on, ends with an error, or ends when
\* the pool is gone; it stops a pool only to wait for it (gke.go:225-242).
LEMMA DeleteSteps ==
  ASSUME SuccessHypotheses, TypeInv, JobsApart, OnePlace, NEW j, DeleteWorker(j)
  PROVE  /\ OnePlace'
         /\ \/ UNCHANGED pools
            \/ /\ j[1] \in ToBeDeleted /\ j \in waiting'
               /\ \A n \in Names \ {j[1]} : pools'[n] = pools[n]
         /\ waiting \subseteq waiting' \union {j}
         /\ j \in waiting \ waiting' => pools[j[1]].status # "STOPPING"
<1> USE DEF DeleteWorker
<1>f. ~Fault("lost") /\ ~Fault("poll")
  BY DEF Fault, SuccessHypotheses, HarmlessFaults
<1>p. pc \in DeletePhases => pc \in Phases
  BY DEF DeletePhases, Phases
<1>1. CASE StartDelete(j)
  <2>1. j \in plan[pc] /\ j \notin marking \union requesting \union waiting
    BY <1>1, <1>p DEF StartDelete, Launch, JobsApart
  <2>2. UNCHANGED pools
    BY <1>1 DEF StartDelete, world
  <2>3. \/ marking' = marking \ {j} /\ requesting' = requesting \ {j} /\ waiting' = waiting \ {j}
        \/ marking' = marking \union {j} /\ UNCHANGED <<requesting, waiting>>
    BY <1>1 DEF StartDelete, Finish
  <2> QED
    BY <2>1, <2>2, <2>3 DEF OnePlace
<1>2. CASE MarkDelete(j)
  <2>1. /\ j \in marking /\ UNCHANGED <<waiting, pools>>
        /\ marking' = marking \ {j} /\ requesting' = requesting \union {j}
    BY <1>2 DEF MarkDelete, Request, world
  <2> QED
    BY <2>1 DEF OnePlace
<1>3. CASE RequestDelete(j)
  <2>1. j \in requesting /\ pools \in [Names -> Pool \union {NoPool}]
    BY <1>3 DEF RequestDelete, TypeInv, TypeOK
  <2>2. j \notin waiting /\ j[1] \in ToBeDeleted
    BY <2>1 DEF OnePlace, ToBeDeleted
  <2>3. \/ /\ UNCHANGED pools
           /\ marking' = marking \ {j} /\ requesting' = requesting \ {j} /\ waiting' = waiting \ {j}
        \/ /\ DeleteAccepted(j[1])
           /\ UNCHANGED marking
           /\ requesting' = requesting \ {j} /\ waiting' = waiting \union {j}
    BY <1>3, <1>f DEF RequestDelete, FinishDelete, Finish, Wait
  <2>4. DeleteAccepted(j[1]) => \A n \in Names \ {j[1]} : pools'[n] = pools[n]
    BY <2>1 DEF DeleteAccepted, SetStatus
  <2> QED
    BY <2>1, <2>2, <2>3, <2>4 DEF OnePlace
<1>4. CASE AwaitDelete(j)
  <2>1. /\ pools[j[1]].status # "STOPPING" /\ UNCHANGED pools
        /\ marking' = marking \ {j} /\ requesting' = requesting \ {j} /\ waiting' = waiting \ {j}
    BY <1>4, <1>f DEF AwaitDelete, FinishDelete, Finish, world
  <2> QED
    BY <2>1 DEF OnePlace
<1> QED
  BY <1>1, <1>2, <1>3, <1>4

\* A step of a bulk delete.
LEMMA SuccessDelete ==
  ASSUME SuccessHypotheses, SuccessInv, NEW j, DeleteWorker(j), IInv', MarkInv'
  PROVE  SuccessInv'
<1>t. TypeInv /\ JobsApart /\ OnePlace
  BY DEF SuccessInv, IInv, MarkInv
<1>1. /\ pc \in DeletePhases /\ pc \in Phases /\ UNCHANGED <<pc, desired, existing, locked>>
      /\ plan'["create"] = plan["create"]
  BY <1>t, DeleteProgress DEF DeletePhases, Phases
<1>2. /\ OnePlace'
      /\ \/ UNCHANGED pools
         \/ /\ j[1] \in ToBeDeleted /\ j \in waiting'
            /\ \A n \in Names \ {j[1]} : pools'[n] = pools[n]
      /\ waiting \subseteq waiting' \union {j}
      /\ j \in waiting \ waiting' => pools[j[1]].status # "STOPPING"
  BY <1>t, DeleteSteps
<1>3. ASSUME ~failed'
      PROVE  /\ ~failed /\ ToBeDeleted' \subseteq ToBeDeleted
             /\ \A n \in ToBeDeleted \ ToBeDeleted' :
                  /\ n = j[1] /\ UNCHANGED pools
                  /\ ~Exists(pools[n]) \/ (j \in waiting /\ pools[n].status # "STOPPING")
  BY <1>3, <1>t, DeleteProgress
<1>4. Watched'
  <2> SUFFICES ASSUME NEW n \in Names, pools'[n].status = "STOPPING"
               PROVE  \E k \in waiting' : k[1] = n
    BY <1>1 DEF Watched
  <2>1. CASE pools[n].status = "STOPPING"
    <3>1. PICK k \in waiting : k[1] = n
      BY <2>1 DEF SuccessInv, Watched
    <3> QED
      BY <2>1, <3>1, <1>2
  <2>2. CASE pools[n].status # "STOPPING"
    BY <2>2, <1>2
  <2> QED
    BY <2>1, <2>2
<1>5. \A i : Blocked(i)' = Blocked(i) /\ Job(desired, i)' = Job(desired, i)
  BY <1>1 DEF Blocked, Job
<1>6. Decided'
  <2> SUFFICES ASSUME ~failed', NEW i \in DOMAIN desired,
                      Settled(i), desired[i].name \notin ToBeDeleted
               PROVE  Settled(i)' /\ desired[i].name \notin ToBeDeleted'
    BY <1>1, <1>3, <1>5 DEF SuccessInv, Decided
  <2>1. pools'[desired[i].name] = pools[desired[i].name]
    BY <1>2, <1>t, EntryNames
  <2> QED
    BY <2>1, <1>1, <1>3, SettledKept
<1>7. Due'
  <2> SUFFICES ASSUME ~failed', NEW i \in DOMAIN desired,
                      Job(desired, i) \in plan["create"], Exists(pools'[desired[i].name])
               PROVE  desired[i].name \in ToBeDeleted'
    BY <1>1, <1>5 DEF Due
  <2> DEFINE n == desired[i].name
  <2>1. n \in Names /\ Persist
    BY <1>t, EntryNames, DeletePersists
  <2>2. Exists(pools[n]) /\ n \in ToBeDeleted
    BY <2>1, <1>1, <1>3 DEF SuccessInv, Due, Persist
  <2>3. \A k \in waiting : pools[k[1]].status \in {"STOPPING", "NONE"}
    BY <1>1 DEF SuccessInv, IInv, StoppingIsFinal
  <2> QED
    BY <2>2, <2>3, <1>3 DEF Exists
<1>8. Listed' /\ Creating'
  BY <1>1 DEF Listed, Creating, DeletePhases
<1> QED
  BY <1>2, <1>4, <1>6, <1>7, <1>8 DEF SuccessInv

\* In the create phase the invariant is about the entries alone.
LEMMA CreateParts ==
  ASSUME SuccessInv, pc = "create", pc' = pc, IInv', MarkInv', OnePlace', Creating',
         \A n \in Names : pools'[n].status = "STOPPING" => pools[n].status = "STOPPING"
  PROVE  SuccessInv'
<1>1. Watched'
  BY NothingStops DEF SuccessInv, Watched, DeletePhases
<1>2. Listed' /\ Decided' /\ Due'
  BY DEF Listed, Decided, Due, DeletePhases
<1> QED
  BY <1>1, <1>2 DEF SuccessInv

\* A step of a bulk create (gke.go:106-118 and 169-201).
LEMMA SuccessCreate ==
  ASSUME SuccessHypotheses, SuccessInv, NEW j,
         StartCreate(j) \/ RequestCreate(j) \/ AwaitCreate(j), IInv', MarkInv'
  PROVE  SuccessInv'
<1>t. /\ TypeInv /\ JobsApart /\ OnePlace /\ NamesDistinct(desired)
      /\ pools \in [Names -> Pool \union {NoPool}] /\ plan \in [Phases -> SUBSET (Names \X Nat)]
  BY NamesApart DEF SuccessInv, IInv, MarkInv, TypeInv, TypeOK
<1>f. ~Fault("lost") /\ ~Fault("poll")
  BY DEF Fault, SuccessHypotheses, HarmlessFaults
<1>1. pc = "create" /\ pc \in Phases /\ UNCHANGED <<pc, desired, existing, locked>>
  BY DEF StartCreate, RequestCreate, AwaitCreate, Phases
<1>2. \A i : Blocked(i)' = Blocked(i) /\ Job(desired, i)' = Job(desired, i)
  BY <1>1 DEF Blocked, Job
<1>3. CASE UNCHANGED pools
  <2>1. \A i : Settled(i)' = Settled(i)
    BY <1>1, <1>3 DEF Settled
  <2>2. CASE StartCreate(j)
    <3>1. /\ j \in plan["create"] /\ j \notin marking \union requesting \union waiting
          /\ plan'["create"] = plan["create"] \ {j}
      BY <2>2, <1>t, <1>1 DEF StartCreate, Launch, JobsApart
    <3>2. \/ /\ Exists(pools[j[1]]) /\ UNCHANGED failed
             /\ marking' = marking \ {j} /\ requesting' = requesting \ {j} /\ waiting' = waiting \ {j}
          \/ /\ UNCHANGED <<waiting, failed>>
             /\ marking' = marking \ {j} /\ requesting' = requesting \union {j}
          \/ /\ failed'
             /\ marking' = marking \ {j} /\ requesting' = requesting \ {j} /\ waiting' = waiting \ {j}
      BY <2>2, <1>t DEF StartCreate, Finish, Request, TypeInv, TypeOK
    <3>3. OnePlace'
      BY <3>1, <3>2, <1>t DEF OnePlace
    <3>4. Creating'
      <4> SUFFICES ASSUME ~failed', NEW i \in DOMAIN desired,
                          Job(desired, i) \in plan["create"] \union requesting,
                          ~Exists(pools[desired[i].name])
                   PROVE  Job(desired, i) \in plan'["create"] \union requesting'
        BY <1>1, <1>2, <1>3, <2>1, <3>2 DEF SuccessInv, Creating
      <4>1. Job(desired, i) = j => ~Exists(pools[j[1]])
        BY DEF Job
      <4> QED
        BY <4>1, <3>1, <3>2
    <3> QED
      BY <1>1, <1>3, <3>3, <3>4, CreateParts
  <2>3. CASE RequestCreate(j)
    <3>1. j \in requesting /\ UNCHANGED plan
      BY <2>3 DEF RequestCreate
    <3>2. ~CreateAccepted(j)
      <4> SUFFICES ASSUME CreateAccepted(j) PROVE FALSE
        OBVIOUS
      <4>1. j[1] \in Names /\ desired[j[2]] \in DesiredEntry
        BY <3>1, <1>t, <1>1, JobTypes
      <4>2. ~Exists(pools[j[1]]) /\ pools'[j[1]] = StaticNodePoolForSubBlock(desired[j[2]])
        BY <4>1, <1>t DEF CreateAccepted
      <4> QED
        BY <4>2, <1>3 DEF StaticNodePoolForSubBlock, Exists
    <3>3. /\ failed' /\ marking' = marking \ {j}
          /\ requesting' = requesting \ {j} /\ waiting' = waiting \ {j}
      BY <2>3, <3>2, <1>t DEF RequestCreate, Finish, TypeInv, TypeOK
    <3>4. OnePlace' /\ Creating'
      BY <3>3, <1>t DEF OnePlace, Creating
    <3> QED
      BY <1>1, <1>3, <3>4, CreateParts
  <2>4. CASE AwaitCreate(j)
    <3>1. /\ j \in waiting /\ UNCHANGED plan /\ failed \in BOOLEAN
          /\ failed' = failed \/ failed' = TRUE
          /\ marking' = marking \ {j} /\ requesting' = requesting \ {j} /\ waiting' = waiting \ {j}
      BY <2>4, <1>t DEF AwaitCreate, Finish, TypeInv, TypeOK
    <3>2. j \notin requesting /\ OnePlace'
      BY <3>1, <1>t DEF OnePlace
    <3>3. Creating'
      BY <3>1, <3>2, <1>1, <1>2, <1>3, <2>1 DEF SuccessInv, Creating
    <3> QED
      BY <1>1, <1>3, <3>2, <3>3, CreateParts
  <2> QED
    BY <2>2, <2>3, <2>4
<1>4. CASE ~UNCHANGED pools
  <2>1. /\ j \in requesting /\ CreateAccepted(j) /\ UNCHANGED <<plan, marking, failed>>
        /\ requesting' = requesting \ {j} /\ waiting' = waiting \union {j}
    BY <1>4, <1>f DEF StartCreate, RequestCreate, AwaitCreate, Wait, world
  <2> DEFINE d == desired[j[2]]
  <2>2. j[2] \in DOMAIN desired /\ j = Job(desired, j[2]) /\ d.name \in Names /\ j[1] = d.name
    BY <2>1, <1>t, <1>1, JobTypes, EntryNames DEF Job
  <2>3. /\ pools'[d.name] = StaticNodePoolForSubBlock(d)
        /\ \A n \in Names \ {d.name} : pools'[n] = pools[n]
    BY <2>1, <2>2, <1>t DEF CreateAccepted
  <2>4. Settled(j[2])' /\ pools'[d.name].status # "STOPPING"
    BY <2>3, <1>1 DEF Settled, StaticNodePoolForSubBlock, Outdated, NodePoolHash
  <2>5. ASSUME NEW i \in DOMAIN desired, i # j[2]
        PROVE  /\ pools'[desired[i].name] = pools[desired[i].name]
               /\ Settled(i)' = Settled(i) /\ Job(desired, i) # j
    <3>1. desired[i].name \in Names /\ desired[i].name # d.name
      BY <2>2, <2>5, <1>t, EntryNames DEF NamesDistinct
    <3>2. pools'[desired[i].name] = pools[desired[i].name]
      BY <3>1, <2>3
    <3> QED
      BY <3>1, <3>2, <2>2, <1>1 DEF Settled, Job
  <2>6. OnePlace'
    BY <2>1, <1>t DEF OnePlace
  <2>7. Creating'
    <3> SUFFICES ASSUME ~failed', NEW i \in DOMAIN desired
                 PROVE  \/ Blocked(i)
                        \/ /\ Job(desired, i) \in plan["create"] \union requesting'
                           /\ ~Exists(pools'[desired[i].name])
                        \/ Settled(i)'
      BY <1>1, <1>2, <2>1 DEF Creating
    <3>1. CASE i = j[2]
      BY <3>1, <2>4
    <3>2. CASE i # j[2]
      BY <3>2, <2>1, <2>5, <1>1 DEF SuccessInv, Creating
    <3> QED
      BY <3>1, <3>2
  <2>8. \A n \in Names : pools'[n].status = "STOPPING" => pools[n].status = "STOPPING"
    BY <2>3, <2>4
  <2> QED
    BY <1>1, <2>6, <2>7, <2>8, CreateParts
<1> QED
  BY <1>3, <1>4

\* Every step preserves the invariant.
LEMMA SuccessNext ==
  ASSUME SuccessHypotheses, SuccessInv, [Next]_vars
  PROVE  SuccessInv'
<1>t. IInv' /\ MarkInv' /\ TypeInv
  BY CapacityNext, MarkNext DEF SuccessInv, SuccessHypotheses, IInv
<1>q. UNCHANGED pools => Quiet
  BY DEF Quiet
<1>f. ~Fault("crash")
  BY DEF Fault, SuccessHypotheses, HarmlessFaults
<1>1. CASE User \/ Informers \/ Resync \/ UNCHANGED vars
  BY <1>1, <1>t, <1>q, SuccessFrame
     DEF User, EditConfig, SliceAcquire, SliceRelease, Informers, SeeConfig, SeeSlices, SeeNodes,
         Resync, vars, world, frame
<1>2. ASSUME NEW n \in Names, Gke(n) PROVE SuccessInv'
  <2>1. UNCHANGED <<pc, desired, existing, locked, plan, marking, requesting, waiting, failed>>
    BY <1>2 DEF Gke, OpEnds, CreateOpDone, CreateOpFails, DeleteOpDone, DeleteOpFails,
                PoolFails, NodeRegisters, NodeLost, frame
  <2>2. Quiet
    BY <1>2, GkeQuiet DEF SuccessInv
  <2> QED
    BY <1>t, <2>1, <2>2, SuccessFrame
<1>3. CASE Start
  BY <1>3, <1>t, SuccessIdle DEF Start, world, DeletePhases
<1>4. CASE List
  <2>1. pc = "list" /\ UNCHANGED pools
    BY <1>4 DEF List, world
  <2>2. CASE Return(TRUE)
    BY <2>1, <2>2, <1>t, SuccessIdle DEF Return, DeletePhases
  <2>3. CASE existing' = pools /\ pc' = "plan"
    <3>1. Watched'
      BY <2>1, NothingStops DEF SuccessInv, Watched, DeletePhases
    <3>2. OnePlace'
      BY <1>t, <2>3 DEF IInv, TypeInv, IdleClean, OnePlace, Phases
    <3>3. Listed' /\ Decided' /\ Due' /\ Creating'
      BY <2>1, <2>3 DEF Listed, Decided, Due, Creating, DeletePhases
    <3> QED
      BY <1>t, <3>1, <3>2, <3>3 DEF SuccessInv
  <2> QED
    BY <1>4, <2>2, <2>3 DEF List
<1>5. CASE Plan
  <2>1. CASE Return(TRUE)
    BY <1>5, <2>1, <1>t, SuccessIdle DEF Plan, Return, world, DeletePhases
  <2> QED
    BY <1>5, <2>1, <1>t, SuccessPlan
<1>6. ASSUME NEW j \in Jobs2Do, Worker(j) PROVE SuccessInv'
  BY <1>6, <1>t, SuccessDelete, SuccessCreate DEF Worker, DeleteWorker
<1>7. CASE BulkReturn
  <2>1. CASE Return(failed)
    BY <1>7, <2>1, <1>t, SuccessIdle DEF BulkReturn, Return, world
  <2> QED
    BY <1>7, <2>1, <1>t, SuccessNextPhase
<1>8. CASE CreateDeadline
  BY <1>8, <1>t, <1>q, SuccessFrame DEF CreateDeadline, world
<1> QED
  BY <1>1, <1>2, <1>3, <1>4, <1>5, <1>6, <1>7, <1>8, <1>f DEF Next, Reconcile, Crash

\* The invariant holds at the start.
LEMMA SuccessInit ==
  ASSUME SuccessHypotheses, Init
  PROVE  SuccessInv
<1>1. IInv
  BY CapacityInit DEF SuccessHypotheses
<1>2. MarkInv
  BY TypeInit DEF Init, MarkInv, NoLeakedMark, MarksOfDelete, JobsApart, Phases
<1>3. OnePlace /\ Watched
  BY DEF Init, OnePlace, Watched, SuccessHypotheses
<1>4. Listed /\ Decided /\ Due /\ Creating
  BY DEF Init, Listed, Decided, Due, Creating, DeletePhases
<1> QED
  BY <1>1, <1>2, <1>3, <1>4 DEF SuccessInv

\* A Reconcile that ends well after its create phase has applied the configuration
\* it read, except where a pool in use is in the way; for configurations with unique
\* names and subblocks, and faults that end no operation badly.
THEOREM SuccessApplied == SuccessHypotheses => (Spec => SuccessMeansApplied)
<1> SUFFICES ASSUME SuccessHypotheses PROVE Spec => SuccessMeansApplied
  OBVIOUS
<1> DEFINE Applied(i) ==
      LET d == desired[i]
          p == pools[d.name]
      IN  \/ p.status \in {"PROVISIONING", "RUNNING"} /\ ~Outdated(p, d)
          \/ \E n \in locked : n = d.name \/ (Exists(existing[n]) /\ existing[n].sub = d.sub)
<1> DEFINE Promise == pc = "create" /\ pc' = "idle" /\ ~failed => \A i \in DOMAIN desired : Applied(i)
<1>1. Init => SuccessInv
  BY SuccessInit
<1>2. SuccessInv /\ [Next]_vars => SuccessInv'
  BY SuccessNext
<1>3. SuccessInv /\ [Next]_vars => [Promise]_vars
  <2> SUFFICES ASSUME SuccessInv, Next, pc = "create", pc' = "idle", ~failed, NEW i \in DOMAIN desired
               PROVE  Applied(i)
    OBVIOUS
  <2>1. ~Crash
    BY DEF Crash, Fault, SuccessHypotheses, HarmlessFaults
  <2>2. BulkReturn
    BY <2>1 DEF Next, Reconcile, User, EditConfig, SliceAcquire, SliceRelease, Informers, SeeConfig,
                SeeSlices, SeeNodes, Resync, Gke, OpEnds, CreateOpDone, CreateOpFails,
                DeleteOpDone, DeleteOpFails, PoolFails, NodeRegisters, NodeLost, Start, List, Plan,
                Worker, StartDelete, MarkDelete, RequestDelete, AwaitDelete, StartCreate,
                RequestCreate, AwaitCreate, CreateDeadline
  <2>3. plan["create"] = {} /\ requesting = {}
    BY <2>2 DEF BulkReturn
  <2>4. Blocked(i) \/ Settled(i)
    BY <2>3 DEF SuccessInv, Creating
  <2> QED
    BY <2>4 DEF Blocked, Settled
<1>4. Spec => [][Promise]_vars
  BY <1>1, <1>2, <1>3, PTL DEF Spec
<1> QED
  BY <1>4 DEF SuccessMeansApplied

-----------------------------------------------------------------------------
(***************************************************************************)
(* What left the configuration: NothingLeftOver.  It needs no more than    *)
(* that no delete operation fails.                                         *)
(***************************************************************************)

\* Every pool that left the configuration is in use or due to be deleted.
LeftoverDue ==
  pc \in DeletePhases /\ ~failed => \A n \in Names : Leftover(n) => n \in locked \union ToBeDeleted

\* The inductive invariant.
LeftoverInv == TypeInv /\ Snapshot /\ StoppingIsFinal /\ LeftoverDue /\ NothingLeftOver

\* The Reconcile does not move.
LEMMA LeftoverFrame ==
  ASSUME LeftoverInv, Persist, UNCHANGED <<pc, frame>>, TypeInv'
  PROVE  LeftoverInv'
<1> USE DEF frame
<1>1. Snapshot'
  BY DEF LeftoverInv, Snapshot, Persist, Exists
<1>2. StoppingIsFinal'
  <2> SUFFICES ASSUME pc \in DeletePhases, NEW j \in waiting
               PROVE  pools'[j[1]].status \in {"STOPPING", "NONE"}
    BY DEF StoppingIsFinal
  <2>1. j[1] \in Names
    BY JobTypes DEF LeftoverInv, DeletePhases, Phases
  <2> QED
    BY <2>1 DEF LeftoverInv, StoppingIsFinal, Persist
<1>3. \A n \in Names : Leftover(n)' => Leftover(n)
  BY DEF Leftover, Persist
<1>4. ToBeDeleted' = ToBeDeleted
  BY DEF ToBeDeleted
<1> QED
  BY <1>1, <1>2, <1>3, <1>4 DEF LeftoverInv, LeftoverDue, NothingLeftOver

\* The Reconcile ends, or has not listed the pools yet.
LEMMA LeftoverIdle ==
  ASSUME pc' \in {"idle", "list"}, TypeInv'
  PROVE  LeftoverInv'
BY DEF LeftoverInv, Snapshot, StoppingIsFinal, LeftoverDue, NothingLeftOver, DeletePhases

\* The diff puts every pool that left the configuration, and is not in use, on the
\* list of missing ones (gke.go:133-141).
LEMMA LeftoverPlan ==
  ASSUME LeftoverInv, Plan, ~Return(TRUE), TypeInv'
  PROVE  LeftoverInv'
<1>1. /\ plan' = ReconcilePlan(existing, desired, locked')
      /\ pc = "plan" /\ pc' = "missing"
      /\ UNCHANGED <<pools, desired, existing, marking, requesting, waiting, failed>>
  BY DEF Plan, world
<1>2. waiting' = {}
  BY <1>1 DEF LeftoverInv, TypeInv, IdleClean, Phases
<1>3. ASSUME NEW n \in Names, Leftover(n), n \notin locked'
      PROVE  n \in ToBeDeleted'
  <2>1. Exists(existing[n]) /\ existing[n].static
    BY <1>1, <1>3 DEF LeftoverInv, Snapshot, Leftover
  <2>2. <<n, 0>> \in ToDeleteMissing(existing, desired)
    BY <2>1, <1>3 DEF ToDeleteMissing, Leftover
  <2>3. <<n, 0>> \in plan'["missing"]
    BY <2>2, <1>1, <1>3 DEF ReconcilePlan, FilterLocked, Phases
  <2>4. "missing" \in Ahead[pc'] /\ <<n, 0>>[1] = n
    BY <1>1 DEF Ahead, DeletePhases
  <2> QED
    BY <2>3, <2>4 DEF ToBeDeleted
<1>4. LeftoverDue'
  BY <1>1, <1>3 DEF LeftoverDue, Leftover
<1>5. Snapshot' /\ StoppingIsFinal' /\ NothingLeftOver'
  BY <1>1, <1>2 DEF Snapshot, StoppingIsFinal, NothingLeftOver
<1> QED
  BY <1>4, <1>5 DEF LeftoverInv

\* Going on to the next bulk operation.
LEMMA LeftoverNextPhase ==
  ASSUME LeftoverInv, BulkReturn, ~Return(failed), TypeInv'
  PROVE  LeftoverInv'
<1>1. /\ pc \in DeletePhases /\ ~failed /\ pc' = NextPhase[pc]
      /\ plan[pc] = {} /\ marking = {} /\ requesting = {} /\ waiting = {}
      /\ UNCHANGED <<frame, pools>>
  BY DEF BulkReturn, world
<1>2. Snapshot' /\ StoppingIsFinal'
  BY <1>1 DEF Snapshot, StoppingIsFinal, NextPhase, DeletePhases, frame
<1>3. \A n : Leftover(n)' <=> Leftover(n)
  BY <1>1 DEF Leftover, frame
<1>4. CASE pc = "update"
  <2>1. ToBeDeleted = {} /\ pc' = "create"
    BY <1>1, <1>4 DEF ToBeDeleted, Ahead, NextPhase
  <2> QED
    BY <2>1, <1>1, <1>2, <1>3 DEF LeftoverInv, LeftoverDue, NothingLeftOver, DeletePhases, frame
<1>5. CASE pc \in {"missing", "error"}
  <2>1. pc' \in {"error", "update"} /\ Ahead[pc] = {pc} \union Ahead[pc']
    BY <1>1, <1>5 DEF NextPhase, Ahead, DeletePhases
  <2>2. ToBeDeleted \subseteq ToBeDeleted'
    BY <2>1, <1>1 DEF ToBeDeleted, frame
  <2> QED
    BY <2>1, <2>2, <1>1, <1>2, <1>3 DEF LeftoverInv, LeftoverDue, NothingLeftOver, frame
<1> QED
  BY <1>1, <1>4, <1>5 DEF DeletePhases

\* A goroutine of a bulk delete gives a pool up only when it is gone (gke.go:225-242).
LEMMA LeftoverDelete ==
  ASSUME LeftoverInv, NEW j, DeleteWorker(j), TypeInv'
  PROVE  LeftoverInv'
<1>1. TypeInv /\ pc \in DeletePhases /\ UNCHANGED <<pc, desired, locked>>
  BY DeleteProgress DEF LeftoverInv
<1>2. Persist /\ \A k \in waiting' : k \in waiting \/ pools'[k[1]].status = "STOPPING"
  BY <1>1, DeletePersists
<1>3. StoppingIsFinal'
  <2> SUFFICES ASSUME NEW k \in waiting'
               PROVE  pools'[k[1]].status \in {"STOPPING", "NONE"}
    BY DEF StoppingIsFinal
  <2>1. k \in waiting => k[1] \in Names /\ pools[k[1]].status \in {"STOPPING", "NONE"}
    BY <1>1, JobTypes DEF LeftoverInv, StoppingIsFinal, DeletePhases, Phases
  <2> QED
    BY <2>1, <1>2 DEF Persist
<1>4. LeftoverDue'
  <2> SUFFICES ASSUME ~failed', NEW n \in Names, Leftover(n)', n \notin locked
               PROVE  n \in ToBeDeleted'
    BY <1>1 DEF LeftoverDue
  <2>1. Leftover(n) /\ Exists(pools'[n])
    BY <1>1, <1>2 DEF Leftover, Persist
  <2>2. ~failed /\ n \in ToBeDeleted \ ToBeDeleted' =>
          /\ n = j[1] /\ UNCHANGED pools
          /\ ~Exists(pools[n]) \/ (j \in waiting /\ pools[n].status # "STOPPING")
    BY <1>1, DeleteProgress
  <2>3. ~failed /\ n \in ToBeDeleted
    BY <1>1, <2>1, DeleteProgress DEF LeftoverInv, LeftoverDue
  <2>4. j \in waiting => pools[j[1]].status \in {"STOPPING", "NONE"}
    BY <1>1 DEF LeftoverInv, StoppingIsFinal
  <2> QED
    BY <2>1, <2>2, <2>3, <2>4 DEF Exists
<1>5. Snapshot' /\ NothingLeftOver'
  BY <1>1 DEF Snapshot, NothingLeftOver, DeletePhases
<1> QED
  BY <1>3, <1>4, <1>5 DEF LeftoverInv

\* A goroutine of a bulk create creates pools of the configuration only.
LEMMA LeftoverCreate ==
  ASSUME LeftoverInv, NEW j, StartCreate(j) \/ RequestCreate(j) \/ AwaitCreate(j), TypeInv'
  PROVE  LeftoverInv'
<1>1. pc = "create" /\ UNCHANGED <<pc, desired, locked>>
  BY DEF StartCreate, RequestCreate, AwaitCreate
<1>2. ASSUME NEW n \in Names, Leftover(n)' PROVE Leftover(n)
  <2>1. CASE UNCHANGED pools
    BY <1>1, <1>2, <2>1 DEF Leftover
  <2>2. CASE j \in requesting /\ CreateAccepted(j)
    <3>1. j[1] = desired[j[2]].name /\ j[2] \in DOMAIN desired
      BY <1>1, <2>2, JobTypes DEF LeftoverInv, Phases
    <3>2. n # j[1]
      BY <1>1, <1>2, <3>1 DEF Leftover, DesiredNames
    <3>3. pools'[n] = pools[n]
      BY <2>2, <3>2 DEF CreateAccepted, LeftoverInv, TypeInv, TypeOK
    <3> QED
      BY <1>1, <1>2, <3>3 DEF Leftover
  <2> QED
    BY <2>1, <2>2 DEF StartCreate, RequestCreate, AwaitCreate, world
<1>3. NothingLeftOver'
  BY <1>1, <1>2 DEF LeftoverInv, NothingLeftOver
<1>4. Snapshot' /\ StoppingIsFinal' /\ LeftoverDue'
  BY <1>1 DEF Snapshot, StoppingIsFinal, LeftoverDue, DeletePhases
<1> QED
  BY <1>3, <1>4 DEF LeftoverInv

\* Every step preserves the invariant.
LEMMA LeftoverNext ==
  ASSUME "opDelete" \notin FaultKinds, LeftoverInv, [Next]_vars
  PROVE  LeftoverInv'
<1>t. TypeInv /\ TypeInv'
  BY TypeNext DEF LeftoverInv
<1>1. CASE User \/ Informers \/ Resync \/ UNCHANGED vars
  BY <1>1, <1>t, PersistSame, LeftoverFrame
     DEF User, EditConfig, SliceAcquire, SliceRelease, Informers, SeeConfig, SeeSlices, SeeNodes,
         Resync, vars, world
<1>2. ASSUME NEW n \in Names, Gke(n) PROVE LeftoverInv'
  <2>1. UNCHANGED <<pc, frame>>
    BY <1>2 DEF Gke, OpEnds, CreateOpDone, CreateOpFails, DeleteOpDone, DeleteOpFails,
                PoolFails, NodeRegisters, NodeLost
  <2> QED
    BY <1>2, <1>t, <2>1, GkePersists, LeftoverFrame
<1>3. CASE Start
  BY <1>3, <1>t, LeftoverIdle DEF Start
<1>4. CASE List
  <2>1. CASE Return(TRUE)
    BY <2>1, <1>t, LeftoverIdle DEF Return
  <2>2. CASE existing' = pools /\ pc' = "plan" /\ UNCHANGED pools
    BY <2>2, <1>t DEF LeftoverInv, Snapshot, StoppingIsFinal, LeftoverDue, NothingLeftOver,
                      DeletePhases
  <2> QED
    BY <1>4, <2>1, <2>2 DEF List, world
<1>5. CASE Plan
  <2>1. CASE Return(TRUE)
    BY <2>1, <1>t, LeftoverIdle DEF Return
  <2> QED
    BY <1>5, <2>1, <1>t, LeftoverPlan
<1>6. ASSUME NEW j \in Jobs2Do, Worker(j) PROVE LeftoverInv'
  BY <1>6, <1>t, LeftoverDelete, LeftoverCreate DEF Worker, DeleteWorker
<1>7. CASE BulkReturn
  <2>1. CASE Return(failed)
    BY <2>1, <1>t, LeftoverIdle DEF Return
  <2> QED
    BY <1>7, <2>1, <1>t, LeftoverNextPhase
<1>8. CASE CreateDeadline
  BY <1>8, <1>t DEF CreateDeadline, world, LeftoverInv, Snapshot, StoppingIsFinal, LeftoverDue,
                    NothingLeftOver, Leftover, DeletePhases
<1>9. CASE Crash
  BY <1>9, <1>t, LeftoverIdle DEF Crash
<1> QED
  BY <1>1, <1>2, <1>3, <1>4, <1>5, <1>6, <1>7, <1>8, <1>9 DEF Next, Reconcile

\* No pool is created before every pool that left the configuration is gone, for any
\* configurations, clusters and faults but a delete operation that fails.
THEOREM LeftoversDeleted == "opDelete" \notin FaultKinds => (Spec => []NothingLeftOver)
<1> SUFFICES ASSUME "opDelete" \notin FaultKinds PROVE Spec => []NothingLeftOver
  OBVIOUS
<1>1. Init => LeftoverInv
  <2> SUFFICES ASSUME Init PROVE LeftoverInv
    OBVIOUS
  <2>1. TypeInv
    BY TypeInit
  <2> QED
    BY <2>1 DEF Init, LeftoverInv, Snapshot, StoppingIsFinal, LeftoverDue, NothingLeftOver,
                DeletePhases
<1>2. LeftoverInv /\ [Next]_vars => LeftoverInv'
  BY LeftoverNext
<1>3. LeftoverInv => NothingLeftOver
  BY DEF LeftoverInv
<1> QED
  BY <1>1, <1>2, <1>3, PTL DEF Spec
-----------------------------------------------------------------------------
(* A Reconcile takes finitely many steps. *)

\* The jobs of a phase are finitely many: they are entries of the configuration that
\* was read, or names of pools.
LEMMA JobsFinite ==
  ASSUME IsFiniteSet(Names), TypeInv, pc \in Phases
  PROVE  /\ IsFiniteSet(plan[pc]) /\ IsFiniteSet(marking)
         /\ IsFiniteSet(requesting) /\ IsFiniteSet(waiting)
<1>1. Len(desired) \in Nat /\ DOMAIN desired = 1..Len(desired)
  <2>1. desired = <<>> \/ \E c \in ConfigMaps : desired = c.pools
    BY DEF TypeInv, TypeOK
  <2>2. \A c \in ConfigMaps : c.pools \in Seq(DesiredEntry)
    BY ProvisionerAssumption DEF ConfigMap
  <2>3. <<>> \in Seq(DesiredEntry)
    OBVIOUS
  <2>4. desired \in Seq(DesiredEntry)
    BY <2>1, <2>2, <2>3
  <2> QED
    BY <2>4
<1> DEFINE All == Names \X (0..Len(desired))
<1>2. IsFiniteSet(All)
  <2>1. IsFiniteSet(0..Len(desired))
    BY <1>1, FS_Interval
  <2> QED
    BY <2>1, FS_Product
<1>3. /\ plan[pc] \subseteq All /\ marking \subseteq All
      /\ requesting \subseteq All /\ waiting \subseteq All
  <2>1. \A i \in DOMAIN desired : desired[i].name \in Names
    BY DesiredTypes DEF TypeInv, TypeOK
  <2>2. Jobs(desired, DOMAIN desired) \subseteq All
    BY <1>1, <2>1 DEF Jobs, Job
  <2>3. Names \X {0} \subseteq All
    BY <1>1
  <2>4. plan[pc] \subseteq IF pc = "missing" THEN Names \X {0} ELSE Jobs(desired, DOMAIN desired)
    BY DEF TypeInv, TypeOK
  <2>5. marking \union requesting \union waiting
          \subseteq IF pc = "missing" THEN Names \X {0} ELSE Jobs(desired, DOMAIN desired)
    BY DEF TypeInv, TypeOK
  <2> QED
    BY <2>2, <2>3, <2>4, <2>5
<1> HIDE DEF All
<1>4. \A T \in SUBSET All : IsFiniteSet(T)
  BY <1>2, FS_Subset
<1> QED
  BY <1>3, <1>4

\* What a job that comes or goes does to the size of a set of jobs.
LEMMA JobCount ==
  ASSUME NEW S, IsFiniteSet(S), NEW j
  PROVE  /\ Cardinality(S) \in Nat
         /\ Cardinality(S \ {j}) \in Nat
         /\ Cardinality(S \ {j}) <= Cardinality(S)
         /\ j \in S => Cardinality(S \ {j}) = Cardinality(S) - 1
         /\ Cardinality(S \union {j}) \in Nat
         /\ Cardinality(S \union {j}) <= Cardinality(S) + 1
<1>1. IsFiniteSet(S \ {j}) /\ IsFiniteSet(S \union {j})
  BY FS_AddElement, FS_RemoveElement
<1>2. /\ Cardinality(S) \in Nat /\ Cardinality(S \ {j}) \in Nat
      /\ Cardinality(S \union {j}) \in Nat
  BY <1>1, FS_CardinalityType
<1>3. /\ Cardinality(S \ {j}) = IF j \in S THEN Cardinality(S) - 1 ELSE Cardinality(S)
      /\ Cardinality(S \union {j}) = IF j \in S THEN Cardinality(S) ELSE Cardinality(S) + 1
  BY FS_AddElement, FS_RemoveElement
<1> QED
  BY <1>2, <1>3

\* A job that moves on, or is done, makes the sum of the steps left smaller.
LEMMA FewerSteps ==
  ASSUME NEW p \in Nat, NEW m \in Nat, NEW r \in Nat, NEW w \in Nat,
         NEW p2 \in Nat, NEW m2 \in Nat, NEW r2 \in Nat, NEW w2 \in Nat,
         \/ p2 = p - 1 /\ m2 <= m + 1 /\ r2 <= r /\ w2 <= w
         \/ p2 = p - 1 /\ m2 <= m /\ r2 <= r + 1 /\ w2 <= w
         \/ p2 = p /\ m2 = m - 1 /\ r2 <= r + 1 /\ w2 <= w
         \/ p2 = p /\ m2 <= m /\ r2 = r - 1 /\ w2 <= w + 1
         \/ p2 = p /\ m2 <= m /\ r2 <= r /\ w2 = w - 1
  PROVE  4 * p2 + 3 * m2 + 2 * r2 + w2 \in 0..(4 * p + 3 * m + 2 * r + w - 1)
OBVIOUS

\* What a step of the goroutine of job j does to the sets of jobs: it marks, sends its
\* request, waits, or ends.
Marks(j) == /\ marking' = marking \union {j} /\ requesting' = requesting
            /\ waiting' = waiting
Asks(j)  == /\ marking' = marking \ {j} /\ requesting' = requesting \union {j}
            /\ waiting' = waiting
Waits(j) == /\ marking' = marking /\ requesting' = requesting \ {j}
            /\ waiting' = waiting \union {j}
Ends(j)  == /\ marking' = marking \ {j} /\ requesting' = requesting \ {j}
            /\ waiting' = waiting \ {j}

JobMoves(j) ==
  \/ /\ j \in plan[pc] /\ plan'[pc] = plan[pc] \ {j}
     /\ Marks(j) \/ Asks(j) \/ Ends(j)
  \/ /\ plan'[pc] = plan[pc]
     /\ \/ j \in marking /\ Asks(j)
        \/ j \in requesting /\ (Waits(j) \/ Ends(j))
        \/ j \in waiting /\ Ends(j)

\* A goroutine starts, marks, requests, waits or ends.
LEMMA WorkerMoves ==
  ASSUME TypeInv, NEW j, Worker(j)
  PROVE  pc \in Phases /\ pc' = pc /\ JobMoves(j)
<1>1. pc \in Phases /\ pc' = pc
  BY DEF Worker, StartDelete, MarkDelete, RequestDelete, AwaitDelete, StartCreate,
         RequestCreate, AwaitCreate, DeletePhases, Phases
<1>2. plan \in [Phases -> SUBSET (Names \X Nat)]
  BY DEF TypeInv, TypeOK
<1>3. Launch(j) => j \in plan[pc] /\ plan'[pc] = plan[pc] \ {j}
  BY <1>1, <1>2 DEF Launch
<1>4. CASE StartDelete(j)
  BY <1>1, <1>3, <1>4 DEF StartDelete, Finish, JobMoves, Marks, Asks, Waits, Ends
<1>5. CASE MarkDelete(j)
  BY <1>1, <1>5 DEF MarkDelete, Request, JobMoves, Marks, Asks, Waits, Ends
<1>6. CASE RequestDelete(j)
  BY <1>1, <1>6 DEF RequestDelete, Wait, Finish, FinishDelete, JobMoves, Marks, Asks, Waits, Ends
<1>7. CASE AwaitDelete(j)
  BY <1>1, <1>7 DEF AwaitDelete, Finish, FinishDelete, JobMoves, Marks, Asks, Waits, Ends
<1>8. CASE StartCreate(j)
  BY <1>1, <1>3, <1>8 DEF StartCreate, Finish, Request, JobMoves, Marks, Asks, Waits, Ends
<1>9. CASE RequestCreate(j)
  BY <1>1, <1>9 DEF RequestCreate, Wait, Finish, JobMoves, Marks, Asks, Waits, Ends
<1>10. CASE AwaitCreate(j)
  BY <1>1, <1>10 DEF AwaitCreate, Finish, JobMoves, Marks, Asks, Waits, Ends
<1> QED
  BY <1>1, <1>4, <1>5, <1>6, <1>7, <1>8, <1>9, <1>10 DEF Worker

\* Whichever it does, it has one step less to take.
LEMMA WorkerAdvances ==
  ASSUME IsFiniteSet(Names), TypeInv, NEW j, Worker(j)
  PROVE  pc' = pc /\ StepsLeft' \in 0..(StepsLeft - 1)
<1>1. pc \in Phases /\ pc' = pc /\ JobMoves(j)
  BY WorkerMoves
<1> DEFINE Counts(S) == /\ Cardinality(S) \in Nat
                        /\ Cardinality(S \ {j}) \in Nat
                        /\ Cardinality(S \ {j}) <= Cardinality(S)
                        /\ j \in S => Cardinality(S \ {j}) = Cardinality(S) - 1
                        /\ Cardinality(S \union {j}) \in Nat
                        /\ Cardinality(S \union {j}) <= Cardinality(S) + 1
<1>2. Counts(plan[pc]) /\ Counts(marking) /\ Counts(requesting) /\ Counts(waiting)
  BY <1>1, JobsFinite, JobCount
<1> DEFINE p  == Cardinality(plan[pc])   m  == Cardinality(marking)
           r  == Cardinality(requesting) w  == Cardinality(waiting)
           p2 == Cardinality(plan'[pc])   m2 == Cardinality(marking')
           r2 == Cardinality(requesting') w2 == Cardinality(waiting')
<1>3. p \in Nat /\ m \in Nat /\ r \in Nat /\ w \in Nat
  BY <1>2
<1>4. p2 \in Nat /\ m2 \in Nat /\ r2 \in Nat /\ w2 \in Nat
  BY <1>1, <1>2 DEF JobMoves, Marks, Asks, Waits, Ends
<1>5. \/ p2 = p - 1 /\ m2 <= m + 1 /\ r2 <= r /\ w2 <= w
      \/ p2 = p - 1 /\ m2 <= m /\ r2 <= r + 1 /\ w2 <= w
      \/ p2 = p /\ m2 = m - 1 /\ r2 <= r + 1 /\ w2 <= w
      \/ p2 = p /\ m2 <= m /\ r2 = r - 1 /\ w2 <= w + 1
      \/ p2 = p /\ m2 <= m /\ r2 <= r /\ w2 = w - 1
  <2>1. ASSUME j \in plan[pc], plan'[pc] = plan[pc] \ {j} PROVE p2 = p - 1
    BY <1>2, <2>1
  <2>2. ASSUME plan'[pc] = plan[pc] PROVE p2 = p
    BY <2>2
  <2>3. Marks(j) => m2 <= m + 1 /\ r2 <= r /\ w2 <= w
    BY <1>2, <1>3 DEF Marks
  <2>4. Asks(j) => m2 <= m /\ r2 <= r + 1 /\ w2 <= w /\ (j \in marking => m2 = m - 1)
    BY <1>2, <1>3 DEF Asks
  <2>5. Waits(j) => m2 <= m /\ w2 <= w + 1 /\ (j \in requesting => r2 = r - 1)
    BY <1>2, <1>3 DEF Waits
  <2>6. Ends(j) => /\ m2 <= m /\ r2 <= r /\ w2 <= w
                   /\ j \in requesting => r2 = r - 1
                   /\ j \in waiting => w2 = w - 1
    BY <1>2, <1>3 DEF Ends
  <2>7. (m2 <= m => m2 <= m + 1) /\ (w2 <= w => w2 <= w + 1)
    BY <1>3, <1>4
  <2> HIDE DEF p, m, r, w, p2, m2, r2, w2
  <2>8. CASE j \in plan[pc] /\ plan'[pc] = plan[pc] \ {j} /\ (Marks(j) \/ Asks(j) \/ Ends(j))
    BY <2>1, <2>3, <2>4, <2>6, <2>7, <2>8
  <2>9. CASE /\ plan'[pc] = plan[pc]
             /\ \/ j \in marking /\ Asks(j)
                \/ j \in requesting /\ (Waits(j) \/ Ends(j))
                \/ j \in waiting /\ Ends(j)
    BY <2>2, <2>4, <2>5, <2>6, <2>7, <2>9
  <2> QED
    BY <1>1, <2>8, <2>9 DEF JobMoves
<1>6. StepsLeft = 4 * p + 3 * m + 2 * r + w /\ StepsLeft' = 4 * p2 + 3 * m2 + 2 * r2 + w2
  BY <1>1 DEF StepsLeft
<1> HIDE DEF p, m, r, w, p2, m2, r2, w2
<1> QED
  BY <1>1, <1>3, <1>4, <1>5, <1>6, FewerSteps

\* The Reconcile itself goes through its stages in one direction.
LEMMA StageAdvances ==
  ASSUME TypeInv, pc # "idle", Start \/ List \/ Plan \/ BulkReturn \/ Crash
  PROVE  Stage[pc'] < Stage[pc]
<1>1. pc \in {"list", "plan", "missing", "error", "update", "create"}
  BY DEF TypeInv, TypeOK, Phases
<1>2. ~Start
  BY DEF Start
<1>3. CASE List
  BY <1>3 DEF List, Return, Stage
<1>4. CASE Plan
  BY <1>4 DEF Plan, Return, Stage
<1>5. CASE BulkReturn
  BY <1>1, <1>5 DEF BulkReturn, Return, NextPhase, DeletePhases, Phases, Stage
<1>6. CASE Crash
  BY <1>1, <1>6 DEF Crash, Stage
<1> QED
  BY <1>2, <1>3, <1>4, <1>5, <1>6

\* Every step of a Reconcile brings it nearer to its return, and no other step moves it.
LEMMA NextAdvances ==
  ASSUME IsFiniteSet(Names), TypeInv, [Next]_vars, pc # "idle",
         Reconcile \/ progress' # progress
  PROVE  ComesNearer
<1>1. CASE Reconcile
  BY <1>1, WorkerAdvances, StageAdvances DEF Reconcile, ComesNearer
<1>2. CASE Crash
  BY <1>2, StageAdvances DEF ComesNearer
<1>3. CASE User \/ Informers \/ Resync \/ CreateDeadline \/ UNCHANGED vars
  <2>1. UNCHANGED progress
    BY <1>3 DEF User, EditConfig, SliceAcquire, SliceRelease, Informers, SeeConfig, SeeSlices,
                SeeNodes, Resync, CreateDeadline, vars, frame, progress
  <2> QED
    BY <1>1, <2>1
<1>4. CASE \E n \in Names : Gke(n)
  <2>1. UNCHANGED progress
    BY <1>4 DEF Gke, OpEnds, CreateOpDone, CreateOpFails, DeleteOpDone, DeleteOpFails,
                PoolFails, NodeRegisters, NodeLost, frame, progress
  <2> QED
    BY <1>1, <2>1
<1> QED
  BY <1>1, <1>2, <1>3, <1>4 DEF Next

\* For any configurations, clusters, faults and limits of concurrency, a Reconcile on
\* finitely many names takes finitely many steps: the variant of the loops and
\* goroutines of Reconcile, EnsureStaticNodePools and DeleteStaticNodePools.
THEOREM ReconcileFinite == IsFiniteSet(Names) => (Spec => ReconcileAdvances)
<1> SUFFICES ASSUME IsFiniteSet(Names) PROVE Spec => ReconcileAdvances
  OBVIOUS
<1>1. TypeInv /\ [Next]_vars
        => (pc # "idle" /\ (Reconcile \/ progress' # progress) => ComesNearer)
  BY NextAdvances
<1>2. Init => TypeInv
  BY TypeInit
<1>3. TypeInv /\ [Next]_vars => TypeInv'
  BY TypeNext
<1> QED
  BY <1>1, <1>2, <1>3, PTL DEF Spec, ReconcileAdvances
=============================================================================
