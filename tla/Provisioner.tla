----------------------------- MODULE Provisioner -----------------------------
(***************************************************************************)
(* One static-nodepool-provisioner manager, the GKE node pools it manages, *)
(* the ConfigMap and Slices that users write, and the informer caches the  *)
(* manager reads them through.                                             *)
(*                                                                         *)
(* The manager's work queue holds one key and its controller runs one      *)
(* Reconcile at a time.  A Reconcile reads the cached ConfigMap (Start),   *)
(* lists the node pools (List), computes what to do (Plan) and then runs   *)
(* four bulk operations in order: delete the pools missing from the        *)
(* configuration, the pools in ERROR, the pools that are out of date, and  *)
(* create what is to be created.  Each bulk operation starts one goroutine *)
(* per job, bounded by a semaphore, waits for all of them (BulkReturn) and *)
(* ends the Reconcile with an error if one of them failed.                 *)
(*                                                                         *)
(* Whatever can go wrong is an action that spends one of MaxFaults faults  *)
(* of a kind in FaultKinds:                                                *)
(*   list       listing pools, Slices or nodes fails                       *)
(*   get        reading one pool fails                                     *)
(*   refuse     GKE refuses a request, without effect                      *)
(*   lost       GKE accepts a request and the answer is lost               *)
(*   poll       polling an operation fails, or its 30 minutes are over     *)
(*   deadline   the create timeout of the Reconcile expires                *)
(*   opCreate   a create operation ends in failure                         *)
(*   opDelete   a delete operation ends in failure                         *)
(*   poolError  a running pool falls into ERROR                            *)
(*   nodeLoss   the Node object of a pool goes away                        *)
(*   crash      the manager crashes and restarts                           *)
(***************************************************************************)
EXTENDS NodePoolDiff, FiniteSets

CONSTANTS
  ConfigMaps,         \* the states of the ConfigMap
  InitPools,          \* the node pools a cluster may start with
  CreateConcurrency,  \* STATIC_NODEPOOL_CREATE_CONCURRENCY
  DeleteConcurrency,  \* STATIC_NODEPOOL_DELETE_CONCURRENCY
  FaultKinds,         \* the kinds of fault that may happen
  MaxFaults,          \* bound on the number of faults
  MaxEdits            \* bound on the number of edits of the ConfigMap

\* "rejected": constructDesiredNodePools returns an error; "malformed":
\* ParseConfigMap fails, or there is no nodepool config in the ConfigMap.
ConfigMap == [class: {"absent", "malformed", "rejected", "valid"},
              pools: Seq(DesiredEntry)]

ASSUME ProvisionerAssumption ==
  /\ ConfigMaps \subseteq ConfigMap
  /\ InitPools \subseteq [Names -> Pool \union {NoPool}]
  /\ CreateConcurrency \in Nat /\ DeleteConcurrency \in Nat
  /\ MaxFaults \in Nat /\ MaxEdits \in Nat

VARIABLES
  cm,          \* the ConfigMap
  slices,      \* the partitions that active Slices name
  nodes,       \* the registered Node objects
  pools,       \* the node pools, in GKE
  seen,        \* the informer caches: ConfigMap, Slices and Nodes
  queued,      \* the key is in the work queue
  pc,          \* where the Reconcile is
  desired,     \* desired node pools, from the ConfigMap it read
  existing,    \* node pools as it listed them
  locked,      \* pools it found to be in use by a Slice
  plan,        \* jobs each phase has not started yet
  marking,     \* delete jobs whose goroutine is about to mark its pool
  requesting,  \* jobs whose goroutine is about to send its request
  waiting,     \* jobs whose goroutine waits for its GKE operation
  failed,      \* a goroutine of this phase has sent an error
  expired,     \* the create timeout has expired
  inProgress,  \* inProgressDeletesNPName of the provider
  faults,      \* faults so far
  edits        \* edits of the ConfigMap so far

world  == <<cm, slices, nodes, pools>>
frame  == <<desired, existing, locked, plan, marking, requesting, waiting, failed,
            expired>>
bounds == <<faults, edits>>
vars   == <<world, seen, queued, pc, frame, inProgress, bounds>>

-----------------------------------------------------------------------------
NoPlan  == [ph \in Phases |-> {}]
NoPools == [n \in Names |-> NoPool]

DeletePhases == {"missing", "error", "update"}

Init ==
  /\ cm \in ConfigMaps
  /\ slices = {} /\ nodes = {}
  /\ pools \in InitPools
  /\ seen = [cm |-> cm, slices |-> slices, nodes |-> nodes]
  /\ queued = (cm.class # "absent")
  /\ pc = "idle"
  /\ desired = <<>> /\ existing = NoPools /\ locked = {}
  /\ plan = NoPlan /\ marking = {} /\ requesting = {} /\ waiting = {}
  /\ failed = FALSE /\ expired = FALSE
  /\ inProgress = {}
  /\ faults = 0 /\ edits = 0

\* A fault of this kind happens; no fault happens.
Fault(kind) == kind \in FaultKinds /\ faults < MaxFaults /\ faults' = faults + 1
NoFault     == UNCHANGED faults

\* Mutant: what was planned is carried over to the next Reconcile.
ClearFrameButPlan ==
  /\ desired' = <<>> /\ existing' = NoPools /\ locked' = {}
  /\ marking' = {} /\ requesting' = {} /\ waiting' = {}
  /\ failed' = FALSE /\ expired' = FALSE
  /\ UNCHANGED plan

ClearFrame ==
  /\ desired' = <<>> /\ existing' = NoPools /\ locked' = {}
  /\ plan' = NoPlan /\ marking' = {} /\ requesting' = {} /\ waiting' = {}
  /\ failed' = FALSE /\ expired' = FALSE

\* Reconcile returns; an error puts the key back into the queue.
Return(err) == pc' = "idle" /\ queued' = (queued \/ err) /\ ClearFrame

-----------------------------------------------------------------------------
(* Users and workloads. *)

EditConfig ==
  /\ edits < MaxEdits /\ edits' = edits + 1
  /\ cm' \in ConfigMaps \ {cm}
  /\ UNCHANGED <<slices, nodes, pools, seen, queued, pc, frame, inProgress, faults>>

\* A workload forms a Slice from a partition that some node offers.
SliceAcquire(s) ==
  /\ s \notin slices /\ \E x \in nodes : x.partition = s
  /\ slices' = slices \union {s}
  /\ UNCHANGED <<cm, nodes, pools, seen, queued, pc, frame, inProgress, bounds>>

SliceRelease(s) ==
  /\ s \in slices
  /\ slices' = slices \ {s}
  /\ UNCHANGED <<cm, nodes, pools, seen, queued, pc, frame, inProgress, bounds>>

User ==
  \/ EditConfig
  \/ \E s \in Subblocks : SliceAcquire(s) \/ SliceRelease(s)

-----------------------------------------------------------------------------
(* Informers.  The controller watches the ConfigMap and the Slices; nodes  *)
(* are cached, but no event of theirs reaches the queue.                   *)

SeeConfig ==
  /\ seen.cm # cm
  /\ seen' = [seen EXCEPT !.cm = cm]
  /\ queued' = TRUE
  /\ UNCHANGED <<world, pc, frame, inProgress, bounds>>

\* Mutant: the controller does not watch Slices.
SeeSlicesSilently ==
  /\ seen.slices # slices
  /\ seen' = [seen EXCEPT !.slices = slices]
  /\ UNCHANGED <<world, queued, pc, frame, inProgress, bounds>>

SeeSlices ==
  /\ seen.slices # slices
  /\ seen' = [seen EXCEPT !.slices = slices]
  /\ queued' = TRUE
  /\ UNCHANGED <<world, pc, frame, inProgress, bounds>>

SeeNodes ==
  /\ seen.nodes # nodes
  /\ seen' = [seen EXCEPT !.nodes = nodes]
  /\ UNCHANGED <<world, queued, pc, frame, inProgress, bounds>>

\* The periodic resync of the informers repeats what they have cached.
Resync ==
  /\ ~queued /\ (seen.cm.class # "absent" \/ seen.slices # {})
  /\ queued' = TRUE
  /\ UNCHANGED <<world, seen, pc, frame, inProgress, bounds>>

Informers == SeeConfig \/ SeeSlices \/ SeeNodes

-----------------------------------------------------------------------------
(* GKE: operations end, pools fail, nodes register and go away. *)

\* Another pool holds the reservation subblock of pool n.
CapacityTaken(n) ==
  \E m \in Names \ {n} : /\ Exists(pools[m]) /\ pools[m].status # "PROVISIONING"
                         /\ pools[m].sub = pools[n].sub

SetStatus(n, status) == pools' = [pools EXCEPT ![n].status = status]

CreateOpDone(n) ==
  /\ pools[n].status = "PROVISIONING" /\ ~CapacityTaken(n)
  /\ SetStatus(n, "RUNNING")
  /\ UNCHANGED <<cm, slices, nodes, seen, queued, pc, frame, inProgress, bounds>>

CreateOpFails(n) ==
  /\ pools[n].status = "PROVISIONING"
  /\ IF CapacityTaken(n) THEN NoFault ELSE Fault("opCreate")
  /\ SetStatus(n, "ERROR")
  /\ UNCHANGED <<cm, slices, nodes, seen, queued, pc, frame, inProgress, edits>>

DeleteOpDone(n) ==
  /\ pools[n].status = "STOPPING"
  /\ pools' = [pools EXCEPT ![n] = NoPool]
  /\ nodes' = {x \in nodes : x.pool # n}
  /\ UNCHANGED <<cm, slices, seen, queued, pc, frame, inProgress, bounds>>

DeleteOpFails(n) ==
  /\ pools[n].status = "STOPPING" /\ Fault("opDelete")
  /\ \E status \in {"RUNNING", "ERROR"} : SetStatus(n, status)
  /\ UNCHANGED <<cm, slices, nodes, seen, queued, pc, frame, inProgress, edits>>

PoolFails(n) ==
  /\ pools[n].status = "RUNNING" /\ Fault("poolError")
  /\ SetStatus(n, "ERROR")
  /\ UNCHANGED <<cm, slices, nodes, seen, queued, pc, frame, inProgress, edits>>

NodeOf(n) == [pool |-> n, partition |-> pools[n].sub, static |-> pools[n].static]

NodeRegisters(n) ==
  /\ pools[n].status = "RUNNING" /\ NodeOf(n) \notin nodes
  /\ nodes' = nodes \union {NodeOf(n)}
  /\ UNCHANGED <<cm, slices, pools, seen, queued, pc, frame, inProgress, bounds>>

NodeLost(n) ==
  /\ Exists(pools[n]) /\ NodeOf(n) \in nodes /\ Fault("nodeLoss")
  /\ nodes' = nodes \ {NodeOf(n)}
  /\ UNCHANGED <<cm, slices, pools, seen, queued, pc, frame, inProgress, edits>>

OpEnds(n) ==
  \/ CreateOpDone(n) \/ CreateOpFails(n)
  \/ DeleteOpDone(n) \/ DeleteOpFails(n)

Gke(n) == OpEnds(n) \/ PoolFails(n) \/ NodeRegisters(n) \/ NodeLost(n)

-----------------------------------------------------------------------------
(* Reconcile: reading and planning. *)

\* An absent or malformed ConfigMap ends the Reconcile without an error, a
\* rejected one with an error.
Start ==
  /\ pc = "idle" /\ queued
  /\ \/ /\ seen.cm.class \in {"absent", "malformed"}
        /\ queued' = FALSE
        /\ UNCHANGED <<pc, desired>>
     \/ /\ seen.cm.class = "rejected"
        /\ queued' = TRUE
        /\ UNCHANGED <<pc, desired>>
     \/ /\ seen.cm.class = "valid"
        /\ queued' = FALSE
        /\ desired' = seen.cm.pools
        /\ pc' = "list"
  /\ UNCHANGED <<world, seen, existing, locked, plan, marking, requesting,
                 waiting, failed, expired, inProgress, bounds>>

List ==
  /\ pc = "list"
  /\ \/ /\ NoFault
        /\ existing' = pools
        /\ pc' = "plan"
        /\ UNCHANGED <<queued, desired, locked, plan, marking, requesting, waiting,
                       failed, expired>>
     \/ Fault("list") /\ Return(TRUE)
  /\ UNCHANGED <<world, seen, inProgress, edits>>

\* DiffStaticNodePools, the in-use lock and the filters.
Plan ==
  /\ pc = "plan"
  /\ \/ /\ DiffFails(desired) /\ NoFault
        /\ Return(TRUE)
     \/ /\ ~DiffFails(desired) /\ ReadsLock(existing, desired) /\ Fault("list")
        /\ Return(TRUE)
     \/ /\ ~DiffFails(desired) /\ NoFault
        /\ locked' = IF ReadsLock(existing, desired)
                     THEN GetInUseNodepools(seen.slices, seen.nodes) ELSE {}
        /\ plan' = ReconcilePlan(existing, desired, locked')
        /\ pc' = "missing"
        /\ UNCHANGED <<queued, desired, existing, marking, requesting, waiting,
                       failed, expired>>
  /\ UNCHANGED <<world, seen, inProgress, edits>>

-----------------------------------------------------------------------------
(* Bulk operations: the goroutines that DeleteStaticNodePools and          *)
(* EnsureStaticNodePools start, and their common end.                      *)

\* Mutant: the delete concurrency is not clamped either.
UnclampedSlots ==
  CASE pc = "create" -> CreateConcurrency
    [] pc \in DeletePhases -> DeleteConcurrency

\* Slots of the semaphore.  A delete concurrency below 1 counts as 1.
Slots ==
  CASE pc = "create" -> CreateConcurrency
    [] pc \in DeletePhases -> IF DeleteConcurrency = 0 THEN 1 ELSE DeleteConcurrency

\* The semaphore has a slot for job j of the current phase.
Launch(j) ==
  /\ j \in plan[pc] /\ Cardinality(marking \union requesting \union waiting) < Slots
  /\ plan' = [plan EXCEPT ![pc] = @ \ {j}]

\* Mutant: the error of a goroutine is dropped.
FinishQuietly(j, err) ==
  /\ marking' = marking \ {j} /\ requesting' = requesting \ {j}
  /\ waiting' = waiting \ {j}
  /\ UNCHANGED failed

\* A goroutine ends.
Finish(j, err) ==
  /\ marking' = marking \ {j} /\ requesting' = requesting \ {j}
  /\ waiting' = waiting \ {j}
  /\ failed' = (failed \/ err)

\* Mutant: an error return keeps the in-progress mark.
FinishDeleteMarked(j, err) ==
  /\ Finish(j, err)
  /\ inProgress' = IF err THEN inProgress ELSE inProgress \ {j[1]}

\* DeleteNodePool returns, and its deferred call unmarks the name.
FinishDelete(j, err) == Finish(j, err) /\ inProgress' = inProgress \ {j[1]}

Request(j) ==
  /\ marking' = marking \ {j} /\ requesting' = requesting \union {j}
  /\ UNCHANGED <<waiting, failed>>

Wait(j) ==
  /\ requesting' = requesting \ {j} /\ waiting' = waiting \union {j}
  /\ UNCHANGED <<marking, failed>>

\* DeleteNodePool looks the name up in inProgress and gives up if it is there;
\* it marks the name in a second step.
StartDelete(j) ==
  /\ pc \in DeletePhases /\ Launch(j)
  /\ \/ j[1] \in inProgress /\ Finish(j, TRUE)
     \/ /\ j[1] \notin inProgress
        /\ marking' = marking \union {j}
        /\ UNCHANGED <<requesting, waiting, failed>>
  /\ UNCHANGED <<world, seen, queued, pc, desired, existing, locked, expired,
                 inProgress, bounds>>

MarkDelete(j) ==
  /\ pc \in DeletePhases /\ j \in marking
  /\ inProgress' = inProgress \union {j[1]}
  /\ Request(j)
  /\ UNCHANGED <<world, seen, queued, pc, desired, existing, locked, plan, expired,
                 bounds>>

DeleteAccepted(n) == pools[n].status \in {"RUNNING", "ERROR"} /\ SetStatus(n, "STOPPING")

\* The request.  GKE refuses to delete a pool on which an operation is running.
RequestDelete(j) ==
  /\ pc \in DeletePhases /\ j \in requesting
  /\ \/ ~Exists(pools[j[1]]) /\ NoFault /\ FinishDelete(j, FALSE) /\ UNCHANGED pools
     \/ DeleteAccepted(j[1]) /\ NoFault /\ Wait(j) /\ UNCHANGED inProgress
     \/ /\ \/ pools[j[1]].status \in {"PROVISIONING", "STOPPING"} /\ NoFault
           \/ Fault("refuse")
        /\ FinishDelete(j, TRUE)
        /\ UNCHANGED pools
     \/ DeleteAccepted(j[1]) /\ Fault("lost") /\ FinishDelete(j, TRUE)
  /\ UNCHANGED <<cm, slices, nodes, seen, queued, pc, desired, existing, locked,
                 plan, expired, edits>>

\* Mutant: a delete operation that is still running counts as ended.
AwaitAcceptedDelete(j) ==
  /\ pc \in DeletePhases /\ j \in waiting
  /\ NoFault /\ FinishDelete(j, FALSE)
  /\ UNCHANGED <<world, seen, queued, pc, desired, existing, locked, plan, expired, edits>>

\* Mutant: when polling fails, the request is sent again.
AwaitDeleteRetrying(j) ==
  /\ pc \in DeletePhases /\ j \in waiting
  /\ \/ pools[j[1]].status # "STOPPING" /\ NoFault /\ FinishDelete(j, FALSE)
     \/ /\ Fault("poll")
        /\ waiting' = waiting \ {j} /\ requesting' = requesting \union {j}
        /\ UNCHANGED <<marking, failed, inProgress>>
  /\ UNCHANGED <<world, seen, queued, pc, desired, existing, locked, plan, expired, edits>>

\* An operation that has ended counts as a success, however it ended.
AwaitDelete(j) ==
  /\ pc \in DeletePhases /\ j \in waiting
  /\ \/ pools[j[1]].status # "STOPPING" /\ NoFault /\ FinishDelete(j, FALSE)
     \/ Fault("poll") /\ FinishDelete(j, TRUE)
  /\ UNCHANGED <<world, seen, queued, pc, desired, existing, locked, plan, expired, edits>>

\* checkNodePoolExists, under the context that carries the create timeout.
StartCreate(j) ==
  /\ pc = "create" /\ Launch(j)
  /\ \/ ~expired /\ Exists(pools[j[1]])  /\ NoFault /\ Finish(j, FALSE)
     \/ ~expired /\ ~Exists(pools[j[1]]) /\ NoFault /\ Request(j)
     \/ (IF expired THEN NoFault ELSE Fault("get")) /\ Finish(j, TRUE)
  /\ UNCHANGED <<world, seen, queued, pc, desired, existing, locked, expired,
                 inProgress, edits>>

CreateAccepted(j) ==
  /\ ~Exists(pools[j[1]])
  /\ pools' = [pools EXCEPT ![j[1]] = StaticNodePoolForSubBlock(desired[j[2]])]

\* The request is sent without the context: the timeout does not stop it.
RequestCreate(j) ==
  /\ pc = "create" /\ j \in requesting
  /\ \/ CreateAccepted(j) /\ NoFault /\ Wait(j)
     \/ /\ (Exists(pools[j[1]]) /\ NoFault) \/ Fault("refuse")
        /\ Finish(j, TRUE)
        /\ UNCHANGED pools
     \/ CreateAccepted(j) /\ Fault("lost") /\ Finish(j, TRUE)
  /\ UNCHANGED <<cm, slices, nodes, seen, queued, pc, desired, existing, locked,
                 plan, expired, inProgress, edits>>

AwaitCreate(j) ==
  /\ pc = "create" /\ j \in waiting
  /\ \/ /\ ~expired /\ pools[j[1]].status # "PROVISIONING" /\ NoFault
        /\ Finish(j, FALSE)
     \/ (IF expired THEN NoFault ELSE Fault("poll")) /\ Finish(j, TRUE)
  /\ UNCHANGED <<world, seen, queued, pc, desired, existing, locked, plan, expired,
                 inProgress, edits>>

CreateDeadline ==
  /\ pc = "create" /\ ~expired /\ Fault("deadline")
  /\ expired' = TRUE
  /\ UNCHANGED <<world, seen, queued, pc, desired, existing, locked, plan,
                 marking, requesting, waiting, failed, inProgress, edits>>

NextPhase == [missing |-> "error", error |-> "update", update |-> "create"]

\* wg.Wait() returns: the Reconcile fails, goes on, or is done.
BulkReturn ==
  /\ pc \in Phases
  /\ plan[pc] = {} /\ marking = {} /\ requesting = {} /\ waiting = {}
  /\ \/ (failed \/ pc = "create") /\ Return(failed)
     \/ /\ ~failed /\ pc \in DeletePhases
        /\ pc' = NextPhase[pc]
        /\ UNCHANGED <<queued, frame>>
  /\ UNCHANGED <<world, seen, inProgress, bounds>>

\* The manager restarts with synchronised caches; what GKE was asked to do
\* goes on.
Crash ==
  /\ Fault("crash")
  /\ pc' = "idle" /\ ClearFrame /\ inProgress' = {}
  /\ seen' = [cm |-> cm, slices |-> slices, nodes |-> nodes]
  /\ queued' = (cm.class # "absent" \/ slices # {})
  /\ UNCHANGED <<world, edits>>

-----------------------------------------------------------------------------
Jobs2Do == (UNION {plan[ph] : ph \in Phases}) \union marking \union requesting \union waiting

Worker(j) ==
  \/ StartDelete(j) \/ MarkDelete(j) \/ RequestDelete(j) \/ AwaitDelete(j)
  \/ StartCreate(j) \/ RequestCreate(j) \/ AwaitCreate(j)

\* What the running Reconcile does, the expiry of its timeout left aside.
Reconcile ==
  \/ Start \/ List \/ Plan \/ BulkReturn
  \/ \E j \in Jobs2Do : Worker(j)

Next ==
  \/ User \/ Informers \/ Resync
  \/ \E n \in Names : Gke(n)
  \/ Reconcile \/ CreateDeadline \/ Crash

Spec == Init /\ [][Next]_vars

(***************************************************************************)
(* Fairness.  The Go scheduler runs the goroutines of a Reconcile, the     *)
(* informers deliver what they watch, and GKE ends the operations it       *)
(* accepted.  Users and faults are never obliged to act.  FairSpec also    *)
(* relies on the periodic resync; PromptSpec does not.                     *)
(***************************************************************************)
PromptFairness ==
  /\ WF_vars(Reconcile)
  /\ WF_vars(SeeConfig) /\ WF_vars(SeeSlices) /\ WF_vars(SeeNodes)
  /\ \A n \in Names : WF_vars(OpEnds(n))

PromptSpec == Spec /\ PromptFairness
FairSpec   == Spec /\ PromptFairness /\ WF_vars(Resync)

-----------------------------------------------------------------------------
(* Types. *)

\* The state has its type: a job to create names its entry of the desired
\* list, a pool that is not in the configuration has no entry, and in-progress
\* marks are pool names.  (static_nodepool_controller.go:112-222, gke.go:40)
TypeOK ==
  /\ cm \in ConfigMaps
  /\ slices \subseteq Subblocks
  /\ nodes \subseteq Node
  /\ pools \in [Names -> Pool \union {NoPool}]
  /\ seen \in [cm: ConfigMaps, slices: SUBSET Subblocks, nodes: SUBSET Node]
  /\ queued \in BOOLEAN
  /\ pc \in {"idle", "list", "plan"} \union Phases
  /\ desired \in {c.pools : c \in ConfigMaps} \union {<<>>}
  /\ existing \in [Names -> Pool \union {NoPool}]
  /\ locked \subseteq Names
  /\ plan \in [Phases -> SUBSET (Names \X Nat)]
  /\ plan["missing"] \subseteq Names \X {0}
  /\ \A ph \in Phases \ {"missing"} : plan[ph] \subseteq Jobs(desired, DOMAIN desired)
  /\ \A j \in marking \union requesting \union waiting :
       IF pc = "missing" THEN j \in Names \X {0} ELSE j \in Jobs(desired, DOMAIN desired)
  /\ failed \in BOOLEAN /\ expired \in BOOLEAN
  /\ inProgress \subseteq Names
  /\ faults \in Nat /\ edits \in Nat

\* The bulk operations leave nothing behind.
IdleClean ==
  pc \notin Phases => plan = NoPlan /\ marking = {} /\ requesting = {} /\ waiting = {}

TypeInv == TypeOK /\ IdleClean

(* Safety. *)

\* No two node pools ever consume the same reservation subblock: a pool is not
\* created on a subblock before the pool that held it is gone, whether that
\* pool was renamed, updated, in ERROR, or kept because a Slice uses it
\* (static_nodepool_controller.go:168-220).
CapacityExclusive ==
  \A m, n \in Names : m # n /\ Exists(pools[m]) /\ Exists(pools[n])
                        => pools[m].sub # pools[n].sub

StartsDeleting(n) == pools[n].status # "STOPPING" /\ pools'[n].status = "STOPPING"

\* A Reconcile never deletes a pool that it found to be in use by a Slice,
\* unless the pool was in ERROR when it listed the pools
\* (static_nodepool_controller.go:147-167).
LockedPoolKept ==
  [][\A n \in Names : StartsDeleting(n) => n \notin locked \/ InError(existing[n])]_vars

\* When a Reconcile has read the Slices, it plans to delete no healthy pool that
\* its caches show in use, and to create none on the subblock of such a pool
\* (static_nodepool_controller.go:122-187).
LockHonoured ==
  [][pc = "plan" /\ pc' = "missing" =>
       LET inUse == GetInUseNodepools(seen.slices, seen.nodes)
       IN  /\ \A j \in plan'["missing"] \union plan'["update"] : j[1] \notin inUse
           /\ \A j \in plan'["create"] : \A n \in inUse \ {j[1]} :
                LET p == existing[n]
                IN  Exists(p) /\ ~InError(p) /\ p.hash # NoHash
                      => p.sub # desired[j[2]].sub]_vars

\* The pool is what the configuration this Reconcile works from asks for.
UpToDate(p, n, des) ==
  /\ \E i \in DOMAIN des : des[i].name = n
  /\ \A i \in DOMAIN des : des[i].name = n => ~Outdated(p, des[i])

\* A pool that was healthy and as configured when it was listed, and a pool
\* the provisioner does not own and the configuration does not name, is never
\* deleted by that Reconcile, whatever happens between the List and the request
\* (gke.go:122-163).
ConfiguredPoolKept ==
  [][\A n \in Names : StartsDeleting(n) =>
       /\ ~(~InError(existing[n]) /\ UpToDate(existing[n], n, desired))
       /\ existing[n].static \/ n \in DesiredNames(desired)]_vars

\* An in-progress mark has a goroutine that is deleting that pool: no return
\* path of DeleteNodePool leaks a mark, which would make the provider refuse to
\* delete the pool until the manager restarts (gke.go:76-104).
NoLeakedMark == inProgress \subseteq {j[1] : j \in requesting \union waiting}

\* A Reconcile that ends without an error after its create phase has applied
\* the configuration it read: every entry has its pool, up to date, except where
\* a pool in use holds the name or the subblock of the entry.  It holds as long
\* as GKE ends the operations it accepts well and no answer is lost
\* (static_nodepool_controller.go:189-222).
SuccessMeansApplied ==
  [][pc = "create" /\ pc' = "idle" /\ ~failed =>
       \A i \in DOMAIN desired :
         LET d == desired[i]
             p == pools[d.name]
         IN  \/ p.status \in {"PROVISIONING", "RUNNING"} /\ ~Outdated(p, d)
             \/ \E n \in locked : n = d.name \/ (Exists(existing[n]) /\ existing[n].sub = d.sub)]_vars

\* A pool of the provisioner that the configuration of this Reconcile does not name.
Leftover(n) == n \notin DesiredNames(desired) /\ Exists(pools[n]) /\ pools[n].static

\* A Reconcile creates no pool before every pool that left the configuration is gone,
\* but those it found in use: also when a delete was refused, lost its answer, met
\* one of an earlier Reconcile, or was cut off by a crash.  It holds as long as no
\* delete operation fails (static_nodepool_controller.go:111-222, gke.go:225-242).
NothingLeftOver == pc = "create" => \A n \in Names : Leftover(n) => n \in locked

\* How far a Reconcile is from its return: the stages it has left, and in the current
\* one the steps that its goroutines have left, at most.
Stage == [list |-> 6, plan |-> 5, missing |-> 4, error |-> 3, update |-> 2, create |-> 1,
          idle |-> 0]

StepsLeft ==
  IF pc \notin Phases THEN 0
  ELSE 4 * Cardinality(plan[pc]) + 3 * Cardinality(marking) + 2 * Cardinality(requesting)
         + Cardinality(waiting)

progress == <<pc, plan, marking, requesting, waiting>>

ComesNearer ==
  \/ Stage[pc'] < Stage[pc]
  \/ pc' = pc /\ StepsLeft' \in 0..(StepsLeft - 1)

\* A Reconcile takes finitely many steps: each of them brings it nearer to its return,
\* also when a request, a poll or a List fails, and nothing that GKE, users, the
\* informers or its own timeout do takes it back.  All it can do besides is wait
\* (static_nodepool_controller.go:111-222, gke.go:76-104, 169-242 and 441-480).
ReconcileAdvances ==
  [][pc # "idle" /\ (Reconcile \/ progress' # progress) => ComesNearer]_vars

(* Liveness. *)

Applicable(c) == c.class = "valid" /\ ~DiffFails(c.pools)

\* GKE has what the configuration asks for, and nothing more of ours.
Converged ==
  /\ \A i \in DOMAIN cm.pools :
       LET p == pools[cm.pools[i].name]
       IN  p.status = "RUNNING" /\ ~Outdated(p, cm.pools[i])
  /\ \A n \in Names : Exists(pools[n]) /\ pools[n].static => n \in DesiredNames(cm.pools)

\* The manager knows the ConfigMap, and a Reconcile that runs works from it and has
\* found nothing to do.
NothingToDo ==
  /\ seen.cm = cm
  /\ pc # "idle" => desired = cm.pools
  /\ pc = "plan" => ToCreate(existing, desired) \union ToDeleteMissing(existing, desired) = {}
  /\ Jobs2Do = {}

AtRest == Applicable(cm) /\ Converged /\ NothingToDo

ConfiguredPoolFails ==
  \E n \in DesiredNames(cm.pools) : ~InError(pools[n]) /\ InError(pools'[n])

\* Rest ends only with an edit of the ConfigMap or with the failure of a configured
\* pool: no Reconcile, whenever it reads what, no crash, no Slice and nothing else
\* that GKE does makes the provisioner touch a pool again
\* (gke.go:106-166, static_nodepool_controller.go:62-223).
RestIsKept == [][AtRest /\ ~AtRest' => cm' # cm \/ ConfiguredPoolFails]_vars

\* Once the ConfigMap is, and stays, one that can be applied and no Slice is
\* left, the node pools become, and stay, those it asks for, whatever was
\* running, failing or in use before
\* (static_nodepool_controller.go:62-223 and 265-282).
Converges == <>[](Applicable(cm) /\ slices = {}) => <>[]Converged

\* Every Reconcile returns: no bulk operation waits for ever for a slot of its
\* semaphore or for one of its goroutines (gke.go:169-242 and 441-480).
ReconcileReturns == pc # "idle" ~> pc = "idle"

\* The provisioner does not thrash: from some time on no pool is being
\* deleted, although it keeps reconciling (gke.go:106-166).
EventuallyQuiet == <>[](\A n \in Names : pools[n].status # "STOPPING")

-----------------------------------------------------------------------------
(***************************************************************************)
(* Why CapacityExclusive holds.  It needs configurations that name each    *)
(* subblock once and keep the static-nodepool label, a cluster that starts *)
(* with pools of that kind, and a GKE on which no delete operation fails.  *)
(* The argument follows one Reconcile: Snapshot relates what was listed to *)
(* what exists, Covered says that every pool in the way of a pool to       *)
(* create is still due to be deleted, Unobstructed that none is left when  *)
(* pools are created.                                                      *)
(***************************************************************************)
Labelled(p) == p.static /\ p.hash # NoHash /\ p.hash.sub = p.sub

DistinctCapacity(d) ==
  /\ \A i, k \in DOMAIN d : i # k => d[i].sub # d[k].sub
  /\ \A i \in DOMAIN d : d[i].cfg \notin Relabeling

CapacityHypotheses ==
  /\ "opDelete" \notin FaultKinds
  /\ \A c \in ConfigMaps : DistinctCapacity(c.pools)
  /\ \A P \in InitPools : \A n \in Names : Exists(P[n]) =>
       /\ Labelled(P[n])
       /\ \A m \in Names \ {n} : Exists(P[m]) => P[m].sub # P[n].sub

\* A pool on the capacity that job j is to consume.
InTheWay(m, j) ==
  m # j[1] /\ Exists(pools[m]) /\ pools[m].sub = desired[j[2]].sub

\* The delete phases that are not over.
Ahead == [missing |-> DeletePhases, error |-> {"error", "update"}, update |-> {"update"}]

ToBeDeleted ==
  {j[1] : j \in (UNION {plan[ph] : ph \in Ahead[pc]})
                  \union marking \union requesting \union waiting}

PoolsLabelled == \A n \in Names : Exists(pools[n]) => Labelled(pools[n])

Snapshot ==
  pc = "plan" => \A n \in Names : Exists(pools[n]) =>
    /\ Exists(existing[n])
    /\ existing[n].sub = pools[n].sub
    /\ existing[n].hash = pools[n].hash
    /\ existing[n].static = pools[n].static

StoppingIsFinal ==
  pc \in DeletePhases =>
    \A j \in waiting : pools[j[1]].status \in {"STOPPING", "NONE"}

Covered ==
  pc \in DeletePhases /\ ~failed =>
    \A j \in plan["create"] : \A m \in Names : InTheWay(m, j) => m \in ToBeDeleted

Unobstructed ==
  pc = "create" =>
    \A j \in plan["create"] \union requesting : \A m \in Names : ~InTheWay(m, j)

\* The inductive invariant, for CapacityHypotheses.
IInv ==
  /\ TypeInv
  /\ PoolsLabelled /\ Snapshot /\ StoppingIsFinal /\ Covered /\ Unobstructed
  /\ CapacityExclusive
=============================================================================
