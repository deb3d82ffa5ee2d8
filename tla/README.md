# Static node pool provisioner: TLA+ models, checks and proofs

The provisioner is a Kubernetes controller with one key in its work queue. It
reads one ConfigMap, lists the GKE node pools of the cluster, compares the two,
and deletes and creates node pools until they agree, except that it must not
take a pool away from a running Slice. This directory models that, with the
users, the informer caches and GKE around it.

## The system and its components

| Component | State | Operations | Modelled in |
| :-- | :-- | :-- | :-- |
| Reconcile loop (`internal/controller`) | none of its own between two Reconciles; the frame of the running one | `Reconcile`, `constructDesiredNodePools`, `GetInUseNodepools`, `SetupWithManager` | `Provisioner`, `NodePoolDiff` |
| GKE provider, diff (`internal/cloud/gke.go`) | none | `ListNodePools`, `DiffStaticNodePools`, `StaticNodePoolForSubBlock`, `nodePoolHash` | `NodePoolDiff` |
| GKE provider, bulk operations (`gke.go`, `gke_service.go`) | `inProgressDeletesNPName`, goroutines, semaphore and error channel of the running bulk | `EnsureStaticNodePools`, `DeleteStaticNodePools`, `DeleteNodePool`, `waitForGkeOp` | `Provisioner` |
| ConfigMap parsing, merging, naming (`internal/config`, `utils`) | the maps of the configurations | `ParseConfigMap`, `MergeConfig`, `ParseSubBlocks`, `SetNodePoolName` | `ConfigMerge`; its outcome is the input of `Provisioner` |
| Manager wiring (`cmd`) | flags, environment, caches, work queue | start, restart, leader election (off by default) | start, restart and caches in `Provisioner`, a rolling update in `TwoManagers` |
| GCP auth plugin (`internal/auth/gcp`) | cached token and expiry under a mutex; the persisted copy | `Token`, `update`, `RoundTrip` | `AuthToken` |
| Slice types, mock provider, string helpers | none | - | not modelled |

How they interact: the watches on the ConfigMap and on Slices put the one key
into the queue; `Reconcile` calls the provider synchronously; each bulk
operation of the provider starts goroutines and waits for all of them; a
goroutine calls GKE and polls its long-running operation; an error travels back
through the error channel and the return of `Reconcile`, which makes
controller-runtime queue the key again. Nodes and node pools are not watched.

What is hard here, and what would be correct:

- *Capacity*: a reservation subblock must not be claimed by two pools, though it
  moves from one name to another in a single Reconcile, by operations that may
  fail, hang, or be repeated after a crash.
- *The in-use lock*: it is computed from caches and used later, while Slices
  come and go.
- *Partial failure*: each phase runs only if the one before had no error, so
  errors must neither be dropped (work would be skipped silently) nor block
  for ever.
- *Idempotence across retries and crashes*: the next Reconcile meets pools
  that are still being created or deleted.
- *Convergence*: what is deferred, lost or failed is made up for by some later
  event.

- *Two managers*: leader election is off by default, so a rolling update runs
  two of them on one cluster, each with caches of its own.
- *Sharing*: label maps that configurations share, and one token that requests
  refresh, persist and reset at once.

`PROJECT.json` lists the hazards with the lines they bite at.

## Modules

`NodePoolDiff` holds the pure part: the desired node pool of an entry, its
hash, the four lists of `DiffStaticNodePools`, the lock and the filters of
`Reconcile`, put together in `ReconcilePlan`. Names, subblocks and
configuration contents are members of constant sets. The hash label is the
record of the hashed fields, so the model has no hash collisions. The lists of
the code may hold a name twice; a list is a set of jobs `<<name, i>>`, where `i`
is the position of the entry in the desired list (0 for a pool without entry).
`LongNames` are the names of more than 40 characters, which fail the diff;
`Relabeling` are the configurations whose `nodeLabels` replace the
`tpu-provisioner-static-nodepool` label.

`Provisioner` is the state machine.

| Variables | Code |
| :-- | :-- |
| `cm`, `slices`, `nodes` | the ConfigMap, the partitions Slices name, the Node objects in the API server |
| `pools` | the node pools in GKE |
| `seen`, `queued` | the informer caches and the work queue |
| `pc`, `desired`, `existing`, `locked`, `plan` | position and locals of the running `Reconcile` (`inUseNodepools` is `locked`, the filtered lists are `plan`) |
| `marking`, `requesting`, `waiting`, `failed`, `expired` | goroutines of the running bulk operation by the place they are at, its error channel, the create timeout |
| `inProgress` | `inProgressDeletesNPName` |
| `faults`, `edits` | bounds of the model |

| Actions | Code |
| :-- | :-- |
| `Start` | `Get` of the ConfigMap, `ParseConfigMap`, `hasAnyConfig`, `constructDesiredNodePools` |
| `List`, `Plan` | `ListNodePools`; diff, lock and filters, atomic because they only read caches and locals |
| `StartDelete`, `MarkDelete`, `RequestDelete`, `AwaitDelete` | `DeleteNodePool`: Load, Store, the request, the polling; every return removes the mark |
| `StartCreate`, `RequestCreate`, `AwaitCreate`, `CreateDeadline` | a goroutine of `EnsureStaticNodePools`: Get, request (which ignores the timeout), polling |
| `BulkReturn` | `wg.Wait()`, and what `Reconcile` does with the errors |
| `SeeConfig`, `SeeSlices`, `SeeNodes`, `Resync` | informers; only the first two and the resync queue the key |
| `Crash` | end and restart of the process; GKE's operations go on |
| `EditConfig`, `SliceAcquire`, `SliceRelease` | users and workloads (external) |
| `CreateOpDone` ... `NodeLost` | GKE (external) |

Four assumptions about GKE are in the external actions: it refuses a request
for a pool on which an operation runs, and a create of a name that exists; a
create operation ends in ERROR when another pool holds the subblock; a pool's
nodes disappear with it. The controller sees a status other than ERROR only
through the presence of the pool, as in the code.

The definitions whose comment starts with `Mutant:` change the definition after
them the way a plausible bug would. No specification uses them; they exist to
show that each property notices such a bug.

The `MC` modules give the constants their values; `MCProvisioner` also states the
two claims of the repository's README that the code does not keep. The modules
that end in `_proofs` hold the theorems: `Provisioner_proofs` types, capacity and
marks; `DeleteRules_proofs` what a Reconcile may not delete; `Success_proofs` what it
has done when it ends well, what it has deleted when it creates, and that it ends;
`SharedPools_proofs` rest, and lemmas about one manager among several;
`TwoManagers_proofs` the theorems about two; and one for each of
`CapacityRefinement`, `ConfigMerge` and `AuthToken`.

`CapacityAllocator` is the abstract specification of what the provisioner
promises about subblocks: a name acquires a free subblock that some ConfigMap
asks for, holds it, begins to release it and ends the release. It knows no
Reconcile. `CapacityRefinement` maps `Provisioner` onto it: a pool holds its
subblock from the accepted create request on, in ERROR too, and releases it
while it is `STOPPING`. All reading, planning, marking, failing and crashing maps
to stuttering. `TwoManagers` extends it: the mapping reads the pools only, so it is
the same for two managers.

`ConfigMerge` is the way from the ConfigMap to the node pools of the diff.

| Variables | Code |
| :-- | :-- |
| `doc` | the parsed YAML of the ConfigMap: a default configuration and a list of entries (reservation, block, range, configuration) |
| `heap` | the label maps by identity: one of the default, one of each entry, one that `MergeConfig` may make |
| `global`, `k`, `config`, `i`, `desired` | locals of `Reconcile` and `constructDesiredNodePools` |
| `rendered` | the node pools that the last diff constructed, with what the ConfigMap said when it did |

`ParseConfigMap`, `BeginEntry` (range and merge of an entry), `AddNodePool` (one
turn of the loop over the range), `EndEntry` and `Render`
(`StaticNodePoolForSubBlock` for every desired pool, with the labels its map has
by then) make one Reconcile; `Edit` replaces the document and starts the next
one, which parses everything anew. A scalar field is missing, zero or a value; a
range is the sequence of what stands between its dashes; the loop index is an
int that wraps after `MaxInt`. Nested reservations are flattened: an entry
carries its reservation.

`TwoManagers` composes two instances of `Provisioner`, the second one with
variables of its own for queue, caches, Reconcile and marks, over one ConfigMap
and one GKE. `StartNew` starts the new manager with synchronised caches;
`StopOld` stops the old one wherever it is. Neither knows of the other, as
without leader election.

`AuthToken` is the token cache of the auth plugin. `memory` is the token and
expiry of the `cachedTokenSource`, `disk` the copy in the configuration, `held`
what each request works with. A request is `Check` (`cachedToken`, under the
lock), `Fetch` (the token source, without it), `Update` (under the lock),
`Persist`, `Send`, and `Reset` after a 401. `Restart` loads what is on disk. An
expiry is named by the token it belongs to, so that a mix-up shows. The oauth2
library takes a token for expired ten seconds early (`Age`); the model assumes
that a request is over within that time (`Expire`), and that the source returns
no token that is that close to its end.

## What is checked

Each of the first four runs uses two names (and one that is too long), two subblocks and two
configuration contents: enough for a rename, an update, a swap of capacity
with a bystander, and two jobs in one bulk. `MaxFaults` bounds the failures,
`MaxEdits` the edits of the ConfigMap; Slices come and go without a bound.

| Run | Question | Bounds |
| :-- | :-- | :-- |
| `core_safety` | Do two pools ever share a subblock (`CapacityExclusive`)? Is `IInv` an invariant? Do the pools implement the allocator (`ImplementsAllocator`)? Does a return of `DeleteNodePool` leak its mark (`NoLeakedMark`)? Can a pool be created while one that left the configuration is still there (`NothingLeftOver`)? Does each step of a Reconcile bring it nearer to its return (`ReconcileAdvances`)? | provisioned cluster; any 1 fault but `opDelete`, 1 edit |
| `edit_safety` | What may a Reconcile not delete or create (`LockedPoolKept`, `LockHonoured`, `ConfiguredPoolKept`)? | 4 initial clusters, 7 ConfigMaps, 1 edit, 1 failed pool |
| `live_prompt` | Do the watches and the error requeue suffice to converge (`Converges`)? Does every Reconcile return, and does success mean applied? | 1 retried fault, 1 edit, concurrency 1 and 0 (clamped) |
| `live_resync` | With the resync, is everything healed (`Converges`), without thrashing (`EventuallyQuiet`)? What can make the provisioner touch pools that are as configured (`RestIsKept`)? | any 1 fault, 1 edit |
| `config` | Does every pool get the scalars, labels and subblock its entry asks for (`ScalarsAsSpecified`, `LabelsAsSpecified`, `SubblocksDistinct`), does the diff get exactly the subblocks that are listed (`SubblocksAsListed`), does the hash tell a changed pool from an unchanged one (`HashTells`), do the loops end (`ConstructEnds`)? | 103 ConfigMaps of up to 2 entries, 1 edit from any to any, `MaxInt` 7 |
| `rollout` | Are two managers safe without an edit (`RolloutCapacity`), and do they implement the allocator (`RolloutAllocates`)? Do they leave pools alone that are as configured (`RolloutRestIsKept`)? Does the one that stays repair what they do with one (`RolloutConverges`)? | 1 pool to rename or to update, 1 edit, concurrency 1, no fault, no Slice |
| `token` | Do token and expiry stay together (`PairsMatch`), are only revoked tokens rejected (`OnlyRevokedRejected`, `HeldUsable`), does a 401 end (`EventuallyAuthorized`)? | 2 callers, 3 tokens, any 1 fault (error, lost write, revocation, restart) |

Two runs switch the deadlock check off: in `edit_safety`, with the ConfigMap gone
and no Slice, the system may rightly stop; in `config` it stops when all edits
are spent. In the other passing runs the resync always lets an idle manager go
on, or a caller may always call, so a deadlock would be a stuck Reconcile or
request.

The documents of `config` combine each kind of default (none, with labels,
with an empty map, without) with entries for one block, two blocks and two
blocks of one name, ranges that overlap and ranges that do not, overrides by
false and by zero, ranges that are malformed, out of order or too large for an
int, and a name that is too long. Two entries are enough for one to affect the
other, and one edit for one Reconcile to affect the next.

`LabelsAsSpecified` leaves one case out because it does not hold there: if the
default configuration has labels and an entry has some too, `MergeConfig` writes
those of the entry into the map of the default (`parser.go:69`), and every pool of
every other entry that uses the default's map gets them. An edit of one entry then
recreates the pools of others. `HashTells` leaves out `enableAutorepair`, which
`nodePoolHash` leaves out although the comment at `gke.go:400` speaks of all
fields: an edit of it is never applied. `ScalarsAsSpecified` says what the code
does with zero: a number 0 or an empty string of an entry counts as missing.
`ConstructEnds` and `SubblocksDistinct` are about ranges that end below the
largest int; a range that ends there makes the index wrap, and the loop does not
end.

`RolloutCapacity` is about a ConfigMap that is not edited: both managers then
want the same pools, and whatever one of them creates late is what the other
wants too. With an edit it does not hold: a manager that read the ConfigMap before
the edit creates a pool on the subblock that the other has freed and given to its
replacement; GKE then lets one of the two end in ERROR, and `RolloutConverges`
shows that the manager that stays gets rid of it. The run leaves out Slices, which
would multiply its states beyond what TLC explores in minutes; the lock is the
subject of `edit_safety`. The same instance with Slices, one lost answer and
without the edit satisfies `RolloutTypeOK` and `RolloutCapacity` as well (2.9
million states, not a run of the project).

`RolloutAllocates` says for the same time that every step of either manager is a step
of the allocator or leaves the subblocks where they are. `RestIsKept` and
`RolloutRestIsKept` speak of states in which the pools are `Converged`, the ConfigMap
can be applied, and a manager that runs has seen the ConfigMap and has no work on its
lists. They do not need the cache of Slices or of nodes to be current, and no
assumption on the faults; what they leave open is how such a state is reached, which
`Converges` answers. `NothingLeftOver` is what makes a ConfigMap that shrinks safe to
grow again: whatever failed in between, no create phase begins with a pool that
should be gone, unless the Reconcile found it in use. It needs that no delete
operation fails, as `CapacityExclusive` does.

One fault at any point already gives a retry that overlaps unfinished GKE
operations, and a crash in any phase. With two faults and two edits, and the
ConfigMaps `Both` and `Renamed` only, the properties of `core_safety` hold as
well (6.2 million states, not a run of the project); the proofs of
`CapacityExclusive` and `NoLeakedMark` have no bound at all.

Five runs show that something a document, a comment or a test says does not
hold; `PROJECT.json` quotes it under `findings`.

| Run | What happens |
| :-- | :-- |
| `error_in_use` | a pool in ERROR is deleted although a Slice uses its nodes: its list is not filtered by the lock |
| `use_after_check` | a Slice forms after the lock was computed, and its running pool is deleted |
| `delete_op_fails` | a failed delete operation counts as done, and the replacement is created on capacity that is held |
| `shared_name` | two entries with one name recreate the pool for ever |
| `no_create_slot` | create concurrency 0 blocks the only worker for ever |

TLC's liveness checker sometimes fails to print the counterexample of
`shared_name` with several workers; `-workers 1` prints it.

### Fairness

`PromptSpec` assumes that the running Reconcile is not stopped for ever (the Go
scheduler), that each informer delivers what it watches, and that GKE ends each
operation it accepted, in success or failure. Fairness is stated for the
Reconcile as a whole: it has finitely many steps, and a goroutine that waits for
GKE is the only thing that can delay it. `FairSpec` adds the resync of the
informers, which controller-runtime runs every 10 hours unless it is told
otherwise. Nobody is obliged to edit, to acquire or release a Slice, and no
fault is obliged to happen; in particular nothing makes the create timeout
expire.

`Converges` asks only for what is left when the ConfigMap stays applicable and
no Slice is left. Under `PromptSpec` it holds for failures that `Reconcile`
returns as errors. Failed operations, pools that fail later, and crashes need
the resync.

`RolloutFairness` asks of the manager that stays what `FairSpec` asks, and that the
rollout ends; it asks nothing of the old manager, which is stopped at some point.
`FairSpec` of `ConfigMerge` says that the Reconcile runs. `Fairness` of `AuthToken`
says that callers go on calling, as the watches of the informers do, that each of
their steps returns, and that time passes.

## What is proved

`Provisioner_proofs` proves with TLAPS, for all values of the constants that
satisfy `SubsetsAssumption` and `ProvisionerAssumption`:

- `TypeCorrect`: `Spec => []TypeOK`, by the inductive invariant `TypeInv`, which
  adds `IdleClean` (no job outlives its Reconcile). `TypeOK` alone is not
  inductive: `Start` replaces the desired list that jobs refer to.
- `CapacityInvariant` and `CapacityNeverShared`: under `CapacityHypotheses`,
  `Spec => []IInv` and `Spec => []CapacityExclusive`.

`CapacityHypotheses` says that no delete operation fails (`delete_op_fails` shows
that this is needed), that a configuration names each subblock once and does
not replace the static label, and that the cluster starts with labelled pools
on distinct subblocks. Distinct names are not needed.

The argument follows a Reconcile. Nothing but its own create phase makes pools,
so when it plans, every existing pool is one it listed (`Snapshot`). The
heart is `PlanCovers`, about `ReconcilePlan` alone: a pool on the subblock of an
entry to create is missing from the configuration, in ERROR, or out of date
because its entry names another subblock; if the lock protects it, its
capacity is skipped and so is the entry. Hence it is on one of the delete
lists (`Covered`). A goroutine takes it off only when the pool is gone
(`StoppingIsFinal`) or with an error, which ends the Reconcile before it
creates. So the create phase starts unobstructed and stays so (`Unobstructed`),
because the entries have distinct subblocks. `CapacityWorker` has one step per
action of the goroutines; all other steps are covered by `CapacityFrame` and
`CapacityIdle`.

- `MarksNeverLeak`: `Spec => []NoLeakedMark`, without hypotheses. `MarkInv` adds
  that nothing is marked outside a bulk delete (`MarksOfDelete`) and that a job
  nobody has taken has no goroutine (`JobsApart`). Without the latter the
  refusal of a second delete of a marked pool could end the first one's
  goroutine and strand its mark.

`CapacityRefinement_proofs` proves `AllocatorImplemented`: under
`CapacityHypotheses`, `Spec => ImplementsAllocator`. The mapped initial states are
initial states of the allocator because the cluster starts with distinct
subblocks. A step can only acquire a subblock in `RequestCreate`, where
`Unobstructed` of `IInv` says that no other pool holds it; a release begins in
`RequestDelete` and ends in `DeleteOpDone`, and nothing turns `STOPPING` back, since
no delete operation fails.

`DeleteRules_proofs` proves three action properties. `LockedPoolsKept` and
`ConfiguredPoolsKept` hold for all constants: the inductive invariant `DeleteInv`
says that every delete job, planned or with a goroutine, is justified by the lists
and the lock of the running Reconcile, so that the request it may send is too.
`LockIsHonoured` needs `CapacityHypotheses`: that nothing is created on the subblock
of a pool in use follows from `PlanCovers` and from the labels of listed pools.

`Success_proofs` proves `SuccessApplied`: under `SuccessHypotheses`,
`Spec => SuccessMeansApplied`. The hypotheses add to `CapacityHypotheses` that a
configuration has no name twice, that the cluster starts without a deletion under
way, and that the faults are among `HarmlessFaults`; with any other kind an
operation ends badly, or one goes on that nobody waits for, and GKE may undo what
the Reconcile saw. The invariant `SuccessInv` follows the entries. With
its plan every entry is blocked by a pool in use, has a create job, or is
settled and on no delete list (`Decided`, from `PlanDecides`); the pool in the place
of a create job is due (`Due`, from `PlanReplaces`), hence gone when the create phase
begins (`Creating`). A settled pool stays settled because only a goroutine
that then waits can stop a pool (`Watched`), because such a goroutine works on a pool
that was due, and because `CapacityExclusive` leaves a create operation no reason to
fail.

It also proves `LeftoversDeleted`: if no delete operation fails,
`Spec => []NothingLeftOver`, with no hypothesis on configurations or clusters.
`LeftoverInv` needs `Snapshot` and `StoppingIsFinal` of the capacity argument and
`LeftoverDue`: while a Reconcile deletes without an error, every pool that left the
configuration is in use or still to be deleted. A goroutine takes it off that list
when it is gone, or with an error that ends the Reconcile.

`ReconcileFinite` proves `Spec => ReconcileAdvances` for a finite set of names. The
variant is a pair: the stages that the Reconcile has left, and 4 for each job of
the current bulk that no goroutine has taken, 3 for one about to mark, 2 for one
about to send its request, 1 for one that waits for GKE. Every step of a Reconcile
lowers it, and no step of anybody else changes what it is computed from, so a
Reconcile takes finitely many steps, for any number of pools and workers and with
any faults. That those steps are taken is left to the fairness of `ReconcileReturns`:
`no_create_slot` is a Reconcile that stops advancing.

`SharedPools_proofs` proves `RestKept`: `Spec => RestIsKept`, for all constants and
faults, from the types alone. A List finds the converged pools, so the diff of the
ConfigMap is empty and the plan has no job (`Applicable` excludes the name that fails
the diff); the steps that are left to a Reconcile without jobs touch nothing.

`TwoManagers_proofs` proves `RolloutTypes` and, under `CapacityHypotheses`,
`RolloutSafe`: `RolloutSpec => []RolloutCapacity`, with Slices, which the run `rollout`
leaves out. The lemmas of `SharedPools_proofs` are about one manager on pools
that others change too, and are instantiated for the new manager. What
weakens is `Snapshot`: a pool that the manager did not list can be there, made
by the other one. While the ConfigMap is not edited it is the pool that an entry
of that very ConfigMap asks for (`Stray`), and such a pool is never in the way of
another entry, since the entries have distinct subblocks.

`RolloutRestKept` is rest at any stage of the rollout, for all constants:
each manager keeps it at its own steps, and to the other one those
are steps that change no pool. `RolloutAllocator` proves, under `CapacityHypotheses`,
`RolloutSpec => RolloutAllocates`. `ManagerTouches` reduces a step of either manager to
three cases: it leaves the pools alone, has a delete accepted, or begins a create that
the ConfigMap asks for and whose subblock is free by `Unobstructed`; each is a step of
the allocator or a stutter (`TouchesRefine`), whichever manager takes it.

`ConfigMerge_proofs` proves `ClaimsDistinct`: `Spec => []SubblocksDistinct`, for every
set of ConfigMaps. This discharges the part of `CapacityHypotheses` about
configurations: it follows from ranges that do not overlap and stay below the
largest int. The inductive invariant `RangeInv` says that the desired pools of
the entries before the current one have an index in their range, and those of
the current one an index between its start and the loop index; two pools on one
subblock then belong to two entries whose ranges overlap, or are one.

`ListedSubblocks` proves `Spec => []SubblocksAsListed`, without any hypothesis on the
ConfigMaps. `ListedInv` says of every entry before the current one that it was
worked off: its range was accepted and its desired pools stand for all of it; and
of the current one that its pools stand for the indexes below the loop index. A
range that ends at the largest int has no such index; its loop does not end, so
the Reconcile gets to no diff.

The other safety properties of `ConfigMerge` are proved for every sequence of
ConfigMaps too, from `ConfigMergeAssumption` and `DocumentsAssumption`, which say
that a document is a list of entries with maps of labels. `MergeTypesRight` adds to
`TypeOK` that the loop runs inside an entry. `ScalarsRight` rests on `ScalarInv` (a
merge does not change the default configuration). `LabelsRight` rests on `LabelInv`:
the maps that were parsed stay as they were, those of merges to come are empty, and a
desired node pool refers to a map that no later merge writes to. `MergedLabels` is
the step of the merge, and the place where the excluded case would fail. `HashRight`
rests on `HashDecides`: two node pools of one name have one hash exactly when all
fields but `autorepair` agree.

`AuthToken_proofs` proves `TokenTypes`, `TokenPairs`, `NoExpiredTokenSent` and
`HeldTokensUsable` from the inductive invariant `TokenInv`, for any number of
callers, tokens and faults. `OnlyRevokedRejected` is not inductive alone: a
request that is rejected must have held, since it took the token, one that had
not expired (`HeldUsable`), and that the cache called it valid only says so if
the expiry is that of the token (`PairsMatch`).

Only model-checked: liveness (`Converges`, `ReconcileReturns`, `EventuallyQuiet`,
`RolloutConverges`, `ConstructEnds`, `EventuallyAuthorized`). Liveness under fairness
and ENABLED are out of the prover's reach. Every safety property and every action
property of the passing runs is proved for all values of the constants.

## Not modelled

Parsing of YAML text, the fields of a node pool that no property tells apart,
`parseAdditionalNodeNetworks` (it reads an environment variable; an error fails
every diff), events, logs, metrics and health checks. Leader election. A failed
`Get` of the ConfigMap in the cache, other than its absence, does not happen with
an informer. Panics (a negative create concurrency). Collisions of the 32-bit
hash. `nodeLabels` that name the hash label itself. In the auth plugin: which
token source the options select, and requests that bring their own
`Authorization` header, which touch nothing. The Slice types, their generated deep
copies, the mock provider and the string helpers have no state.

## Plan

The plan of the first version is carried out: every component with state of its own
is modelled, and all safety and action properties are proved. What could be added:

1. Two managers with an edited ConfigMap, and how many creates GKE may have to
   refuse before the manager that stays has repaired what both did.
2. Leader election, when the Deployment turns it on.
