---------------------------- MODULE NodePoolDiff ----------------------------
(***************************************************************************)
(* The pure part of one reconcile: what a desired entry of the ConfigMap   *)
(* turns into (StaticNodePoolForSubBlock and nodePoolHash), how the listed *)
(* node pools are compared with the desired ones (DiffStaticNodePools),    *)
(* which pools a Slice holds (GetInUseNodepools) and what the Reconcile    *)
(* method filters out of the lists before it acts.                         *)
(*                                                                         *)
(* Data abstractions:                                                      *)
(*   - a pool name, a reservation subblock and the content of a            *)
(*     nodepoolConfig are members of the sets Names, Subblocks and Cfgs;   *)
(*   - the hash label is the record of the hashed fields itself, so two    *)
(*     entries have the same hash exactly when those fields agree (no      *)
(*     collision of the 32-bit FNV-1a hash);                               *)
(*   - the partition ids on the nodes of a pool are represented by the     *)
(*     subblock the pool consumes, and the active Slices by the set of     *)
(*     partitions they name.                                               *)
(* The lists the code builds may hold one name twice (two entries of the   *)
(* ConfigMap can produce the same name), so a list is a set of jobs        *)
(* <<name, i>>, with i the position of the entry in the desired list and   *)
(* 0 for a pool that has no entry.                                         *)
(***************************************************************************)
EXTENDS Naturals, Sequences

CONSTANTS
  Names,       \* node pool names
  Subblocks,   \* reservation subblocks (and the partitions on them)
  Cfgs,        \* contents of a nodepoolConfig, as far as they are hashed
  LongNames,   \* the names of more than 40 characters
  Relabeling   \* the Cfgs whose nodeLabels replace the static-nodepool label

ASSUME SubsetsAssumption == LongNames \subseteq Names /\ Relabeling \subseteq Cfgs

-----------------------------------------------------------------------------
(* Node pools, as the GKE API returns them, and desired entries. *)

DesiredEntry == [name: Names, sub: Subblocks, cfg: Cfgs]

NoHash == [hash |-> "unlabelled"]   \* a pool without the hash label
NoPool == [status |-> "NONE"]       \* there is no pool of that name

PoolStatus == {"PROVISIONING", "RUNNING", "ERROR", "STOPPING"}

Pool == [status: PoolStatus,
         sub:    Subblocks,
         hash:   DesiredEntry \union {NoHash},
         static: BOOLEAN]

Exists(p)  == p.status # "NONE"
InError(p) == p.status = "ERROR"

NodePoolHash(d) == d

\* Mutant: the label holds the hash of another configuration.
StaticNodePoolWithAnotherHash(d) ==
  [status |-> "PROVISIONING",
   sub    |-> d.sub,
   hash   |-> [d EXCEPT !.cfg = CHOOSE c \in Cfgs : c # d.cfg],
   static |-> d.cfg \notin Relabeling]

\* The node pool that is requested for the desired entry d.
StaticNodePoolForSubBlock(d) ==
  [status |-> "PROVISIONING",
   sub    |-> d.sub,
   hash   |-> NodePoolHash(d),
   static |-> d.cfg \notin Relabeling]

-----------------------------------------------------------------------------
(* DiffStaticNodePools: existing maps every name to a pool or to NoPool.   *)

Job(desired, i) == <<desired[i].name, i>>
Jobs(desired, I) == {Job(desired, i) : i \in I}

DesiredNames(desired) == {desired[i].name : i \in DOMAIN desired}

DiffFails(desired) == DesiredNames(desired) \intersect LongNames # {}

Outdated(p, d) == p.hash # NoHash /\ p.hash # NodePoolHash(d)

\* Mutant: pools in ERROR are left alone.
FailedIgnored(existing, desired) == {}

Failed(existing, desired) ==
  {i \in DOMAIN desired : InError(existing[desired[i].name])}

\* Mutant: a pool without the hash label counts as out of date.
ChangedOrLegacy(existing, desired) ==
  {i \in DOMAIN desired :
     LET p == existing[desired[i].name]
     IN  Exists(p) /\ ~InError(p) /\ p.hash # NodePoolHash(desired[i])}

\* Mutant: the hash of the label is compared with one in another form.
ChangedByRawHash(existing, desired) ==
  {i \in DOMAIN desired :
     LET p == existing[desired[i].name]
     IN  Exists(p) /\ ~InError(p) /\ p.hash # NoHash /\ p.hash # [raw |-> desired[i]]}

Changed(existing, desired) ==
  {i \in DOMAIN desired :
     LET p == existing[desired[i].name]
     IN  Exists(p) /\ ~InError(p) /\ Outdated(p, desired[i])}

Absent(existing, desired) ==
  {i \in DOMAIN desired : ~Exists(existing[desired[i].name])}

ToDeleteError(existing, desired)  == Jobs(desired, Failed(existing, desired))
ToDeleteUpdate(existing, desired) == Jobs(desired, Changed(existing, desired))

ToCreate(existing, desired) ==
  Jobs(desired, Absent(existing, desired) \union Failed(existing, desired)
                  \union Changed(existing, desired))

ToDeleteMissing(existing, desired) ==
  {<<n, 0>> : n \in {m \in Names : /\ Exists(existing[m])
                                   /\ existing[m].static
                                   /\ m \notin DesiredNames(desired)}}

-----------------------------------------------------------------------------
(* The in-use lock: pools whose nodes carry a partition that a Slice names. *)

Node == [pool: Names, partition: Subblocks, static: BOOLEAN]

\* Only nodes with the static-nodepool label are listed.
GetInUseNodepools(slices, nodes) ==
  {x.pool : x \in {y \in nodes : y.static /\ y.partition \in slices}}

\* Mutant: nothing is filtered out.
FilterNothing(jobs, locked) == jobs

FilterLocked(jobs, locked) == {j \in jobs : j[1] \notin locked}

\* Capacity of the pools whose deletion was skipped.
SkippedCapacity(existing, jobs, locked) ==
  {existing[j[1]].sub : j \in jobs \ FilterLocked(jobs, locked)}

SkippedUpdates(jobs, locked) == {j[1] : j \in jobs \ FilterLocked(jobs, locked)}

\* Mutant: capacity held by a pool of another name is not looked at.
FilterCreateByName(desired, jobs, skippedUpdates, skippedCapacity) ==
  {j \in jobs : j[1] \notin skippedUpdates}

FilterCreate(desired, jobs, skippedUpdates, skippedCapacity) ==
  {j \in jobs : /\ j[1] \notin skippedUpdates
                /\ desired[j[2]].sub \notin skippedCapacity}

\* Mutant: only missing pools make it look at the Slices.
ReadsLockForMissing(existing, desired) == ToDeleteMissing(existing, desired) # {}

\* The Slices and the nodes are listed only when a pool is to be deleted
\* because it is missing from the configuration or out of date.
ReadsLock(existing, desired) ==
  ToDeleteMissing(existing, desired) \union ToDeleteUpdate(existing, desired) # {}

Phases == {"missing", "error", "update", "create"}

\* What is left to do in each phase once the lists have been filtered.
ReconcilePlan(existing, desired, locked) ==
  LET missing == ToDeleteMissing(existing, desired)
      update  == ToDeleteUpdate(existing, desired)
  IN  [ph \in Phases |->
         CASE ph = "missing" -> FilterLocked(missing, locked)
           [] ph = "error"   -> ToDeleteError(existing, desired)
           [] ph = "update"  -> FilterLocked(update, locked)
           [] ph = "create"  ->
                FilterCreate(desired, ToCreate(existing, desired),
                             SkippedUpdates(update, locked),
                             SkippedCapacity(existing, missing \union update, locked))]
=============================================================================
