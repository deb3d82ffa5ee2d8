----------------------------- MODULE ConfigMerge -----------------------------
(***************************************************************************)
(* From the text of the ConfigMap to the node pools that are requested:    *)
(* ParseConfigMap, constructDesiredNodePools with MergeConfig and          *)
(* ParseSubBlocks, and StaticNodePoolForSubBlock with nodePoolHash, over   *)
(* the Reconciles of a sequence of edits.                                  *)
(*                                                                         *)
(* Two things that the code leaves to Go are part of the state: the label  *)
(* maps live in a heap and configurations refer to them, since MergeConfig *)
(* copies the default configuration but not its map; and the index of the  *)
(* loop over a range is an int that wraps.                                 *)
(*                                                                         *)
(* Data abstractions: an optional value is a sequence of length 0 or 1; a  *)
(* scalar field holds a string, of which only Missing and Zero have a      *)
(* meaning of their own; the text of a range is the sequence of what       *)
(* stands between its dashes; a name <<stem, i>> stands for stem-%04d, and *)
(* a hash is the record of the hashed fields.                              *)
(***************************************************************************)
EXTENDS Integers, Sequences

CONSTANTS
  Documents,      \* the ConfigMaps
  MaxInt,         \* the largest int; the smallest is -MaxInt - 1
  LongStems,      \* stems of names with more than 40 characters
  EnvSecureBoot,  \* GCP_NODE_SECURE_BOOT
  EnvMaxPods,     \* GKE_MAX_PODS_PER_NODE
  MaxEdits        \* bound on the number of edits

\* What stands between the dashes of a range: a number, more than an int, or junk.
Atom == [kind: {"digits", "huge", "junk"}, n: 0..MaxInt]

ASSUME ConfigMergeAssumption ==
  /\ MaxInt \in Nat
  /\ \A d \in Documents : \A e \in DOMAIN d.entries : d.entries[e].subblocks \in Seq(Atom)

VARIABLES
  doc,       \* the ConfigMap that this Reconcile read
  pc,        \* where the Reconcile is
  heap,      \* the label maps
  global,    \* defaultConfig, as parsed
  k,         \* the entry it is at
  config,    \* subblockConfig of that entry
  i,         \* the loop index
  desired,   \* desiredNodePools, each with its entry and its index
  rendered,  \* the node pools of the last Reconcile that got so far
  edits      \* edits so far

vars == <<doc, pc, heap, global, k, config, i, desired, rendered, edits>>

-----------------------------------------------------------------------------
(* Documents. *)

None   == <<>>
Given(option) == option # None

Missing == "missing"   \* a field that is not in the YAML
Zero    == "zero"      \* a field that is there, with 0 or ""
Unset   == "unset"     \* the zero value of a parsed field, or a nil pointer

BoolFields == {"shieldedIntegrityMonitoring", "shieldedSecureBoot", "enableAutorepair"}

Fields == BoolFields \union
  {"nodepoolPrefix", "machineType", "accelerator", "topology", "nodeCount",
   "maxPodsPerNode", "placementPolicy"}

Digits(n) == [kind |-> "digits", n |-> n]
Huge      == [kind |-> "huge", n |-> MaxInt]   \* more than an int
Junk      == [kind |-> "junk", n |-> 0]

DefaultMap   == <<"default">>
EntryMap(e)  == <<"entry", e>>
MergedMap(e) == <<"merged", e>>
Nil          == <<"nil">>

-----------------------------------------------------------------------------
(* ParseConfigMap. *)

\* 0 and "" cannot be told from a field that is missing; a pointer can.
ParseField(f, v) == IF v = Missing \/ (v = Zero /\ f \notin BoolFields) THEN Unset ELSE v

ParseConfig(option, map) ==
  IF ~Given(option) THEN None
  ELSE <<[scalar |-> [f \in Fields |-> ParseField(f, option[1].scalar[f])],
          labels |-> IF Given(option[1].labels) THEN map ELSE Nil]>>

LabelsIn(option) ==
  IF Given(option) /\ Given(option[1].labels) THEN option[1].labels[1] ELSE <<>>

Maps(d) == {DefaultMap} \union {EntryMap(e) : e \in DOMAIN d.entries}
                        \union {MergedMap(e) : e \in DOMAIN d.entries}

IsMap(f) == f = [label \in DOMAIN f |-> f[label]]

\* What the YAML decodes to: a list of entries, and maps of labels.
ASSUME DocumentsAssumption ==
  /\ MaxEdits \in Nat
  /\ \A d \in Documents :
       /\ Len(d.entries) \in Nat /\ DOMAIN d.entries = 1..Len(d.entries)
       /\ IsMap(LabelsIn(d.default))
       /\ \A e \in DOMAIN d.entries : IsMap(LabelsIn(d.entries[e].config))

InitialHeap(d) ==
  [m \in Maps(d) |-> CASE m = DefaultMap      -> LabelsIn(d.default)
                       [] m[1] = "entry"      -> LabelsIn(d.entries[m[2]].config)
                       [] m[1] = "merged"     -> <<>>]

HasAnyConfig(d) == Given(d.default) \/ \E e \in DOMAIN d.entries : Given(d.entries[e].config)

-----------------------------------------------------------------------------
(* MergeConfig. *)

\* Mutant: a bool is merged by its value, so false never overrides.
MergeTrueScalars(g, s) ==
  [f \in Fields |-> IF s[f] = Unset \/ (f \in BoolFields /\ s[f] = "false") THEN g[f] ELSE s[f]]

MergeScalars(g, s) == [f \in Fields |-> IF s[f] = Unset THEN g[f] ELSE s[f]]

\* The labels of f written into g.
Overlay(f, g) ==
  [label \in DOMAIN f \union DOMAIN g |-> IF label \in DOMAIN f THEN f[label] ELSE g[label]]

\* Mutant: a map that is missing is made once, for the default configuration.
TargetInDefault(g, e) == DefaultMap

\* The map that the labels of entry e are written into.
Target(g, e) == IF g.labels = Nil THEN MergedMap(e) ELSE g.labels

\* The merged configuration and the heap after the merge, for the parsed
\* configuration s of entry e.
MergeConfig(g, s, e) ==
  IF ~Given(g) \/ ~Given(s) THEN [config |-> IF Given(g) THEN g ELSE s, heap |-> heap]
  ELSE LET hasLabels == s[1].labels # Nil /\ DOMAIN heap[s[1].labels] # {}
           target == IF hasLabels THEN Target(g[1], e) ELSE g[1].labels
       IN  [config |-> <<[scalar |-> MergeScalars(g[1].scalar, s[1].scalar), labels |-> target]>>,
            heap   |-> IF hasLabels
                       THEN [heap EXCEPT ![target] = Overlay(heap[s[1].labels], @)]
                       ELSE heap]

-----------------------------------------------------------------------------
(* ParseSubBlocks and the loop over a range. *)

Atoi(atom) == atom.kind = "digits"

\* Mutant: the value that comes with an error is used.
ParseAnySubBlocks(text) ==
  [ok |-> Len(text) \in 1..2, start |-> text[1].n, end |-> text[Len(text)].n]

ParseSubBlocks(text) ==
  [ok    |-> /\ Len(text) \in 1..2
             /\ \A a \in DOMAIN text : Atoi(text[a])
             /\ text[1].n <= text[Len(text)].n,
   start |-> text[1].n,
   end   |-> text[Len(text)].n]

\* Mutant: the loop runs one index too far.
InLongerRange(n, end) == n <= end + 1

InRange(n, end) == n <= end

Increment(n) == IF n = MaxInt THEN -MaxInt - 1 ELSE n + 1

-----------------------------------------------------------------------------
(* SetNodePoolName, StaticNodePoolForSubBlock and nodePoolHash. *)

BlockStem(block) == block \o "-subblock"

NodePoolName(prefix, block, n) ==
  <<IF prefix # Unset THEN prefix ELSE BlockStem(block), n>>

Or(value, fallback) == IF value = Unset THEN fallback ELSE value

PlacementPolicy(scalar) ==
  CASE scalar["placementPolicy"] # Unset       -> <<"name", scalar["placementPolicy"]>>
    [] scalar["placementPolicy"] = Unset /\ scalar["accelerator"] = "tpu7x"
                                               -> <<"tpu-provisioner", scalar["topology"]>>
    [] OTHER                                   -> <<"compact", scalar["topology"]>>

OwnLabels(name) ==
  [label \in {"nodepool-id", "static-nodepool"} |->
     IF label = "nodepool-id" THEN name ELSE "true"]

\* Mutant: the labels are left out of the hash.
NodePoolHashOfMachine(p) ==
  [f \in {"placement", "nodeCount", "maxPods", "machineType", "sub", "integrity", "secureBoot"}
     |-> p[f]]

NodePoolHash(p) ==
  [f \in {"placement", "nodeCount", "maxPods", "machineType", "sub", "integrity",
          "secureBoot", "labels"} |-> p[f]]

StaticNodePoolForSubBlock(name, sub, scalar, labels) ==
  [name        |-> name,
   sub         |-> sub,
   machineType |-> scalar["machineType"],
   nodeCount   |-> scalar["nodeCount"],
   placement   |-> PlacementPolicy(scalar),
   integrity   |-> Or(scalar["shieldedIntegrityMonitoring"], "true"),
   secureBoot  |-> Or(scalar["shieldedSecureBoot"], EnvSecureBoot),
   maxPods     |-> Or(scalar["maxPodsPerNode"], EnvMaxPods),
   autorepair  |-> Or(scalar["enableAutorepair"], "true"),
   labels      |-> Overlay(labels, OwnLabels(name))]

-----------------------------------------------------------------------------
(* The Reconcile. *)

Init ==
  /\ doc \in Documents
  /\ pc = "parse"
  /\ heap = InitialHeap(doc)
  /\ global = None /\ k = 1 /\ config = None /\ i = 0
  /\ desired = {} /\ rendered = {}
  /\ edits = 0

\* A ConfigMap that does not parse, or that has no configuration at all, is skipped.
ParseConfigMap ==
  /\ pc = "parse"
  /\ IF doc.parses /\ HasAnyConfig(doc)
     THEN pc' = "entry" /\ global' = ParseConfig(doc.default, DefaultMap)
     ELSE pc' = "skipped" /\ UNCHANGED global
  /\ UNCHANGED <<doc, heap, k, config, i, desired, rendered, edits>>

Entry == doc.entries[k]
Range(e) == ParseSubBlocks(doc.entries[e].subblocks)

\* The configuration of an entry: it is parsed and merged only if it is there.
Merged == MergeConfig(global, ParseConfig(Entry.config, EntryMap(k)), k)

\* Mutant: an entry that cannot be used is skipped.
BeginEntrySkipping ==
  /\ pc = "entry" /\ k \in DOMAIN doc.entries
  /\ IF Range(k).ok /\ Given(Merged.config)
     THEN pc' = "range" /\ heap' = Merged.heap /\ config' = Merged.config
          /\ i' = Range(k).start /\ UNCHANGED k
     ELSE k' = k + 1 /\ UNCHANGED <<pc, heap, config, i>>
  /\ UNCHANGED <<doc, global, desired, rendered, edits>>

\* One entry of the ConfigMap: its range and its configuration.
BeginEntry ==
  /\ pc = "entry" /\ k \in DOMAIN doc.entries
  /\ IF Range(k).ok /\ Given(Merged.config)
     THEN /\ pc' = "range"
          /\ heap' = Merged.heap
          /\ config' = Merged.config
          /\ i' = Range(k).start
     ELSE /\ pc' = "failed"
          /\ UNCHANGED <<heap, config, i>>
  /\ UNCHANGED <<doc, global, k, desired, rendered, edits>>

\* One turn of the loop over the range.
AddNodePool ==
  /\ pc = "range" /\ InRange(i, Range(k).end)
  /\ desired' = desired \union
       {[entry  |-> k,
         index  |-> i,
         name   |-> NodePoolName(config[1].scalar["nodepoolPrefix"], Entry.block, i),
         sub    |-> <<Entry.reservation, Entry.block, i>>,
         config |-> config[1]]}
  /\ i' = Increment(i)
  /\ UNCHANGED <<doc, pc, heap, global, k, config, rendered, edits>>

EndEntry ==
  /\ pc = "range" /\ ~InRange(i, Range(k).end)
  /\ pc' = "entry" /\ k' = k + 1
  /\ UNCHANGED <<doc, heap, global, config, i, desired, rendered, edits>>

\* The loop of DiffStaticNodePools over the desired node pools, which a name that
\* is too long ends.
Labels(c) == IF c.labels = Nil THEN <<>> ELSE heap[c.labels]

Render ==
  /\ pc = "entry" /\ k \notin DOMAIN doc.entries
  /\ IF \E d \in desired : d.name[1] \in LongStems
     THEN pc' = "failed" /\ UNCHANGED rendered
     ELSE /\ pc' = "done"
          /\ rendered' =
               {[entry |-> d.entry,
                 asked |-> <<doc.default, doc.entries[d.entry]>>,
                 pool  |-> StaticNodePoolForSubBlock(d.name, d.sub, d.config.scalar,
                                                     Labels(d.config))] : d \in desired}
  /\ UNCHANGED <<doc, heap, global, k, config, i, desired, edits>>

\* Mutant: the label maps of the last Reconcile are used again.
KeepHeap(d) == heap

\* What was parsed and merged lives as long as its Reconcile.
FreshHeap(d) == InitialHeap(d)

Ended == {"skipped", "failed", "done"}

\* The ConfigMap is edited, and the next Reconcile reads it.
Edit ==
  /\ pc \in Ended /\ edits < MaxEdits /\ edits' = edits + 1
  /\ doc' \in Documents
  /\ pc' = "parse"
  /\ heap' = FreshHeap(doc')
  /\ global' = None /\ k' = 1 /\ config' = None /\ i' = 0 /\ desired' = {}
  /\ UNCHANGED rendered

Reconcile == ParseConfigMap \/ BeginEntry \/ AddNodePool \/ EndEntry \/ Render

Next == Reconcile \/ Edit

Spec == Init /\ [][Next]_vars

\* Go runs the Reconcile; nobody is obliged to edit.
FairSpec == Spec /\ WF_vars(Reconcile)

-----------------------------------------------------------------------------
(* Properties. *)

\* The state has its type: the configurations refer to maps of the heap, and the
\* desired node pools to entries that were reached
\* (static_nodepool_controller.go:225-262).
TypeOK ==
  /\ pc \in {"parse", "entry", "range"} \union Ended
  /\ DOMAIN heap = Maps(doc)
  /\ k \in 1..(Len(doc.entries) + 1)
  /\ \A c \in {global, config} :
       Given(c) => DOMAIN c[1].scalar = Fields /\ c[1].labels \in Maps(doc) \union {Nil}
  /\ i \in (-MaxInt - 1)..MaxInt
  /\ \A d \in desired : d.entry \in 1..k /\ d.entry \in DOMAIN doc.entries
                        /\ d.config.labels \in Maps(doc) \union {Nil}
  /\ edits \in 0..MaxEdits

\* The ranges of the ConfigMap stay below MaxInt.
Bounded == \A e \in DOMAIN doc.entries : Range(e).ok => Range(e).end < MaxInt

Overlap(e, f) ==
  /\ doc.entries[e].reservation = doc.entries[f].reservation
  /\ doc.entries[e].block = doc.entries[f].block
  /\ Range(e).start <= Range(f).end /\ Range(f).start <= Range(e).end

Disjoint == \A e, f \in DOMAIN doc.entries : e # f => ~Overlap(e, f)

\* No subblock is desired twice unless the ranges of two entries for one block of
\* one reservation overlap, which is what the in-use lock and the exclusive
\* use of capacity rely on (static_nodepool_controller.go:247-257).
SubblocksDistinct ==
  Bounded /\ Disjoint => \A c, d \in desired : c # d => c.sub # d.sub

Subblock(e, n) == <<doc.entries[e].reservation, doc.entries[e].block, n>>

\* A Reconcile that gets to its diff asks for the subblocks that the ConfigMap lists,
\* all of them and no others: an entry that cannot be used never just drops out, for
\* its node pools would then look missing from the configuration and be deleted
\* (static_nodepool_controller.go:229-259, gke.go:156-163).
SubblocksAsListed ==
  pc = "done" =>
    /\ \A r \in rendered : r.entry \in DOMAIN doc.entries
    /\ \A e \in DOMAIN doc.entries :
         /\ Range(e).ok
         /\ {r.pool.sub : r \in {x \in rendered : x.entry = e}}
              = {Subblock(e, n) : n \in Range(e).start..Range(e).end}

\* What the ConfigMap says of a field of the node pools of an entry.
Specified(default, own, f) ==
  IF Given(own) /\ ParseField(f, own[1].scalar[f]) # Unset THEN ParseField(f, own[1].scalar[f])
  ELSE IF Given(default) THEN ParseField(f, default[1].scalar[f])
  ELSE Unset

\* Every scalar field of every node pool is the one of its entry, or else the
\* default, also when that is false, and whatever the other entries say
\* (parser.go:37-88).
ScalarsAsSpecified ==
  \A d \in desired : \A f \in Fields :
    d.config.scalar[f] = Specified(doc.default, doc.entries[d.entry].config, f)

\* The labels of the default configuration are overridden by some entry.
Mixed(default, entries) ==
  /\ Given(default) /\ Given(default[1].labels)
  /\ \E e \in DOMAIN entries : DOMAIN LabelsIn(entries[e].config) # {}

\* When the default configuration has labels or the entries have, but not both,
\* a node pool gets the labels of the default, of its own entry and of the
\* provisioner, and of no other entry, in the first Reconcile and in all later
\* ones (parser.go:64-71, gke.go:275-282).
LabelsAsSpecified ==
  pc = "done" /\ ~Mixed(doc.default, doc.entries) =>
    \A r \in rendered :
      r.pool.labels = Overlay(LabelsIn(r.asked[2].config),
                              Overlay(LabelsIn(r.asked[1]), OwnLabels(r.pool.name)))

\* An edit that changes the node pool of some name changes its hash, and one that
\* does not leaves the hash alone; autorepair is left aside (gke.go:397-438).
HashTells ==
  [][pc = "entry" /\ pc' = "done" =>
       \A old \in rendered, new \in rendered' :
         old.pool.name = new.pool.name =>
           ((NodePoolHash(old.pool) = NodePoolHash(new.pool))
              <=> [old.pool EXCEPT !.autorepair = new.pool.autorepair] = new.pool)]_vars

\* constructDesiredNodePools returns, whatever the ranges say, as long as none ends
\* at MaxInt (static_nodepool_controller.go:225-262).
ConstructEnds == pc = "parse" ~> pc \in Ended
=============================================================================
