---------------------------- MODULE MCProvisioner ----------------------------
(* Instances of Provisioner for TLC. *)
EXTENDS CapacityRefinement, TLC

CONSTANTS a, b, long, s1, s2, c1, c2

MCNames     == {a, b, long}
MCSubblocks == {s1, s2}
MCLong      == {long}
MCCfgs      == {c1, c2}

Entry(n, s, c) == [name |-> n, sub |-> s, cfg |-> c]
Valid(ps)      == [class |-> "valid", pools |-> ps]
Other(k)       == [class |-> k, pools |-> <<>>]

Both    == Valid(<<Entry(a, s1, c1), Entry(b, s2, c1)>>)
Renamed == Valid(<<Entry(b, s1, c1)>>)
Swapped == Valid(<<Entry(a, s2, c1), Entry(b, s1, c1)>>)
Updated == Valid(<<Entry(a, s1, c2)>>)
Twins   == Valid(<<Entry(a, s1, c1), Entry(a, s2, c1)>>)
Overlong == Valid(<<Entry(a, s1, c1), Entry(long, s2, c1)>>)
Unusable == {Other("absent"), Other("malformed"), Other("rejected")}

RunningPool(n, s, c) ==
  [StaticNodePoolForSubBlock(Entry(n, s, c)) EXCEPT !.status = "RUNNING"]
Legacy(n, s)  == [RunningPool(n, s, c1) EXCEPT !.hash = NoHash]
Foreign(n, s) == [Legacy(n, s) EXCEPT !.static = FALSE]

Provisioned == [NoPools EXCEPT ![a] = RunningPool(a, s1, c1), ![b] = RunningPool(b, s2, c1)]
WithLegacy  == [NoPools EXCEPT ![a] = Legacy(a, s1)]
WithForeign == [NoPools EXCEPT ![a] = RunningPool(a, s1, c1), ![b] = Foreign(b, s2)]

AllFaults == {"list", "get", "refuse", "lost", "poll", "deadline", "opCreate",
              "opDelete", "poolError", "nodeLoss", "crash"}

\* core_safety
CoreConfigMaps == {Both, Renamed, Updated}
CoreInit       == {Provisioned}
CoreFaults     == AllFaults \ {"opDelete"}

\* edit_safety
EditConfigMaps == {Both, Renamed, Twins, Overlong} \union Unusable
EditInit       == {NoPools, Provisioned, WithLegacy, WithForeign}
EditFaults     == {"poolError", "opCreate"}

\* live_prompt
PromptConfigMaps == {Both, Renamed}
PromptInit       == {NoPools, Provisioned}
RetriedFaults    == {"list", "get", "refuse", "deadline"}

\* live_resync
ResyncConfigMaps == {Both, Updated}
ResyncInit       == {Provisioned, WithLegacy}

\* The runs on what the documentation says.
TwinsOnly == {Twins}
FreshInit == {NoPools}

\* "Before any node pool deletion or modification is executed" the pool is
\* checked against the active Slices, and its deletion "is deferred" when it is
\* in use (README.md:96-99).
NothingInUsePlanned ==
  [][pc = "plan" /\ pc' = "missing" =>
       \A ph \in DeletePhases : \A j \in plan'[ph] :
         j[1] \notin GetInUseNodepools(seen.slices, seen.nodes)]_vars

\* Deletion is deferred "until the workload releases the capacity, guaranteeing
\* zero service interruption" (README.md:99): no deletion starts of a pool that
\* runs and that a Slice uses at that moment.
InUsePoolKept ==
  [][\A n \in Names : StartsDeleting(n) /\ pools[n].status = "RUNNING" =>
       n \notin GetInUseNodepools(slices, nodes)]_vars
=============================================================================
