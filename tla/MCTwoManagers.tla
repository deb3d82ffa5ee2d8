---------------------------- MODULE MCTwoManagers ----------------------------
(* Instances of TwoManagers for TLC. *)
EXTENDS TwoManagers, TLC

CONSTANTS a, b, s1, c1, c2

Entry(n, s, c) == [name |-> n, sub |-> s, cfg |-> c]
Valid(ps)      == [class |-> "valid", pools |-> ps]

RunningPool(n, s, c) ==
  [StaticNodePoolForSubBlock(Entry(n, s, c)) EXCEPT !.status = "RUNNING"]

OnePool == [NoPools EXCEPT ![a] = RunningPool(a, s1, c1)]

Renamed == Valid(<<Entry(b, s1, c1)>>)
Updated == Valid(<<Entry(a, s1, c2)>>)

\* The ConfigMap was changed just before the rollout, and is changed again.
RolloutConfigMaps == {Renamed, Updated}
RolloutInitPools  == {OnePool}
=============================================================================
