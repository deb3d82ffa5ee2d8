---------------------------- MODULE MCConfigMerge ----------------------------
(* Instances of ConfigMerge for TLC. *)
EXTENDS ConfigMerge, TLC

Plain == [f \in Fields |-> Missing]
Yaml(scalar, labels) == <<[scalar |-> scalar, labels |-> labels]>>
Team(t) == <<"team" :> t>>

Typical == [Plain EXCEPT !.nodepoolPrefix = "example", !.accelerator = "tpu7x",
                         !.topology = "4x4x4", !.shieldedSecureBoot = "true",
                         !.maxPodsPerNode = "15"]

Default       == Yaml(Typical, None)
DefaultLabels == Yaml(Typical, Team("default"))
DefaultEmpty  == Yaml(Typical, <<<<>>>>)

Prefixed == Yaml([Plain EXCEPT !.nodepoolPrefix = "other", !.topology = "2x2x4"], None)
Insecure == Yaml([Plain EXCEPT !.shieldedSecureBoot = "false", !.maxPodsPerNode = Zero], None)
TeamX    == Yaml(Plain, Team("x"))
TeamY    == Yaml([Plain EXCEPT !.placementPolicy = "policy"], Team("y"))
NoRepair == Yaml([Plain EXCEPT !.enableAutorepair = "false"], None)
Long     == Yaml([Plain EXCEPT !.nodepoolPrefix = "long"], None)

One(n)    == <<Digits(n)>>
To(m, n)  == <<Digits(m), Digits(n)>>
BadRanges == {To(3, 1), <<Junk>>, <<Digits(1), Huge>>, <<Digits(1), Digits(2), Digits(3)>>}

Use(r, b, text, c) == [reservation |-> r, block |-> b, subblocks |-> text, config |-> c]
Doc(default, entries) == [parses |-> TRUE, default |-> default, entries |-> entries]
Malformed == [parses |-> FALSE, default |-> None, entries |-> <<>>]

\* config: two entries for one block, for two, or for blocks of one name, with
\* ranges that overlap or not, and ConfigMaps that cannot be used.
FirstEntries ==
  {Use("r1", "b1", text, c) : text \in {One(1), To(1, 2)},
                              c \in {None, Insecure, TeamX, Prefixed}}
SecondEntries ==
  {Use("r1", "b1", To(2, 3), None), Use("r1", "b2", One(2), TeamY),
   Use("r2", "b1", One(1), Insecure)}
MergeDocuments ==
  {Doc(d, <<e, f>>) : d \in {None, Default, DefaultLabels, DefaultEmpty},
                      e \in FirstEntries, f \in SecondEntries}

OtherDocuments ==
  {Malformed, Doc(Default, <<Use("r1", "b1", One(1), Long)>>),
   Doc(Default, <<Use("r1", "b1", One(1), NoRepair)>>)} \union
  {Doc(Default, <<Use("r1", "b1", One(1), None), Use("r1", "b1", text, None)>>) :
     text \in BadRanges}

ConfigDocuments == MergeDocuments \union OtherDocuments
=============================================================================
