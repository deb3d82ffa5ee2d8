-------------------------- MODULE ConfigMerge_proofs --------------------------
(* Proofs about ConfigMerge. *)
EXTENDS ConfigMerge, TLAPS

\* What ParseSubBlocks accepts is an interval of ints.
LEMMA RangeTypes ==
  ASSUME doc \in Documents, NEW e \in DOMAIN doc.entries, Range(e).ok
  PROVE  /\ Range(e).start \in Int /\ Range(e).end \in Int
         /\ Range(e).start <= Range(e).end /\ Range(e).end <= MaxInt
<1> DEFINE text == doc.entries[e].subblocks
<1>1. text \in Seq(Atom)
  BY ConfigMergeAssumption
<1> HIDE DEF text
<1>2. Len(text) \in 1..2 /\ text[1].n <= text[Len(text)].n
  BY DEF Range, ParseSubBlocks, text
<1>3. text[1] \in Atom /\ text[Len(text)] \in Atom
  BY <1>1, <1>2
<1>4. text[1].n \in Int /\ text[Len(text)].n \in Int /\ text[Len(text)].n <= MaxInt
  BY <1>3, ConfigMergeAssumption DEF Atom
<1> QED
  BY <1>2, <1>4 DEF Range, ParseSubBlocks, text

\* What the loop has appended so far: node pools of entries that were reached, each
\* with an index of its range that the loop is past, and with its subblock.
Appended(d) ==
  /\ d.entry \in DOMAIN doc.entries /\ d.entry \in Nat /\ d.entry <= k
  /\ Range(d.entry).ok
  /\ d.index \in Int
  /\ Range(d.entry).start <= d.index /\ d.index <= Range(d.entry).end
  /\ d.entry = k => pc = "range" /\ d.index < i
  /\ d.sub = <<doc.entries[d.entry].reservation, doc.entries[d.entry].block, d.index>>

\* The loop is in its range, or one past it.
InLoop ==
  /\ k \in DOMAIN doc.entries /\ Range(k).ok
  /\ i \in Int /\ Range(k).start <= i /\ i <= Range(k).end + 1

\* The subblock of a desired node pool tells its reservation, block and index.
LEMMA AppendedSub ==
  ASSUME NEW d, Appended(d)
  PROVE  /\ d.sub[1] = doc.entries[d.entry].reservation
         /\ d.sub[2] = doc.entries[d.entry].block
         /\ d.sub[3] = d.index
BY DEF Appended

\* No entry and index has two node pools.
AppendedOnce ==
  \A c, d \in desired : c.entry = d.entry /\ c.index = d.index => c = d

\* The inductive invariant, for ranges below MaxInt.
RangeInv ==
  /\ doc \in Documents /\ k \in Nat
  /\ Bounded => /\ pc = "range" => InLoop
                /\ \A d \in desired : Appended(d)
                /\ AppendedOnce

\* A step that moves on to another place, with nothing appended.
LEMMA RangeMove ==
  ASSUME RangeInv, UNCHANGED <<doc, k, desired>>, pc # "range", pc' # "range"
  PROVE  RangeInv'
<1>1. Bounded' <=> Bounded
  BY DEF Bounded, Range
<1>2. \A d \in desired : Appended(d) => Appended(d)'
  BY DEF Appended, Range
<1> QED
  BY <1>1, <1>2 DEF RangeInv, AppendedOnce

\* A turn of the loop appends one node pool, of an index that was not there yet.
LEMMA RangeAdd ==
  ASSUME RangeInv, AddNodePool
  PROVE  RangeInv'
<1>1. /\ pc = "range" /\ InRange(i, Range(k).end)
      /\ UNCHANGED <<doc, pc, k>> /\ i' = Increment(i)
  BY DEF AddNodePool
<1>2. Bounded' <=> Bounded
  BY <1>1 DEF Bounded, Range
<1>3. PICK new : /\ desired' = desired \union {new}
                 /\ new.entry = k /\ new.index = i
                 /\ new.sub = <<doc.entries[k].reservation, doc.entries[k].block, i>>
  <2> DEFINE r == [entry  |-> k,
                   index  |-> i,
                   name   |-> NodePoolName(config[1].scalar["nodepoolPrefix"], Entry.block, i),
                   sub    |-> <<Entry.reservation, Entry.block, i>>,
                   config |-> config[1]]
  <2>1. desired' = desired \union {r}
    BY DEF AddNodePool
  <2>2. r.entry = k /\ r.index = i
        /\ r.sub = <<doc.entries[k].reservation, doc.entries[k].block, i>>
    BY DEF Entry
  <2> HIDE DEF r
  <2> QED
    BY <2>1, <2>2
<1> SUFFICES ASSUME Bounded
             PROVE  InLoop' /\ (\A d \in desired' : Appended(d)') /\ AppendedOnce'
  BY <1>1, <1>2 DEF RangeInv
<1>4. InLoop /\ (\A d \in desired : Appended(d)) /\ AppendedOnce
  BY <1>1 DEF RangeInv
<1>5. Range(k).start \in Int /\ Range(k).end \in Int
  BY <1>4, RangeTypes DEF InLoop, RangeInv
<1>6. i <= Range(k).end /\ Range(k).end < MaxInt
  BY <1>1, <1>4 DEF InRange, Bounded, InLoop
<1>7. i' = i + 1
  BY <1>1, <1>4, <1>5, <1>6, ConfigMergeAssumption DEF Increment, InLoop
<1>8. InLoop'
  BY <1>1, <1>4, <1>5, <1>6, <1>7 DEF InLoop, Range
<1>9. \A d \in desired : Appended(d)'
  BY <1>1, <1>4, <1>7 DEF Appended, InLoop, Range
<1>10. Appended(new)'
  BY <1>1, <1>3, <1>4, <1>6, <1>7 DEF Appended, InLoop, Range, RangeInv
<1>11. \A d \in desired : ~(d.entry = k /\ d.index = i)
  BY <1>4 DEF Appended, InLoop
<1>12. AppendedOnce'
  BY <1>3, <1>4, <1>11 DEF AppendedOnce
<1> QED
  BY <1>3, <1>8, <1>9, <1>10, <1>12

\* Every step of the Reconcile, and the next one on an edited ConfigMap, preserves
\* the invariant.
LEMMA RangeNext == RangeInv /\ [Next]_vars => RangeInv'
<1> SUFFICES ASSUME RangeInv, [Next]_vars PROVE RangeInv'
  OBVIOUS
<1>1. CASE ParseConfigMap
  BY <1>1, RangeMove DEF ParseConfigMap
<1>2. CASE BeginEntry
  <2>1. pc = "entry" /\ k \in DOMAIN doc.entries /\ UNCHANGED <<doc, k, desired>>
    BY <1>2 DEF BeginEntry
  <2>2. CASE pc' = "failed"
    BY <2>1, <2>2, RangeMove
  <2>3. CASE pc' # "failed"
    <3>1. pc' = "range" /\ Range(k).ok /\ i' = Range(k).start
      BY <1>2, <2>3 DEF BeginEntry
    <3>2. Bounded' <=> Bounded
      BY <2>1 DEF Bounded, Range
    <3>3. Range(k).start \in Int /\ Range(k).end \in Int /\ Range(k).start <= Range(k).end
      BY <2>1, <3>1, RangeTypes DEF RangeInv
    <3>4. InLoop'
      BY <2>1, <3>1, <3>3 DEF InLoop, Range
    <3>5. \A d \in desired : Appended(d) => Appended(d)'
      BY <2>1, <3>1 DEF Appended, Range
    <3> QED
      BY <2>1, <3>2, <3>4, <3>5 DEF RangeInv, AppendedOnce
  <2> QED
    BY <2>2, <2>3
<1>3. CASE AddNodePool
  BY <1>3, RangeAdd
<1>4. CASE EndEntry
  <2>1. pc = "range" /\ pc' = "entry" /\ k' = k + 1 /\ UNCHANGED <<doc, desired>>
    BY <1>4 DEF EndEntry
  <2>2. Bounded' <=> Bounded
    BY <2>1 DEF Bounded, Range
  <2>3. \A d \in desired : Appended(d) => Appended(d)'
    BY <2>1 DEF Appended, Range, RangeInv
  <2> QED
    BY <2>1, <2>2, <2>3 DEF RangeInv, AppendedOnce
<1>5. CASE Render
  BY <1>5, RangeMove DEF Render
<1>6. CASE Edit
  BY <1>6 DEF Edit, RangeInv, AppendedOnce
<1>7. CASE UNCHANGED vars
  <2>1. UNCHANGED <<doc, pc, k, i, desired>>
    BY <1>7 DEF vars
  <2>2. (Bounded' <=> Bounded) /\ (InLoop' <=> InLoop)
    BY <2>1 DEF Bounded, InLoop, Range
  <2>3. \A d \in desired : Appended(d) => Appended(d)'
    BY <2>1 DEF Appended, Range
  <2> QED
    BY <2>1, <2>2, <2>3 DEF RangeInv, AppendedOnce
<1> QED
  BY <1>1, <1>2, <1>3, <1>4, <1>5, <1>6, <1>7 DEF Next, Reconcile

\* The invariant is what SubblocksDistinct needs.
LEMMA RangeDistinct == RangeInv => SubblocksDistinct
<1> SUFFICES ASSUME RangeInv, Bounded, Disjoint,
                    NEW c \in desired, NEW d \in desired, c # d, c.sub = d.sub
             PROVE  FALSE
  BY DEF SubblocksDistinct
<1>1. Appended(c) /\ Appended(d) /\ AppendedOnce
  BY DEF RangeInv
<1>2. /\ c.index = d.index
      /\ doc.entries[c.entry].reservation = doc.entries[d.entry].reservation
      /\ doc.entries[c.entry].block = doc.entries[d.entry].block
  BY <1>1, AppendedSub
<1>3. c.entry # d.entry
  BY <1>1, <1>2 DEF AppendedOnce
<1>4. /\ Range(c.entry).start \in Int /\ Range(c.entry).end \in Int
      /\ Range(d.entry).start \in Int /\ Range(d.entry).end \in Int
  BY <1>1, RangeTypes DEF Appended, RangeInv
<1>5. Overlap(c.entry, d.entry)
  BY <1>1, <1>2, <1>4 DEF Appended, Overlap
<1> QED
  BY <1>1, <1>3, <1>5 DEF Disjoint, Appended

\* constructDesiredNodePools claims no subblock twice, for any number of entries,
\* any ranges below MaxInt, and any sequence of edits, unless the ranges of the
\* ConfigMap overlap.
THEOREM ClaimsDistinct == Spec => []SubblocksDistinct
<1>1. Init => RangeInv
  BY DEF Init, RangeInv, AppendedOnce
<1>2. RangeInv /\ [Next]_vars => RangeInv'
  BY RangeNext
<1> QED
  BY <1>1, <1>2, RangeDistinct, PTL DEF Spec

-----------------------------------------------------------------------------
(* Which subblocks are desired. *)

SubblocksOf(e) == {d.sub : d \in {x \in desired : x.entry = e}}

\* The subblocks of an entry up to, and without, index m.
ListedUpTo(e, m) == {Subblock(e, n) : n \in Range(e).start..(m - 1)}

\* Entry e was worked off, and all of its range was appended.
WorkedOff(e) ==
  e \in DOMAIN doc.entries => Range(e).ok /\ SubblocksOf(e) = ListedUpTo(e, Range(e).end + 1)

\* The loop over the range of entry k has appended what is before its index.  For a
\* range that ends at MaxInt nothing is claimed: its loop does not end.
InRangeLoop ==
  /\ k \in DOMAIN doc.entries /\ Range(k).ok
  /\ i \in Int /\ i <= MaxInt
  /\ Range(k).end < MaxInt =>
       /\ Range(k).start <= i /\ i <= Range(k).end + 1
       /\ SubblocksOf(k) = ListedUpTo(k, i)

\* The inductive invariant.
ListedInv ==
  /\ doc \in Documents /\ k \in Nat \ {0}
  /\ \A d \in desired : /\ d.entry \in 1..k /\ d.entry \in DOMAIN doc.entries
                        /\ pc \in {"parse", "entry"} => d.entry # k
  /\ \A e \in 1..(k - 1) : WorkedOff(e)
  /\ pc = "range" => InRangeLoop
  /\ SubblocksAsListed

\* What was worked off stays so while the ConfigMap and the list stay.
LEMMA ListedSame ==
  ASSUME UNCHANGED <<doc, desired>>, NEW e
  PROVE  /\ WorkedOff(e)' <=> WorkedOff(e)
         /\ Range(e)' = Range(e)
         /\ SubblocksOf(e)' = SubblocksOf(e)
BY DEF WorkedOff, Range, SubblocksOf, ListedUpTo, Subblock

\* A turn of the loop adds the subblock of its index.
LEMMA ListedAdd ==
  ASSUME ListedInv, AddNodePool
  PROVE  ListedInv'
<1>1. /\ pc = "range" /\ i <= Range(k).end
      /\ UNCHANGED <<doc, pc, k, rendered>> /\ i' = Increment(i)
  BY DEF AddNodePool, InRange
<1>2. PICK new : /\ desired' = desired \union {new}
                 /\ new.entry = k
                 /\ new.sub = Subblock(k, i)
  <2> DEFINE r == [entry  |-> k,
                   index  |-> i,
                   name   |-> NodePoolName(config[1].scalar["nodepoolPrefix"], Entry.block, i),
                   sub    |-> <<Entry.reservation, Entry.block, i>>,
                   config |-> config[1]]
  <2>1. desired' = desired \union {r}
    BY DEF AddNodePool
  <2>2. r.entry = k /\ r.sub = Subblock(k, i)
    BY DEF Entry, Subblock
  <2> HIDE DEF r
  <2> QED
    BY <2>1, <2>2
<1>3. k \in Nat \ {0} /\ InRangeLoop
  BY <1>1 DEF ListedInv
<1>4. \A e : Range(e)' = Range(e)
  BY <1>1 DEF Range
<1>5. /\ Range(k).start \in Int /\ Range(k).end \in Int /\ Range(k).end <= MaxInt
      /\ MaxInt \in Nat
  BY <1>3, RangeTypes, ConfigMergeAssumption DEF ListedInv, InRangeLoop
<1>6. \A d \in desired' : d.entry \in 1..k /\ d.entry \in DOMAIN doc.entries
  BY <1>2, <1>3 DEF ListedInv, InRangeLoop
<1>7. SubblocksOf(k)' = SubblocksOf(k) \union {Subblock(k, i)}
  BY <1>1, <1>2 DEF SubblocksOf
<1>8. ASSUME NEW e \in 1..(k - 1) PROVE WorkedOff(e)'
  <2>1. SubblocksOf(e)' = SubblocksOf(e)
    BY <1>2, <1>3, <1>8 DEF SubblocksOf
  <2>2. WorkedOff(e)
    BY <1>8 DEF ListedInv
  <2> QED
    BY <1>1, <2>1, <2>2 DEF WorkedOff, Range, ListedUpTo, Subblock
<1>9. i' \in Int /\ i' <= MaxInt
  BY <1>1, <1>3, <1>5 DEF Increment, InRangeLoop
<1>10. ASSUME Range(k).end < MaxInt
       PROVE  /\ Range(k).start <= i' /\ i' <= Range(k).end + 1
              /\ SubblocksOf(k)' = ListedUpTo(k, i')
  <2>1. i \in Int /\ Range(k).start <= i /\ SubblocksOf(k) = ListedUpTo(k, i)
    BY <1>3, <1>10 DEF InRangeLoop
  <2>2. i' = i + 1
    BY <1>1, <1>5, <1>10, <2>1 DEF Increment
  <2>3. Range(k).start..((i + 1) - 1) = (Range(k).start..(i - 1)) \union {i}
    BY <1>5, <2>1
  <2>4. ListedUpTo(k, i + 1) = ListedUpTo(k, i) \union {Subblock(k, i)}
    BY <2>3 DEF ListedUpTo
  <2> QED
    BY <1>1, <1>5, <1>7, <2>1, <2>2, <2>4
<1>11. InRangeLoop'
  <2>1. ListedUpTo(k, i)' = ListedUpTo(k, i')
    BY <1>1, <1>4 DEF ListedUpTo, Subblock
  <2> QED
    BY <1>1, <1>3, <1>4, <1>9, <1>10, <2>1 DEF InRangeLoop
<1>12. SubblocksAsListed'
  BY <1>1 DEF SubblocksAsListed
<1> QED
  BY <1>1, <1>3, <1>6, <1>8, <1>11, <1>12 DEF ListedInv

\* The loop over a range ends: all of it was appended.
LEMMA ListedEnd ==
  ASSUME ListedInv, EndEntry
  PROVE  ListedInv'
<1>1. /\ pc = "range" /\ ~(i <= Range(k).end)
      /\ pc' = "entry" /\ k' = k + 1 /\ UNCHANGED <<doc, desired, rendered>>
  BY DEF EndEntry, InRange
<1>2. k \in Nat \ {0} /\ InRangeLoop
  BY <1>1 DEF ListedInv
<1>3. Range(k).start \in Int /\ Range(k).end \in Int /\ MaxInt \in Nat
  BY <1>2, RangeTypes, ConfigMergeAssumption DEF ListedInv, InRangeLoop
<1>4. Range(k).end < MaxInt /\ i = Range(k).end + 1
  BY <1>1, <1>2, <1>3 DEF InRangeLoop
<1>5. WorkedOff(k)
  BY <1>2, <1>4 DEF InRangeLoop, WorkedOff
<1>6. \A e \in 1..(k' - 1) : WorkedOff(e)'
  BY <1>1, <1>2, <1>5, ListedSame DEF ListedInv
<1>7. \A d \in desired : d.entry \in 1..k' /\ d.entry \in DOMAIN doc.entries /\ d.entry # k'
  BY <1>1, <1>2 DEF ListedInv
<1>8. SubblocksAsListed'
  BY <1>1 DEF SubblocksAsListed
<1> QED
  BY <1>1, <1>2, <1>6, <1>7, <1>8 DEF ListedInv

\* The node pools that are rendered are the desired ones, of all entries.
LEMMA ListedRendered ==
  ASSUME ListedInv, Render, pc' = "done"
  PROVE  SubblocksAsListed'
<1>1. pc = "entry" /\ k \notin DOMAIN doc.entries /\ UNCHANGED <<doc, desired>>
  BY DEF Render
<1>2. \A e \in DOMAIN doc.entries : e \in 1..(k - 1)
  <2>1. DOMAIN doc.entries = 1..Len(doc.entries) /\ Len(doc.entries) \in Nat
    BY DocumentsAssumption DEF ListedInv
  <2>2. k \in Nat \ {0}
    BY DEF ListedInv
  <2> QED
    BY <1>1, <2>1, <2>2
<1> DEFINE pool(d) == StaticNodePoolForSubBlock(d.name, d.sub, d.config.scalar, Labels(d.config))
           asked(d) == <<doc.default, doc.entries[d.entry]>>
<1>3. rendered' = {[entry |-> d.entry, asked |-> asked(d), pool |-> pool(d)] : d \in desired}
  BY DEF Render
<1>4. \A d : pool(d).sub = d.sub
  BY DEF StaticNodePoolForSubBlock
<1> HIDE DEF pool, asked
<1>5. \A r \in rendered' : \E d \in desired : r.entry = d.entry /\ r.pool.sub = d.sub
  BY <1>3, <1>4
<1>6. ASSUME NEW d \in desired
      PROVE  \E r \in rendered' : r.entry = d.entry /\ r.pool.sub = d.sub
  <2>1. [entry |-> d.entry, asked |-> asked(d), pool |-> pool(d)] \in rendered'
    BY <1>3
  <2> QED
    BY <2>1, <1>4
<1>7. \A r \in rendered' : r.entry \in DOMAIN doc.entries
  BY <1>5 DEF ListedInv
<1>8. ASSUME NEW e \in DOMAIN doc.entries
      PROVE  /\ Range(e).ok
             /\ {r.pool.sub : r \in {x \in rendered' : x.entry = e}}
                  = {Subblock(e, n) : n \in Range(e).start..Range(e).end}
  <2>1. WorkedOff(e)
    BY <1>2 DEF ListedInv
  <2>2. Range(e).ok /\ SubblocksOf(e) = ListedUpTo(e, Range(e).end + 1)
    BY <2>1 DEF WorkedOff
  <2>3. Range(e).end \in Int
    BY <2>2, RangeTypes DEF ListedInv
  <2>4. {r.pool.sub : r \in {x \in rendered' : x.entry = e}} = SubblocksOf(e)
    BY <1>5, <1>6 DEF SubblocksOf
  <2>5. (Range(e).end + 1) - 1 = Range(e).end
    BY <2>3
  <2> QED
    BY <2>2, <2>4, <2>5 DEF ListedUpTo
<1> QED
  BY <1>1, <1>7, <1>8 DEF SubblocksAsListed, Range, Subblock

\* A step that leaves the entry and the list alone, outside of the loops.
LEMMA ListedMove ==
  ASSUME ListedInv, UNCHANGED <<doc, k, desired>>, pc \in {"parse", "entry"},
         pc' # "range", SubblocksAsListed'
  PROVE  ListedInv'
<1>1. \A e : WorkedOff(e)' <=> WorkedOff(e)
  BY ListedSame
<1> QED
  BY <1>1 DEF ListedInv

\* Every step keeps the invariant.
LEMMA ListedNext == ListedInv /\ [Next]_vars => ListedInv'
<1> SUFFICES ASSUME ListedInv, [Next]_vars PROVE ListedInv'
  OBVIOUS
<1>1. CASE ParseConfigMap
  BY <1>1, ListedMove DEF ParseConfigMap, SubblocksAsListed
<1>2. CASE BeginEntry
  <2>1. pc = "entry" /\ k \in DOMAIN doc.entries /\ UNCHANGED <<doc, k, desired>>
    BY <1>2 DEF BeginEntry
  <2>2. CASE pc' = "failed"
    BY <2>1, <2>2, ListedMove DEF SubblocksAsListed
  <2>3. CASE pc' # "failed"
    <3>1. pc' = "range" /\ Range(k).ok /\ i' = Range(k).start
      BY <1>2, <2>3 DEF BeginEntry
    <3>2. /\ Range(k).start \in Int /\ Range(k).end \in Int
          /\ Range(k).start <= Range(k).end /\ Range(k).end <= MaxInt /\ MaxInt \in Nat
      BY <2>1, <3>1, RangeTypes, ConfigMergeAssumption DEF ListedInv
    <3>3. SubblocksOf(k) = {} /\ ListedUpTo(k, Range(k).start) = {}
      BY <2>1, <3>2 DEF ListedInv, SubblocksOf, ListedUpTo
    <3>4. \A e : /\ WorkedOff(e)' <=> WorkedOff(e)
                 /\ Range(e)' = Range(e)
                 /\ SubblocksOf(e)' = SubblocksOf(e)
      BY <2>1, ListedSame
    <3>5. ListedUpTo(k, i)' = ListedUpTo(k, Range(k).start)
      BY <2>1, <3>1, <3>4 DEF ListedUpTo, Subblock
    <3>6. InRangeLoop'
      BY <2>1, <3>1, <3>2, <3>3, <3>4, <3>5 DEF InRangeLoop
    <3>7. SubblocksAsListed'
      BY <3>1 DEF SubblocksAsListed
    <3> QED
      BY <2>1, <3>1, <3>4, <3>6, <3>7 DEF ListedInv
  <2> QED
    BY <2>2, <2>3
<1>3. CASE AddNodePool
  BY <1>3, ListedAdd
<1>4. CASE EndEntry
  BY <1>4, ListedEnd
<1>5. CASE Render
  <2>1. SubblocksAsListed'
    BY <1>5, ListedRendered DEF SubblocksAsListed
  <2> QED
    BY <1>5, <2>1, ListedMove DEF Render
<1>6. CASE Edit
  BY <1>6 DEF Edit, ListedInv, SubblocksAsListed
<1>7. CASE UNCHANGED vars
  <2>1. UNCHANGED <<doc, pc, k, i, desired, rendered>>
    BY <1>7 DEF vars
  <2>2. \A e : /\ WorkedOff(e)' <=> WorkedOff(e)
               /\ Range(e)' = Range(e)
               /\ SubblocksOf(e)' = SubblocksOf(e)
    BY <2>1, ListedSame
  <2>3. ListedUpTo(k, i)' = ListedUpTo(k, i)
    BY <2>1, <2>2 DEF ListedUpTo, Subblock
  <2>4. InRangeLoop' <=> InRangeLoop
    BY <2>1, <2>2, <2>3 DEF InRangeLoop
  <2>5. SubblocksAsListed' <=> SubblocksAsListed
    BY <2>1, <2>2 DEF SubblocksAsListed, Subblock
  <2> QED
    BY <2>1, <2>2, <2>4, <2>5 DEF ListedInv
<1> QED
  BY <1>1, <1>2, <1>3, <1>4, <1>5, <1>6, <1>7 DEF Next, Reconcile

\* For any number of entries, any ranges and any sequence of edits, the node pools
\* that a Reconcile compares with the cluster stand for exactly the subblocks that
\* the ConfigMap lists: no entry is left out, and no index of a range.
THEOREM ListedSubblocks == Spec => []SubblocksAsListed
<1>1. Init => ListedInv
  BY DEF Init, ListedInv, SubblocksAsListed
<1>2. ListedInv => SubblocksAsListed
  BY DEF ListedInv
<1> QED
  BY <1>1, <1>2, ListedNext, PTL DEF Spec

-----------------------------------------------------------------------------
(* Scalar fields. *)

\* What Specified says, in terms of the two parsed configurations (MergeConfig,
\* parser.go:37-88): the entry's value, unless it is unset.
LEMMA MergedScalars ==
  ASSUME global = ParseConfig(doc.default, DefaultMap), Given(Merged.config),
         NEW f \in Fields
  PROVE  Merged.config[1].scalar[f] = Specified(doc.default, Entry.config, f)
<1> DEFINE s == ParseConfig(Entry.config, EntryMap(k))
<1>1. ASSUME NEW option, NEW map
      PROVE  /\ Given(ParseConfig(option, map)) <=> Given(option)
             /\ Given(option) => ParseConfig(option, map)[1].scalar[f]
                                   = ParseField(f, option[1].scalar[f])
  BY DEF ParseConfig, Given, None
<1>2. /\ Given(global) <=> Given(doc.default)
      /\ Given(global) => global[1].scalar[f] = ParseField(f, doc.default[1].scalar[f])
  BY <1>1
<1>3. /\ Given(s) <=> Given(Entry.config)
      /\ Given(s) => s[1].scalar[f] = ParseField(f, Entry.config[1].scalar[f])
  BY <1>1
<1>4. /\ Merged.config = MergeConfig(global, s, k).config
      /\ Given(global) \/ Given(s)
  BY DEF Merged, MergeConfig
<1> HIDE DEF s
<1>5. CASE ~Given(s)
  <2>1. Merged.config = global /\ Given(global)
    BY <1>4, <1>5 DEF MergeConfig
  <2> QED
    BY <1>2, <1>3, <1>5, <2>1 DEF Specified
<1>6. CASE Given(s) /\ ~Given(global)
  <2>1. Merged.config = s
    BY <1>4, <1>6 DEF MergeConfig
  <2> QED
    BY <1>2, <1>3, <1>6, <2>1 DEF Specified
<1>7. CASE Given(s) /\ Given(global)
  <2>1. Merged.config[1].scalar = MergeScalars(global[1].scalar, s[1].scalar)
    BY <1>4, <1>7 DEF MergeConfig
  <2>2. Merged.config[1].scalar[f]
          = IF s[1].scalar[f] = Unset THEN global[1].scalar[f] ELSE s[1].scalar[f]
    BY <2>1 DEF MergeScalars
  <2> QED
    BY <1>2, <1>3, <1>7, <2>2 DEF Specified
<1> QED
  BY <1>5, <1>6, <1>7

\* A configuration has the scalars that the ConfigMap specifies for entry e.
HasScalars(c, e) ==
  \A f \in Fields : c.scalar[f] = Specified(doc.default, doc.entries[e].config, f)

\* The inductive invariant: the default configuration is not changed by a merge,
\* and the configuration at hand is the one of the entry at hand.
ScalarInv ==
  /\ pc \in {"entry", "range"} => global = ParseConfig(doc.default, DefaultMap)
  /\ pc = "range" => HasScalars(config[1], k)
  /\ \A d \in desired : HasScalars(d.config, d.entry)

\* Every step keeps it.
LEMMA ScalarNext == ScalarInv /\ [Next]_vars => ScalarInv'
<1> SUFFICES ASSUME ScalarInv, [Next]_vars PROVE ScalarInv'
  OBVIOUS
<1>s. UNCHANGED doc => \A c, e : HasScalars(c, e)' <=> HasScalars(c, e)
  BY DEF HasScalars
<1>1. CASE ParseConfigMap
  BY <1>1, <1>s DEF ParseConfigMap, ScalarInv
<1>2. CASE BeginEntry
  <2>1. CASE Range(k).ok /\ Given(Merged.config)
    <3>1. HasScalars(Merged.config[1], k)
      BY <1>2, <2>1, MergedScalars DEF BeginEntry, ScalarInv, HasScalars, Entry
    <3>2. config' = Merged.config /\ UNCHANGED <<doc, k, global, desired>> /\ pc = "entry"
      BY <1>2, <2>1 DEF BeginEntry
    <3>3. HasScalars(config[1], k)'
      BY <3>1, <3>2 DEF HasScalars
    <3> QED
      BY <3>2, <3>3, <1>s DEF ScalarInv
  <2>2. CASE ~(Range(k).ok /\ Given(Merged.config))
    <3>1. pc' = "failed" /\ UNCHANGED <<doc, desired>>
      BY <1>2, <2>2 DEF BeginEntry
    <3> QED
      BY <3>1, <1>s DEF ScalarInv
  <2> QED
    BY <2>1, <2>2
<1>3. CASE AddNodePool
  <2>1. PICK new : desired' = desired \union {new} /\ new.entry = k /\ new.config = config[1]
    <3> DEFINE r == [entry  |-> k,
                     index  |-> i,
                     name   |-> NodePoolName(config[1].scalar["nodepoolPrefix"], Entry.block, i),
                     sub    |-> <<Entry.reservation, Entry.block, i>>,
                     config |-> config[1]]
    <3>1. desired' = desired \union {r}
      BY <1>3 DEF AddNodePool
    <3>2. r.entry = k /\ r.config = config[1]
      OBVIOUS
    <3> HIDE DEF r
    <3> QED
      BY <3>1, <3>2
  <2>2. pc = "range" /\ UNCHANGED <<doc, pc, global, config, k>>
    BY <1>3 DEF AddNodePool
  <2>3. \A d \in desired' : HasScalars(d.config, d.entry)'
    BY <2>1, <2>2, <1>s DEF ScalarInv
  <2>4. HasScalars(config[1], k)'
    BY <2>2 DEF ScalarInv, HasScalars
  <2> QED
    BY <2>2, <2>3, <2>4 DEF ScalarInv
<1>4. CASE EndEntry \/ Render
  BY <1>4, <1>s DEF EndEntry, Render, ScalarInv
<1>5. CASE Edit
  BY <1>5 DEF Edit, ScalarInv
<1>6. CASE UNCHANGED vars
  <2>1. UNCHANGED <<doc, pc, global, config, k, desired>>
    BY <1>6 DEF vars
  <2> QED
    BY <2>1 DEF ScalarInv, HasScalars
<1> QED
  BY <1>1, <1>2, <1>3, <1>4, <1>5, <1>6 DEF Next, Reconcile

\* For every ConfigMap, every scalar field of every node pool is the one of its
\* entry, or else the default: no merge leaks a field into another entry, and a
\* false that is given is not lost.
THEOREM ScalarsRight == Spec => []ScalarsAsSpecified
<1>1. Init => ScalarInv
  BY DEF Init, ScalarInv
<1>2. ScalarInv => ScalarsAsSpecified
  BY DEF ScalarInv, ScalarsAsSpecified, HasScalars
<1> QED
  BY <1>1, <1>2, ScalarNext, PTL DEF Spec

-----------------------------------------------------------------------------
(* The hash. *)

\* The fields of a node pool that StaticNodePoolForSubBlock fills in.
HashedFields ==
  {"placement", "nodeCount", "maxPods", "machineType", "sub", "integrity", "secureBoot",
   "labels"}

RenderedPool(p) ==
  p = [name |-> p.name, sub |-> p.sub, machineType |-> p.machineType,
       nodeCount |-> p.nodeCount, placement |-> p.placement, integrity |-> p.integrity,
       secureBoot |-> p.secureBoot, maxPods |-> p.maxPods, autorepair |-> p.autorepair,
       labels |-> p.labels]

AllRendered == \A r \in rendered : RenderedPool(r.pool)

\* The hash decides whether two node pools of one name agree in every field but
\* autorepair (nodePoolHash, gke.go:397-438).
LEMMA HashDecides ==
  ASSUME NEW p, NEW q, RenderedPool(p), RenderedPool(q), p.name = q.name
  PROVE  (NodePoolHash(p) = NodePoolHash(q)) <=> [p EXCEPT !.autorepair = q.autorepair] = q
<1>1. (NodePoolHash(p) = NodePoolHash(q)) <=> \A f \in HashedFields : p[f] = q[f]
  BY DEF NodePoolHash, HashedFields
<1>2. [p EXCEPT !.autorepair = q.autorepair]
        = [name |-> p.name, sub |-> p.sub, machineType |-> p.machineType,
           nodeCount |-> p.nodeCount, placement |-> p.placement, integrity |-> p.integrity,
           secureBoot |-> p.secureBoot, maxPods |-> p.maxPods, autorepair |-> q.autorepair,
           labels |-> p.labels]
  BY DEF RenderedPool
<1>3. [p EXCEPT !.autorepair = q.autorepair] = q
        <=> /\ p.sub = q.sub /\ p.machineType = q.machineType /\ p.nodeCount = q.nodeCount
            /\ p.placement = q.placement /\ p.integrity = q.integrity
            /\ p.secureBoot = q.secureBoot /\ p.maxPods = q.maxPods /\ p.labels = q.labels
  BY <1>2 DEF RenderedPool
<1> QED
  BY <1>1, <1>3 DEF HashedFields

\* Only Render changes the node pools of the last Reconcile.
LEMMA RenderedNext == AllRendered /\ [Next]_vars => AllRendered'
<1> SUFFICES ASSUME AllRendered, [Next]_vars PROVE AllRendered'
  OBVIOUS
<1>1. CASE Render
  <2>1. CASE UNCHANGED rendered
    BY <2>1 DEF AllRendered
  <2>2. ASSUME NEW r \in rendered',
               rendered' =
                 {[entry |-> d.entry,
                   asked |-> <<doc.default, doc.entries[d.entry]>>,
                   pool  |-> StaticNodePoolForSubBlock(d.name, d.sub, d.config.scalar,
                                                       Labels(d.config))] : d \in desired}
        PROVE  RenderedPool(r.pool)
    <3>1. PICK d \in desired :
            r.pool = StaticNodePoolForSubBlock(d.name, d.sub, d.config.scalar, Labels(d.config))
      BY <2>2
    <3> QED
      BY <3>1 DEF RenderedPool, StaticNodePoolForSubBlock
  <2> QED
    BY <1>1, <2>1, <2>2 DEF Render, AllRendered
<1>2. CASE UNCHANGED rendered
  BY <1>2 DEF AllRendered
<1> QED
  BY <1>1, <1>2 DEF Next, Reconcile, ParseConfigMap, BeginEntry, AddNodePool, EndEntry, Edit, vars

\* For every sequence of ConfigMaps, an edit that changes the node pool of some
\* name changes its hash, and one that does not leaves the hash alone; autorepair
\* is left aside.
THEOREM HashRight == Spec => HashTells
<1>1. Init => AllRendered
  BY DEF Init, AllRendered
<1>2. AllRendered /\ AllRendered' =>
        \A old \in rendered, new \in rendered' :
          old.pool.name = new.pool.name =>
            ((NodePoolHash(old.pool) = NodePoolHash(new.pool))
               <=> [old.pool EXCEPT !.autorepair = new.pool.autorepair] = new.pool)
  BY HashDecides DEF AllRendered
<1>3. AllRendered /\ [Next]_vars =>
        [pc = "entry" /\ pc' = "done" =>
           \A old \in rendered, new \in rendered' :
             old.pool.name = new.pool.name =>
               ((NodePoolHash(old.pool) = NodePoolHash(new.pool))
                  <=> [old.pool EXCEPT !.autorepair = new.pool.autorepair] = new.pool)]_vars
  BY <1>2, RenderedNext
<1> QED
  BY <1>1, <1>3, RenderedNext, PTL DEF Spec, HashTells

-----------------------------------------------------------------------------
(* Types. *)

\* A label map is that of the default, one of an entry, one that a merge made, or
\* none.
LEMMA MapsApart ==
  /\ \A e : /\ Nil # EntryMap(e) /\ Nil # MergedMap(e)
            /\ DefaultMap # EntryMap(e) /\ DefaultMap # MergedMap(e)
  /\ \A e, f : /\ EntryMap(e) # MergedMap(f)
               /\ EntryMap(e) = EntryMap(f) => e = f
               /\ MergedMap(e) = MergedMap(f) => e = f
  /\ Nil # DefaultMap
<1>1. \A e : Len(EntryMap(e)) = 2 /\ Len(MergedMap(e)) = 2
  BY DEF EntryMap, MergedMap
<1>2. Len(Nil) = 1 /\ Len(DefaultMap) = 1
  BY DEF Nil, DefaultMap
<1>3. Nil[1] = "nil" /\ DefaultMap[1] = "default"
  BY DEF Nil, DefaultMap
<1>4. \A e : EntryMap(e)[1] = "entry" /\ MergedMap(e)[1] = "merged"
  BY DEF EntryMap, MergedMap
<1>5. \A e : EntryMap(e)[2] = e /\ MergedMap(e)[2] = e
  BY DEF EntryMap, MergedMap
<1>6. \A e : /\ Nil # EntryMap(e) /\ Nil # MergedMap(e)
             /\ DefaultMap # EntryMap(e) /\ DefaultMap # MergedMap(e)
  BY <1>3, <1>4
<1>7. \A e, f : /\ EntryMap(e) # MergedMap(f)
                /\ EntryMap(e) = EntryMap(f) => e = f
                /\ MergedMap(e) = MergedMap(f) => e = f
  BY <1>4, <1>5
<1> QED
  BY <1>3, <1>6, <1>7

\* A parsed configuration has all scalars, and refers to a map of the heap.
ConfigTyped(c) == DOMAIN c.scalar = Fields /\ c.labels \in Maps(doc) \union {Nil}

\* The parsed configurations, and what MergeConfig makes of them, have that type.
LEMMA MergeTypes ==
  ASSUME DOMAIN heap = Maps(doc), k \in DOMAIN doc.entries,
         Given(global) => ConfigTyped(global[1])
  PROVE  /\ Given(Merged.config) => ConfigTyped(Merged.config[1])
         /\ DOMAIN Merged.heap = Maps(doc)
<1> DEFINE s == ParseConfig(Entry.config, EntryMap(k))
<1>1. Given(s) => ConfigTyped(s[1])
  BY DEF ParseConfig, Given, None, ConfigTyped, Maps
<1>2. Merged = MergeConfig(global, s, k)
  BY DEF Merged
<1> HIDE DEF s
<1>3. CASE ~Given(global) \/ ~Given(s)
  BY <1>1, <1>2, <1>3 DEF MergeConfig
<1>4. CASE Given(global) /\ Given(s)
  <2> DEFINE hasLabels == s[1].labels # Nil /\ DOMAIN heap[s[1].labels] # {}
  <2> DEFINE target == IF hasLabels THEN Target(global[1], k) ELSE global[1].labels
  <2>1. Merged = [config |-> <<[scalar |-> MergeScalars(global[1].scalar, s[1].scalar),
                                labels |-> target]>>,
                  heap   |-> IF hasLabels
                             THEN [heap EXCEPT ![target] = Overlay(heap[s[1].labels], @)]
                             ELSE heap]
    BY <1>2, <1>4 DEF MergeConfig
  <2>2. target \in Maps(doc) \union {Nil}
    BY <1>4 DEF Target, ConfigTyped, Maps
  <2>3. DOMAIN MergeScalars(global[1].scalar, s[1].scalar) = Fields
    BY DEF MergeScalars
  <2>4. Merged.config[1].scalar = MergeScalars(global[1].scalar, s[1].scalar)
        /\ Merged.config[1].labels = target
    BY <2>1
  <2>5. DOMAIN Merged.heap = DOMAIN heap
    BY <2>1
  <2> QED
    BY <2>2, <2>3, <2>4, <2>5 DEF ConfigTyped
<1> QED
  BY <1>3, <1>4

\* The inductive invariant of the types: in the loop over a range there is an entry
\* with a range and a configuration.
MergeInv ==
  /\ doc \in Documents
  /\ TypeOK
  /\ pc = "range" => k \in DOMAIN doc.entries /\ Range(k).ok /\ Given(config)

\* A new Reconcile starts well typed.
LEMMA MergeStart ==
  ASSUME NEW d \in Documents
  PROVE  DOMAIN InitialHeap(d) = Maps(d) /\ 1 \in 1..(Len(d.entries) + 1)
BY DocumentsAssumption DEF InitialHeap

\* Every step keeps the types.
LEMMA MergeNext == MergeInv /\ [Next]_vars => MergeInv'
<1> SUFFICES ASSUME MergeInv, [Next]_vars PROVE MergeInv'
  OBVIOUS
<1>d. /\ Len(doc.entries) \in Nat /\ DOMAIN doc.entries = 1..Len(doc.entries)
      /\ MaxEdits \in Nat /\ MaxInt \in Nat
  BY DocumentsAssumption, ConfigMergeAssumption DEF MergeInv
<1>t. /\ DOMAIN heap = Maps(doc) /\ k \in 1..(Len(doc.entries) + 1)
      /\ i \in (-MaxInt - 1)..MaxInt
      /\ \A c \in {global, config} : Given(c) => ConfigTyped(c[1])
  BY DEF MergeInv, TypeOK, ConfigTyped
<1>1. CASE ParseConfigMap
  <2>1. ParseConfig(doc.default, DefaultMap) = None
          \/ ConfigTyped(ParseConfig(doc.default, DefaultMap)[1])
    BY DEF ParseConfig, ConfigTyped, Maps
  <2>2. /\ global' = global \/ global' = ParseConfig(doc.default, DefaultMap)
        /\ pc' \in {"entry", "skipped"}
        /\ UNCHANGED <<doc, heap, k, config, i, desired, edits>>
    BY <1>1 DEF ParseConfigMap
  <2>3. \A c \in {global', config'} : Given(c) => ConfigTyped(c[1])
    BY <2>1, <2>2, <1>t DEF Given
  <2> QED
    BY <2>2, <2>3 DEF MergeInv, TypeOK, ConfigTyped, Ended
<1>2. CASE BeginEntry
  <2>1. k \in DOMAIN doc.entries /\ UNCHANGED <<doc, global, k, desired, edits>>
    BY <1>2 DEF BeginEntry
  <2>2. CASE pc' = "failed" /\ UNCHANGED <<heap, config, i>>
    BY <2>1, <2>2 DEF MergeInv, TypeOK, Ended
  <2>3. CASE /\ Range(k).ok /\ Given(Merged.config) /\ pc' = "range"
             /\ heap' = Merged.heap /\ config' = Merged.config /\ i' = Range(k).start
    <3>1. Range(k).start \in 0..MaxInt
      <4> DEFINE text == doc.entries[k].subblocks
      <4>1. text \in Seq(Atom)
        BY <2>1, ConfigMergeAssumption DEF MergeInv
      <4> HIDE DEF text
      <4>2. Len(text) \in 1..2 /\ Range(k).start = text[1].n
        BY <2>3 DEF Range, ParseSubBlocks, text
      <4>3. text[1] \in Atom
        BY <4>1, <4>2
      <4> QED
        BY <4>2, <4>3 DEF Atom
    <3>2. i' \in (-MaxInt - 1)..MaxInt
      BY <3>1, <2>3, <1>d
    <3>3. ConfigTyped(config'[1]) /\ DOMAIN heap' = Maps(doc)
      BY <2>1, <2>3, <1>t, MergeTypes
    <3>4. \A c \in {global', config'} : Given(c) => ConfigTyped(c[1])
      BY <3>3, <2>1, <1>t
    <3>5. TypeOK'
      BY <2>1, <2>3, <3>2, <3>3, <3>4 DEF MergeInv, TypeOK, ConfigTyped, Maps
    <3>6. Range(k)' = Range(k)
      BY <2>1 DEF Range
    <3> QED
      BY <2>1, <2>3, <3>5, <3>6 DEF MergeInv
  <2> QED
    BY <1>2, <2>2, <2>3 DEF BeginEntry
<1>3. CASE AddNodePool
  <2>1. /\ pc = "range" /\ i' = Increment(i)
        /\ UNCHANGED <<doc, pc, heap, global, k, config, edits>>
    BY <1>3 DEF AddNodePool
  <2>2. PICK new : desired' = desired \union {new} /\ new.entry = k /\ new.config = config[1]
    <3> DEFINE r == [entry  |-> k,
                     index  |-> i,
                     name   |-> NodePoolName(config[1].scalar["nodepoolPrefix"], Entry.block, i),
                     sub    |-> <<Entry.reservation, Entry.block, i>>,
                     config |-> config[1]]
    <3>1. desired' = desired \union {r}
      BY <1>3 DEF AddNodePool
    <3>2. r.entry = k /\ r.config = config[1]
      OBVIOUS
    <3> HIDE DEF r
    <3> QED
      BY <3>1, <3>2
  <2>3. i' \in (-MaxInt - 1)..MaxInt
    BY <2>1, <1>d, <1>t DEF Increment
  <2>4. k \in DOMAIN doc.entries /\ k \in 1..k /\ ConfigTyped(config[1])
    BY <2>1, <1>t, <1>d DEF MergeInv
  <2>5. \A d \in desired' : /\ d.entry \in 1..k /\ d.entry \in DOMAIN doc.entries
                            /\ d.config.labels \in Maps(doc) \union {Nil}
    BY <2>2, <2>4 DEF MergeInv, TypeOK, ConfigTyped
  <2>6. TypeOK'
    BY <2>1, <2>3, <2>5 DEF MergeInv, TypeOK, Maps
  <2> QED
    BY <2>1, <2>6 DEF MergeInv, Range
<1>4. CASE EndEntry
  <2>1. /\ pc = "range" /\ pc' = "entry" /\ k' = k + 1
        /\ UNCHANGED <<doc, heap, global, config, i, desired, edits>>
    BY <1>4 DEF EndEntry
  <2>2. k' \in 1..(Len(doc.entries) + 1) /\ \A n \in 1..k : n \in 1..k'
    BY <2>1, <1>d, <1>t DEF MergeInv
  <2> QED
    BY <2>1, <2>2 DEF MergeInv, TypeOK, Maps
<1>5. CASE Render
  BY <1>5 DEF Render, MergeInv, TypeOK, Maps, Ended
<1>6. CASE Edit
  <2>1. /\ doc' \in Documents /\ pc' = "parse" /\ heap' = InitialHeap(doc')
        /\ global' = None /\ k' = 1 /\ config' = None /\ i' = 0 /\ desired' = {}
        /\ edits < MaxEdits /\ edits' = edits + 1
    BY <1>6 DEF Edit, FreshHeap
  <2>2. DOMAIN heap' = Maps(doc)' /\ k' \in 1..(Len(doc'.entries) + 1)
    BY <2>1, MergeStart DEF Maps
  <2>3. edits' \in 0..MaxEdits /\ i' \in (-MaxInt - 1)..MaxInt
    BY <2>1, <1>d DEF MergeInv, TypeOK
  <2> QED
    BY <2>1, <2>2, <2>3 DEF MergeInv, TypeOK, Given, None
<1>7. CASE UNCHANGED vars
  BY <1>7 DEF vars, MergeInv, TypeOK, Range, Maps
<1> QED
  BY <1>1, <1>2, <1>3, <1>4, <1>5, <1>6, <1>7 DEF Next, Reconcile

\* A Reconcile starts with its own maps.
LEMMA MergeInit == Init => MergeInv
<1> SUFFICES ASSUME Init PROVE MergeInv
  OBVIOUS
<1>1. DOMAIN heap = Maps(doc) /\ k \in 1..(Len(doc.entries) + 1)
  BY MergeStart DEF Init
<1>2. i \in (-MaxInt - 1)..MaxInt /\ edits \in 0..MaxEdits
  BY DocumentsAssumption, ConfigMergeAssumption DEF Init
<1> QED
  BY <1>1, <1>2 DEF Init, MergeInv, TypeOK, Given, None

\* For every sequence of ConfigMaps the configurations refer to maps of the running
\* Reconcile, the desired node pools to entries it reached, and the loop index stays
\* an int.
THEOREM MergeTypesRight == Spec => []TypeOK
<1>1. MergeInv => TypeOK
  BY DEF MergeInv
<1> QED
  BY <1>1, MergeInit, MergeNext, PTL DEF Spec

-----------------------------------------------------------------------------
(* Labels. *)

\* Writing labels into a map, or a map that is empty.
LEMMA OverlayFacts ==
  ASSUME NEW f, NEW g, IsMap(f), IsMap(g)
  PROVE  /\ IsMap(Overlay(f, g))
         /\ DOMAIN f = {} => Overlay(f, g) = g
         /\ DOMAIN g = {} => Overlay(f, g) = f
         /\ \A h : Overlay(Overlay(f, g), h) = Overlay(f, Overlay(g, h))
<1>1. IsMap(Overlay(f, g))
  BY DEF IsMap, Overlay
<1>2. DOMAIN f = {} => Overlay(f, g) = g
  BY DEF IsMap, Overlay
<1>3. DOMAIN g = {} => Overlay(f, g) = f
  BY DEF IsMap, Overlay
<1>4. ASSUME NEW h PROVE Overlay(Overlay(f, g), h) = Overlay(f, Overlay(g, h))
  BY DEF Overlay
<1> QED
  BY <1>1, <1>2, <1>3, <1>4

\* The labels that the ConfigMap asks for, for the node pools of entry e.
Asked(e) == Overlay(LabelsIn(doc.entries[e].config), LabelsIn(doc.default))

\* The labels that a configuration has in heap h.
LabelsAt(c, h) == IF c.labels = Nil THEN <<>> ELSE h[c.labels]

\* The configuration c of entry e has the labels it should have, in a map that no
\* later merge writes to.
RightLabels(c, e) ==
  /\ LabelsAt(c, heap) = Asked(e)
  /\ c.labels \in {Nil, DefaultMap, EntryMap(e), MergedMap(e)}

\* The maps that were parsed are unchanged, and those of the merges ahead are empty.
MapsIntact ==
  /\ heap[DefaultMap] = LabelsIn(doc.default)
  /\ \A e \in DOMAIN doc.entries : heap[EntryMap(e)] = LabelsIn(doc.entries[e].config)
  /\ \A e \in DOMAIN doc.entries :
       e > k \/ (e = k /\ pc # "range") => heap[MergedMap(e)] = <<>>

RenderedRight ==
  \A r \in rendered :
    r.pool.labels = Overlay(LabelsIn(r.asked[2].config),
                            Overlay(LabelsIn(r.asked[1]), OwnLabels(r.pool.name)))

\* The inductive invariant of the labels.
LabelInv ==
  /\ MergeInv
  /\ pc \in {"entry", "range"} => global = ParseConfig(doc.default, DefaultMap)
  /\ pc = "parse" => desired = {}
  /\ ~Mixed(doc.default, doc.entries) =>
       /\ pc \in {"parse", "entry", "range"} => MapsIntact
       /\ pc = "range" => RightLabels(config[1], k)
       /\ pc \in {"entry", "range"} => \A d \in desired :
            RightLabels(d.config, d.entry) /\ (d.entry < k \/ (d.entry = k /\ pc = "range"))
       /\ pc = "done" => RenderedRight

\* There are no labels in a configuration that is not there.
LEMMA NoLabels ==
  ASSUME NEW option, ~Given(option) \/ ~Given(option[1].labels)
  PROVE  LabelsIn(option) = <<>>
BY DEF LabelsIn

LEMMA EmptyMap == IsMap(<<>>) /\ DOMAIN <<>> = {}
BY DEF IsMap

\* The labels in the maps of the documents are maps.
LEMMA DocumentMaps ==
  ASSUME doc \in Documents
  PROVE  IsMap(LabelsIn(doc.default))
         /\ \A e \in DOMAIN doc.entries : IsMap(LabelsIn(doc.entries[e].config))
BY DocumentsAssumption

\* A merge gives the entry at hand the labels asked for, and writes to no map but the
\* one it makes, unless an entry overrides labels of the default (parser.go:64-71).
LEMMA MergedLabels ==
  ASSUME MergeInv, k \in DOMAIN doc.entries, pc # "range", MapsIntact,
         global = ParseConfig(doc.default, DefaultMap),
         ~Mixed(doc.default, doc.entries), Given(Merged.config)
  PROVE  /\ \A m \in Maps(doc) \ {MergedMap(k)} : Merged.heap[m] = heap[m]
         /\ LabelsAt(Merged.config[1], Merged.heap) = Asked(k)
         /\ Merged.config[1].labels \in {Nil, DefaultMap, EntryMap(k), MergedMap(k)}
<1> DEFINE s == ParseConfig(Entry.config, EntryMap(k))
<1> DEFINE own == LabelsIn(Entry.config)
<1> DEFINE default == LabelsIn(doc.default)
<1>1. IsMap(own) /\ IsMap(default) /\ Asked(k) = Overlay(own, default)
  BY DocumentMaps DEF MergeInv, Entry, Asked
<1>2. heap[EntryMap(k)] = own /\ heap[DefaultMap] = default /\ heap[MergedMap(k)] = <<>>
  BY DEF MapsIntact, Entry, MergeInv, TypeOK
<1>3. /\ Given(s) <=> Given(Entry.config)
      /\ Given(s) => s[1].labels = IF Given(Entry.config[1].labels) THEN EntryMap(k) ELSE Nil
  BY DEF ParseConfig, Given, None
<1>4. /\ Given(global) <=> Given(doc.default)
      /\ Given(global) => global[1].labels = IF Given(doc.default[1].labels) THEN DefaultMap ELSE Nil
  BY DEF ParseConfig, Given, None
<1>5. /\ ~Given(Entry.config) \/ ~Given(Entry.config[1].labels) => own = <<>>
      /\ ~Given(doc.default) \/ ~Given(doc.default[1].labels) => default = <<>>
  BY NoLabels
<1>6. Merged = MergeConfig(global, s, k) /\ (Given(global) \/ Given(s))
  BY DEF Merged, MergeConfig
<1>7. Given(doc.default) /\ Given(doc.default[1].labels) => DOMAIN own = {}
  BY DEF Mixed, Entry
<1> HIDE DEF s, own, default
<1>8. CASE ~Given(global)
  <2>1. Merged.config = s /\ Merged.heap = heap /\ Given(s)
    BY <1>6, <1>8 DEF MergeConfig
  <2>2. default = <<>>
    BY <1>4, <1>5, <1>8
  <2>3. Asked(k) = own
    BY <2>2, <1>1, EmptyMap, OverlayFacts
  <2>4. LabelsAt(s[1], heap) = own
    BY <2>1, <1>2, <1>3, <1>5, MapsApart DEF LabelsAt
  <2> QED
    BY <2>1, <2>3, <2>4, <1>3
<1>9. CASE Given(global) /\ ~Given(s)
  <2>1. Merged.config = global /\ Merged.heap = heap
    BY <1>6, <1>9 DEF MergeConfig
  <2>2. own = <<>>
    BY <1>3, <1>5, <1>9
  <2>3. Asked(k) = default
    BY <2>2, <1>1, EmptyMap, OverlayFacts
  <2>4. LabelsAt(global[1], heap) = default
    BY <1>9, <1>2, <1>4, <1>5, MapsApart DEF LabelsAt
  <2> QED
    BY <2>1, <2>3, <2>4, <1>4, <1>9
<1>10. CASE Given(global) /\ Given(s)
  <2> DEFINE hasLabels == s[1].labels # Nil /\ DOMAIN heap[s[1].labels] # {}
  <2> DEFINE target == IF hasLabels THEN Target(global[1], k) ELSE global[1].labels
  <2>1. /\ Merged.config[1].labels = target
        /\ Merged.heap = IF hasLabels
                         THEN [heap EXCEPT ![target] = Overlay(heap[s[1].labels], @)]
                         ELSE heap
    BY <1>6, <1>10 DEF MergeConfig
  <2>2. hasLabels <=> DOMAIN own # {}
    BY <1>2, <1>3, <1>5, <1>10, MapsApart, EmptyMap
  <2>3. CASE hasLabels
    <3>1. default = <<>> /\ global[1].labels = Nil
      BY <2>2, <2>3, <1>4, <1>5, <1>7, <1>10
    <3>2. target = MergedMap(k) /\ s[1].labels = EntryMap(k)
      BY <2>3, <3>1, <1>3, <1>10 DEF Target
    <3>3. MergedMap(k) \in DOMAIN heap
      BY DEF MergeInv, TypeOK, Maps
    <3>4. Merged.heap = [heap EXCEPT ![MergedMap(k)] = Overlay(own, <<>>)]
      BY <2>1, <2>3, <3>2, <1>2
    <3>5. /\ Merged.heap[MergedMap(k)] = Overlay(own, <<>>)
          /\ \A m \in Maps(doc) \ {MergedMap(k)} : Merged.heap[m] = heap[m]
      BY <3>3, <3>4 DEF MergeInv, TypeOK
    <3> QED
      BY <2>1, <3>1, <3>2, <3>5, <1>1, MapsApart DEF LabelsAt
  <2>4. CASE ~hasLabels
    <3>1. Asked(k) = default
      BY <2>2, <2>4, <1>1, OverlayFacts
    <3>2. Merged.heap = heap /\ Merged.config[1].labels = global[1].labels
      BY <2>1, <2>4
    <3>3. LabelsAt(global[1], heap) = default
      BY <1>10, <1>2, <1>4, <1>5, MapsApart DEF LabelsAt
    <3> QED
      BY <3>1, <3>2, <3>3, <1>4, <1>10 DEF LabelsAt
  <2> QED
    BY <2>3, <2>4
<1> QED
  BY <1>8, <1>9, <1>10

\* A configuration keeps its labels when no map changes but the one of a later merge.
LEMMA LabelsKept ==
  ASSUME MergeInv, UNCHANGED doc, NEW c, NEW e \in DOMAIN doc.entries, NEW x,
         RightLabels(c, e), e # x,
         \A m \in Maps(doc) \ {MergedMap(x)} : heap'[m] = heap[m]
  PROVE  RightLabels(c, e)'
<1>1. Asked(e)' = Asked(e)
  BY DEF Asked
<1>2. {DefaultMap, EntryMap(e), MergedMap(e)} \subseteq Maps(doc) \ {MergedMap(x)}
  BY MapsApart DEF Maps
<1> QED
  BY <1>1, <1>2 DEF RightLabels, LabelsAt

\* A step that leaves the maps alone keeps the labels.
LEMMA LabelsSame ==
  ASSUME UNCHANGED <<doc, heap>>
  PROVE  \A c, e : RightLabels(c, e)' <=> RightLabels(c, e)
BY DEF RightLabels, LabelsAt, Asked

\* The parsed maps of a new Reconcile are those of its document.
LEMMA FreshMaps ==
  ASSUME NEW d \in Documents
  PROVE  LET h == InitialHeap(d)
         IN  /\ h[DefaultMap] = LabelsIn(d.default)
             /\ \A e \in DOMAIN d.entries : /\ h[EntryMap(e)] = LabelsIn(d.entries[e].config)
                                            /\ h[MergedMap(e)] = <<>>
<1> DEFINE h == InitialHeap(d)
<1>1. \A m \in Maps(d) : h[m] = CASE m = DefaultMap -> LabelsIn(d.default)
                                  [] m[1] = "entry"  -> LabelsIn(d.entries[m[2]].config)
                                  [] m[1] = "merged" -> <<>>
  BY DEF InitialHeap
<1>2. DefaultMap[1] = "default"
  BY DEF DefaultMap
<1>3. h[DefaultMap] = LabelsIn(d.default)
  BY <1>1, <1>2 DEF Maps
<1>4. ASSUME NEW e \in DOMAIN d.entries
      PROVE  h[EntryMap(e)] = LabelsIn(d.entries[e].config) /\ h[MergedMap(e)] = <<>>
  <2>1. EntryMap(e) \in Maps(d) /\ MergedMap(e) \in Maps(d)
    BY DEF Maps
  <2>2. /\ EntryMap(e)[1] = "entry" /\ EntryMap(e)[2] = e /\ MergedMap(e)[1] = "merged"
        /\ EntryMap(e) # DefaultMap /\ MergedMap(e) # DefaultMap
    BY MapsApart DEF EntryMap, MergedMap
  <2>3. h[EntryMap(e)] = LabelsIn(d.entries[EntryMap(e)[2]].config)
    BY <1>1, <2>1, <2>2
  <2>4. h[MergedMap(e)] = <<>>
    BY <1>1, <2>1, <2>2
  <2> QED
    BY <2>2, <2>3, <2>4
<1> QED
  BY <1>3, <1>4

\* Every step keeps the labels.
LEMMA LabelNext == LabelInv /\ [Next]_vars => LabelInv'
<1> SUFFICES ASSUME LabelInv, [Next]_vars PROVE LabelInv'
  OBVIOUS
<1>m. MergeInv /\ MergeInv' /\ doc \in Documents
  BY MergeNext DEF LabelInv, MergeInv
<1>t. /\ DOMAIN doc.entries = 1..Len(doc.entries) /\ Len(doc.entries) \in Nat /\ k \in Nat
      /\ \A d \in desired : d.entry \in DOMAIN doc.entries /\ d.entry \in Nat
      /\ DOMAIN heap = Maps(doc)
      /\ pc = "range" => k \in DOMAIN doc.entries
  BY <1>m, DocumentsAssumption DEF MergeInv, TypeOK
<1>1. CASE ParseConfigMap
  <2>1. /\ pc = "parse" /\ desired = {} /\ UNCHANGED <<doc, heap, k, desired>>
        /\ \/ pc' = "entry" /\ global' = ParseConfig(doc.default, DefaultMap)
           \/ pc' = "skipped"
    BY <1>1 DEF ParseConfigMap, LabelInv
  <2>2. MapsIntact => MapsIntact'
    BY <2>1 DEF MapsIntact
  <2> QED
    BY <1>m, <2>1, <2>2 DEF LabelInv
<1>2. CASE BeginEntry
  <2>1. pc = "entry" /\ k \in DOMAIN doc.entries /\ UNCHANGED <<doc, global, k, desired>>
    BY <1>2 DEF BeginEntry
  <2>2. CASE pc' = "failed"
    BY <1>m, <2>2 DEF LabelInv
  <2>3. CASE /\ Given(Merged.config) /\ pc' = "range"
             /\ heap' = Merged.heap /\ config' = Merged.config
    <3> SUFFICES ASSUME ~Mixed(doc.default, doc.entries)
                 PROVE  /\ MapsIntact' /\ RightLabels(config[1], k)'
                        /\ \A d \in desired : RightLabels(d.config, d.entry)' /\ d.entry < k
      BY <1>m, <2>1, <2>3 DEF LabelInv
    <3>1. /\ MapsIntact /\ global = ParseConfig(doc.default, DefaultMap)
          /\ \A d \in desired : RightLabels(d.config, d.entry) /\ d.entry < k
      BY <2>1 DEF LabelInv
    <3>2. /\ \A m \in Maps(doc) \ {MergedMap(k)} : heap'[m] = heap[m]
          /\ LabelsAt(config'[1], heap') = Asked(k)
          /\ config'[1].labels \in {Nil, DefaultMap, EntryMap(k), MergedMap(k)}
      BY <1>m, <2>1, <2>3, <3>1, MergedLabels
    <3>3. RightLabels(config[1], k)'
      BY <3>2, <2>1 DEF RightLabels, Asked
    <3>4. \A d \in desired : RightLabels(d.config, d.entry)' /\ d.entry < k
      <4> SUFFICES ASSUME NEW d \in desired PROVE RightLabels(d.config, d.entry)'
        BY <3>1
      <4>1. d.entry \in DOMAIN doc.entries /\ d.entry # k
        BY <3>1, <1>t
      <4> QED
        BY <4>1, <3>1, <3>2, <2>1, <1>m, LabelsKept
    <3>5. MapsIntact'
      <4>1. DefaultMap \in Maps(doc) \ {MergedMap(k)}
        BY MapsApart DEF Maps
      <4>2. \A e \in DOMAIN doc.entries : /\ EntryMap(e) \in Maps(doc) \ {MergedMap(k)}
                                          /\ e > k => MergedMap(e) \in Maps(doc) \ {MergedMap(k)}
        BY <1>t, MapsApart DEF Maps
      <4> QED
        BY <4>1, <4>2, <3>1, <3>2, <2>1, <2>3, <1>t DEF MapsIntact
    <3> QED
      BY <3>3, <3>4, <3>5
  <2> QED
    BY <1>2, <2>2, <2>3 DEF BeginEntry
<1>3. CASE AddNodePool
  <2>1. pc = "range" /\ UNCHANGED <<doc, pc, heap, global, k, config>>
    BY <1>3 DEF AddNodePool
  <2>2. PICK new : desired' = desired \union {new} /\ new.entry = k /\ new.config = config[1]
    <3> DEFINE r == [entry  |-> k,
                     index  |-> i,
                     name   |-> NodePoolName(config[1].scalar["nodepoolPrefix"], Entry.block, i),
                     sub    |-> <<Entry.reservation, Entry.block, i>>,
                     config |-> config[1]]
    <3>1. desired' = desired \union {r}
      BY <1>3 DEF AddNodePool
    <3>2. r.entry = k /\ r.config = config[1]
      OBVIOUS
    <3> HIDE DEF r
    <3> QED
      BY <3>1, <3>2
  <2> SUFFICES ASSUME ~Mixed(doc.default, doc.entries)
               PROVE  /\ MapsIntact' /\ RightLabels(config[1], k)'
                      /\ \A d \in desired' : RightLabels(d.config, d.entry)' /\ d.entry <= k
    BY <1>m, <1>t, <2>1, <2>2 DEF LabelInv
  <2>3. /\ MapsIntact /\ RightLabels(config[1], k)
        /\ \A d \in desired : RightLabels(d.config, d.entry) /\ d.entry <= k
    BY <2>1, <1>t DEF LabelInv
  <2>4. MapsIntact'
    BY <2>1, <2>3 DEF MapsIntact
  <2>5. \A c, e : RightLabels(c, e)' <=> RightLabels(c, e)
    BY <2>1, LabelsSame
  <2>6. RightLabels(config[1], k)'
    BY <2>1, <2>3 DEF RightLabels, LabelsAt, Asked
  <2> QED
    BY <2>2, <2>3, <2>4, <2>5, <2>6, <1>t
<1>4. CASE EndEntry
  <2>1. pc = "range" /\ pc' = "entry" /\ k' = k + 1 /\ UNCHANGED <<doc, heap, global, desired>>
    BY <1>4 DEF EndEntry
  <2> SUFFICES ASSUME ~Mixed(doc.default, doc.entries)
               PROVE  /\ MapsIntact'
                      /\ \A d \in desired : RightLabels(d.config, d.entry)' /\ d.entry < k'
    BY <1>m, <2>1 DEF LabelInv
  <2>2. MapsIntact /\ \A d \in desired : RightLabels(d.config, d.entry) /\ d.entry <= k
    BY <2>1, <1>t DEF LabelInv
  <2>3. MapsIntact'
    BY <2>1, <2>2, <1>t DEF MapsIntact
  <2> QED
    BY <2>1, <2>2, <2>3, <1>t, LabelsSame
<1>5. CASE Render
  <2>1. CASE pc' = "failed"
    BY <1>m, <2>1 DEF LabelInv
  <2>2. CASE /\ pc' = "done"
             /\ rendered' =
                  {[entry |-> d.entry,
                    asked |-> <<doc.default, doc.entries[d.entry]>>,
                    pool  |-> StaticNodePoolForSubBlock(d.name, d.sub, d.config.scalar,
                                                        Labels(d.config))] : d \in desired}
    <3>1. pc = "entry" /\ UNCHANGED doc
      BY <1>5 DEF Render
    <3>2. ASSUME ~Mixed(doc.default, doc.entries) PROVE RenderedRight'
      <4> SUFFICES ASSUME NEW r \in rendered'
                   PROVE  r.pool.labels = Overlay(LabelsIn(r.asked[2].config),
                                                  Overlay(LabelsIn(r.asked[1]), OwnLabels(r.pool.name)))
        BY DEF RenderedRight
      <4>1. PICK d \in desired :
              /\ r.asked = <<doc.default, doc.entries[d.entry]>>
              /\ r.pool = StaticNodePoolForSubBlock(d.name, d.sub, d.config.scalar, Labels(d.config))
        BY <2>2
      <4>2. r.pool.labels = Overlay(Labels(d.config), OwnLabels(d.name)) /\ r.pool.name = d.name
        BY <4>1 DEF StaticNodePoolForSubBlock
      <4>3. Labels(d.config) = Asked(d.entry)
        BY <3>1, <3>2 DEF LabelInv, RightLabels, LabelsAt, Labels
      <4>4. /\ r.asked[1] = doc.default /\ r.asked[2] = doc.entries[d.entry]
            /\ IsMap(LabelsIn(doc.default)) /\ IsMap(LabelsIn(doc.entries[d.entry].config))
        BY <4>1, <1>t, <1>m, DocumentMaps
      <4> QED
        BY <4>2, <4>3, <4>4, OverlayFacts DEF Asked
    <3> QED
      BY <1>m, <2>2, <3>1, <3>2 DEF LabelInv
  <2> QED
    BY <1>5, <2>1, <2>2 DEF Render
<1>6. CASE Edit
  <2>1. doc' \in Documents /\ pc' = "parse" /\ heap' = InitialHeap(doc') /\ k' = 1 /\ desired' = {}
    BY <1>6 DEF Edit, FreshHeap
  <2>2. MapsIntact'
    BY <2>1, FreshMaps DEF MapsIntact
  <2> QED
    BY <1>m, <2>1, <2>2 DEF LabelInv
<1>7. CASE UNCHANGED vars
  <2>1. UNCHANGED <<doc, pc, heap, global, k, config, desired, rendered>>
    BY <1>7 DEF vars
  <2>2. (MapsIntact' <=> MapsIntact) /\ (RenderedRight' <=> RenderedRight)
    BY <2>1 DEF MapsIntact, RenderedRight
  <2>3. RightLabels(config[1], k) => RightLabels(config[1], k)'
    BY <2>1 DEF RightLabels, LabelsAt, Asked
  <2> QED
    BY <1>m, <2>1, <2>2, <2>3, LabelsSame DEF LabelInv
<1> QED
  BY <1>1, <1>2, <1>3, <1>4, <1>5, <1>6, <1>7 DEF Next, Reconcile

\* For every ConfigMap in which no entry overrides labels of the default, a node pool
\* has the labels of its entry, the default and the provisioner, and no others,
\* although the configurations share maps.
THEOREM LabelsRight == Spec => []LabelsAsSpecified
<1>1. Init => LabelInv
  <2> SUFFICES ASSUME Init PROVE LabelInv
    OBVIOUS
  <2>1. MapsIntact
    BY FreshMaps DEF Init, MapsIntact
  <2> QED
    BY <2>1, MergeInit DEF Init, LabelInv
<1>2. LabelInv => LabelsAsSpecified
  BY DEF LabelInv, LabelsAsSpecified, RenderedRight
<1> QED
  BY <1>1, <1>2, LabelNext, PTL DEF Spec
=============================================================================
