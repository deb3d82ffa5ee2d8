--------------------------- MODULE CapacityAllocator ---------------------------
(***************************************************************************)
(* What the provisioner promises about reservation capacity, without       *)
(* ConfigMaps, Reconciles or goroutines: every node pool name holds at     *)
(* most one subblock, takes it only when no other name has it, keeps that  *)
(* one until it gives it up, and never takes a release back.               *)
(***************************************************************************)
CONSTANTS
  Names,      \* node pool names
  Subblocks,  \* reservation subblocks
  Claims      \* the pairs <<name, subblock>> that some configuration asks for

VARIABLE holder  \* what each name holds

Free == [phase |-> "free"]

Holding == [phase: {"held", "releasing"}, sub: Subblocks]

Holds(n, s) == holder[n] # Free /\ holder[n].sub = s

\* No subblock has two holders.
Exclusive ==
  \A m, n \in Names : m # n => \A s \in Subblocks : ~(Holds(m, s) /\ Holds(n, s))

Init == holder \in [Names -> Holding \union {Free}] /\ Exclusive

Acquire(n, s) ==
  /\ holder[n] = Free /\ <<n, s>> \in Claims
  /\ \A m \in Names : ~Holds(m, s)
  /\ holder' = [holder EXCEPT ![n] = [phase |-> "held", sub |-> s]]

BeginRelease(n) ==
  /\ holder[n] # Free /\ holder[n].phase = "held"
  /\ holder' = [holder EXCEPT ![n] = [phase |-> "releasing", sub |-> holder[n].sub]]

EndRelease(n) ==
  /\ holder[n] # Free /\ holder[n].phase = "releasing"
  /\ holder' = [holder EXCEPT ![n] = Free]

Next ==
  \E n \in Names :
    \/ \E s \in Subblocks : Acquire(n, s)
    \/ BeginRelease(n)
    \/ EndRelease(n)

Spec == Init /\ [][Next]_holder
=============================================================================
