----------------------------- MODULE TwoManagers -----------------------------
(***************************************************************************)
(* A rolling update of the Deployment.  Leader election is off unless a    *)
(* flag asks for it, and the Deployment has one replica and the default    *)
(* strategy, so the new manager is up before the old one is stopped, and   *)
(* for a while both reconcile the same node pools.                         *)
(*                                                                         *)
(* The old manager is the one of Provisioner; the new one is a second      *)
(* instance of it, with a queue, caches, Reconcile and in-progress marks   *)
(* of its own, over the same ConfigMap, Slices, nodes and node pools.      *)
(***************************************************************************)
EXTENDS CapacityRefinement

VARIABLES
  phase,  \* "old", "both" or "new": which managers run
  seen2, queued2, pc2, desired2, existing2, locked2, plan2, marking2,
  requesting2, waiting2, failed2, expired2, inProgress2

oldVars == <<seen, queued, pc, frame, inProgress>>
newVars == <<seen2, queued2, pc2, desired2, existing2, locked2, plan2, marking2,
             requesting2, waiting2, failed2, expired2, inProgress2>>
allVars == <<phase, vars, newVars>>

New == INSTANCE Provisioner
         WITH seen <- seen2, queued <- queued2, pc <- pc2, desired <- desired2,
              existing <- existing2, locked <- locked2, plan <- plan2,
              marking <- marking2, requesting <- requesting2, waiting <- waiting2,
              failed <- failed2, expired <- expired2, inProgress <- inProgress2

\* A manager that does not run has no caches.
NoCaches == [cm |-> cm, slices |-> {}, nodes |-> {}]

RolloutInit ==
  /\ Init
  /\ phase = "old"
  /\ seen2 = NoCaches /\ queued2 = FALSE /\ pc2 = "idle"
  /\ desired2 = <<>> /\ existing2 = NoPools /\ locked2 = {}
  /\ plan2 = NoPlan /\ marking2 = {} /\ requesting2 = {} /\ waiting2 = {}
  /\ failed2 = FALSE /\ expired2 = FALSE
  /\ inProgress2 = {}

\* The new manager starts with synchronised caches.
StartNew ==
  /\ phase = "old" /\ phase' = "both"
  /\ seen2' = [cm |-> cm, slices |-> slices, nodes |-> nodes]
  /\ queued2' = (cm.class # "absent" \/ slices # {})
  /\ UNCHANGED <<vars, pc2, desired2, existing2, locked2, plan2, marking2, requesting2,
                 waiting2, failed2, expired2, inProgress2>>

\* The old manager is stopped, wherever its Reconcile is; what GKE was asked to
\* do goes on.
StopOld ==
  /\ phase = "both" /\ phase' = "new"
  /\ pc' = "idle" /\ ClearFrame /\ inProgress' = {} /\ queued' = FALSE
  /\ seen' = NoCaches
  /\ UNCHANGED <<world, bounds, newVars>>

\* What a manager does: its informers and its Reconcile.
OldStep ==
  /\ phase \in {"old", "both"}
  /\ Informers \/ Resync \/ Reconcile \/ CreateDeadline
  /\ UNCHANGED <<phase, newVars>>

NewStep ==
  /\ phase \in {"both", "new"}
  /\ New!Informers \/ New!Resync \/ New!Reconcile \/ New!CreateDeadline
  /\ UNCHANGED <<phase, oldVars>>

\* Users and GKE.
WorldStep ==
  /\ User \/ \E n \in Names : Gke(n)
  /\ UNCHANGED <<phase, newVars>>

RolloutNext == StartNew \/ StopOld \/ OldStep \/ NewStep \/ WorldStep

RolloutSpec == RolloutInit /\ [][RolloutNext]_allVars

\* The rollout ends, GKE ends what it accepted, and the manager that stays runs as
\* in Provisioner.  Nothing is asked of the old one: it is stopped.
RolloutFairness ==
  /\ WF_allVars(StartNew) /\ WF_allVars(StopOld)
  /\ WF_allVars(NewStep /\ New!Reconcile)
  /\ WF_allVars(NewStep /\ New!SeeConfig)
  /\ WF_allVars(NewStep /\ New!Resync)
  /\ \A n \in Names : WF_allVars(WorldStep /\ OpEnds(n))

\* A rollout at a time when no workload forms a Slice: the nodes then matter to
\* nobody.
QuietNext == RolloutNext /\ UNCHANGED <<slices, nodes>>

FairRollout == RolloutInit /\ [][QuietNext]_allVars /\ RolloutFairness

-----------------------------------------------------------------------------
\* The new manager's state has its type, and a manager that does not run has no
\* Reconcile (main.go:205-233).
RolloutTypeOK ==
  /\ TypeInv /\ New!TypeInv
  /\ phase \in {"old", "both", "new"}
  /\ phase = "old" => pc2 = "idle" /\ ~queued2
  /\ phase = "new" => pc = "idle" /\ ~queued

\* As long as nobody edits the ConfigMap, a rollout is safe: two pools never hold
\* one subblock, although both managers delete and create
\* (main.go:73-75, static_nodepool_controller.go:111-220).
RolloutCapacity == edits = 0 => CapacityExclusive

\* As long as nobody edits the ConfigMap, the two managers together implement the
\* allocator, as one does: each create takes a subblock that is free at that moment
\* and that the ConfigMap asks for, and what one manager gives up the other does not
\* take back before GKE is done (main.go:73-75, gke.go:76-104 and 169-242).
RolloutAllocates ==
  Allocator!Init /\ [][edits' = 0 => [Allocator!Next]_Holder]_allVars

RolloutAtRest ==
  /\ Applicable(cm) /\ Converged
  /\ phase # "new" => NothingToDo
  /\ phase # "old" => New!NothingToDo

\* When the pools are as configured and every manager that runs knows it, a rollout
\* at any stage leaves them alone: the manager that comes up, the one that is
\* stopped and the two together undo nothing of each other's work
\* (main.go:73-75, gke.go:106-166).
RolloutRestIsKept ==
  [][RolloutAtRest /\ ~RolloutAtRest' => cm' # cm \/ ConfiguredPoolFails]_allVars

\* Once the ConfigMap has come to rest, the pools become, and stay,
\* what the ConfigMap asks for, whatever the two managers undid of each other's
\* work, and wherever the old one was stopped
\* (main.go:73-75, static_nodepool_controller.go:62-223).
RolloutConverges == <>[]Applicable(cm) => <>[]Converged
=============================================================================
