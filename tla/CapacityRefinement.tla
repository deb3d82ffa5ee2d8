-------------------------- MODULE CapacityRefinement --------------------------
(* Provisioner as an implementation of CapacityAllocator. *)
EXTENDS Provisioner

ConfiguredClaims ==
  UNION {{<<c.pools[i].name, c.pools[i].sub>> : i \in DOMAIN c.pools} : c \in ConfigMaps}

\* A node pool holds its subblock from the accepted create request on, in ERROR
\* too, and releases it while GKE deletes it.
Holder ==
  [n \in Names |->
     IF ~Exists(pools[n]) THEN [phase |-> "free"]
     ELSE [phase |-> IF pools[n].status = "STOPPING" THEN "releasing" ELSE "held",
           sub   |-> pools[n].sub]]

Allocator == INSTANCE CapacityAllocator WITH holder <- Holder, Claims <- ConfiguredClaims

\* Provisioner implements the allocator: whatever Reconciles, goroutines, retries
\* and crashes do to the node pools is a sequence of acquisitions of free subblocks
\* that some ConfigMap asks for, and of releases that are never taken back
\* (static_nodepool_controller.go:111-220, gke.go:76-104 and 169-242).
ImplementsAllocator == Allocator!Spec
=============================================================================
