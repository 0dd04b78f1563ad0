------------------------ MODULE MCInstanceLifecycle ------------------------
(* Two claims on a node with three CPUs and three units of memory for VMs.    *)
EXTENDS InstanceLifecycle, TLC

CONSTANTS c1, c2

\* Both VMs fit the node at once, and fill it.
MCFittingSizes == (c1 :> [cpus |-> 2, memory |-> 2]) @@ (c2 :> [cpus |-> 1, memory |-> 1])

\* Each VM fits the node, both together do not.
MCCompetingSizes == (c1 :> [cpus |-> 2, memory |-> 2]) @@ (c2 :> [cpus |-> 1, memory |-> 2])

=============================================================================
