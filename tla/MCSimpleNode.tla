---------------------------- MODULE MCSimpleNode ----------------------------
(* A node with CPUs 0..2 in its topology, CPU 0 reserved, CPU 3 present on  *)
(* the host but not in the topology, and memory for three small VMs.        *)
EXTENDS SimpleNode, TLC

CONSTANTS v1, v2, v3

MCVM == {v1, v2, v3}
MCAllCPUs == {0, 1, 2}
MCHostCPUs == {0, 1, 2, 3}
MCReservedCPUs == {0}
MCVMSizes == {[cpus |-> 1, memory |-> 2], [cpus |-> 2, memory |-> 1]}

Symmetry == Permutations(MCVM)

=============================================================================
