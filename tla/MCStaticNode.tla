---------------------------- MODULE MCStaticNode ----------------------------
(* Two NUMA nodes of two CPUs, CPU 0 reserved, three VMs.  The memory of the *)
(* nodes is uneven, so that some VMs fit on one of them only.                *)
EXTENDS StaticNode, TLC

CONSTANTS v1, v2, v3

MCVM == {v1, v2, v3}
MCAllCPUs == 0..3
MCReservedCPUs == {0}
MCNUMANodes == {0, 1}
MCCPUsInNUMANode == [i \in MCNUMANodes |-> {2 * i, 2 * i + 1}]
MCNUMAMemory == [i \in MCNUMANodes |-> 2 + i]
MCVMSizes == {[cpus |-> 1, memory |-> 2], [cpus |-> 2, memory |-> 1]}

\* A VM of all three allocatable CPUs: takeByTopology has one set to choose.
MCSpanningSizes == {[cpus |-> 3, memory |-> 1]}

Symmetry == Permutations(MCVM)

=============================================================================
