---------------------------- MODULE StaticPolicy ----------------------------
(***************************************************************************)
(* The `static` allocation policy of one Proxmox node                      *)
(* (cpumanager/policy_static.go): CPU and memory accounting as in the      *)
(* `simple` policy, and in addition every VM it places is pinned to CPUs   *)
(* and charged to the NUMA nodes of those CPUs.                            *)
(*                                                                         *)
(* A static policy is the record of the simple one (`core`) and the free   *)
(* memory of each NUMA node.  Which CPUs takeByTopology picks is left      *)
(* open: any set of the requested size out of the CPUs it is offered, and  *)
(* with ShortGrants a smaller one (see TakesWhatWasAsked of CPUAssignment).*)
(***************************************************************************)
EXTENDS SimplePolicy, FiniteSetsExt

CONSTANTS NUMANodes,       \* NUMA node identifiers of the topology
          CPUsInNUMANode,  \* the CPUs of each
          NUMAMemory,      \* the memory of each
          ShortGrants      \* whether a cache of the topology crosses NUMA nodes

\* A CPU has one NUMA node (CPUDetails keeps one NUMANodeID per CPU).
ASSUME TopologyAssumption ==
    /\ IsFiniteSet(NUMANodes)
    /\ CPUsInNUMANode \in [NUMANodes -> SUBSET AllCPUs]
    /\ \A i, j \in NUMANodes : i # j => CPUsInNUMANode[i] \cap CPUsInNUMANode[j] = {}
    /\ NUMAMemory \in [NUMANodes -> Nat]
    /\ ShortGrants \in BOOLEAN

NewStaticPolicy == [core |-> NewSimplePolicy, numaNodes |-> NUMAMemory]

\* op.numa[i] is the memory that the VM is bound to on NUMA node i, zero when
\* it is not bound to it.
Charged(numaNodes, op) ==
    [i \in NUMANodes |-> numaNodes[i] - op.numa[i]]

\* Mutant: nothing is given back.
UnchargedNever(numaNodes, op) == numaNodes

Uncharged(numaNodes, op) ==
    [i \in NUMANodes |-> numaNodes[i] + op.numa[i]]

-----------------------------------------------------------------------------
(* Allocate.  The only caller (instanceCreate) names no NUMA nodes in the    *)
(* request, so the CPUs on offer are those of every node with room for the   *)
(* whole VM.                                                                 *)

\* Mutant: a node with any free memory will do.
CandidateCPUsAnyMemory(p, op) ==
    UNION {CPUsInNUMANode[i] : i \in {j \in NUMANodes : p.numaNodes[j] > 0}}

CandidateCPUs(p, op) ==
    UNION {CPUsInNUMANode[i] : i \in {j \in NUMANodes : p.numaNodes[j] >= op.memory}}

\* Mutant: CPUs of other VMs are offered as well.
OfferedCPUsWithUsed(p, op) == (AllCPUs \ ReservedCPUs) \cap CandidateCPUs(p, op)

OfferedCPUs(p, op) == p.core.availableCPUs \cap CandidateCPUs(p, op)

\* The CPU sets takeByTopology may return; it fails when fewer CPUs are offered
\* than asked for.
Grants(p, op) ==
    { cpus \in SUBSET OfferedCPUs(p, op) :
        /\ Cardinality(OfferedCPUs(p, op)) >= op.cpus
        /\ Cardinality(cpus) = op.cpus \/ (ShortGrants /\ Cardinality(cpus) \in 1..op.cpus) }

\* The request as Allocate hands it back to the caller: pinned to cpus, and
\* bound to each NUMA node it touches with the memory of the whole VM.
Granted(op, cpus) ==
    [ cpus   |-> op.cpus,
      cpuset |-> cpus,
      memory |-> op.memory,
      numa   |-> [i \in NUMANodes |->
                    IF CPUsInNUMANode[i] \cap cpus # {} THEN op.memory ELSE 0] ]

StaticCanAllocate(p, op) == CanAllocate(p.core, op)

\* Mutant: the CPUs of a placed VM are counted as well as pinned.
StaticAllocatedCounted(p, op) ==
    [ core      |-> Policy(p.core.availableCPUs \ op.cpuset,
                           p.core.usedCPUs \cup op.cpuset,
                           p.core.assignedCPUs + op.cpus,
                           p.core.assignedMemory + op.memory),
      numaNodes |-> Charged(p.numaNodes, op) ]

StaticAllocated(p, op) ==
    [ core      |-> Policy(p.core.availableCPUs \ op.cpuset,
                           p.core.usedCPUs \cup op.cpuset,
                           p.core.assignedCPUs,
                           p.core.assignedMemory + op.memory),
      numaNodes |-> Charged(p.numaNodes, op) ]

-----------------------------------------------------------------------------
(* AllocateOrUpdate *)

NUMATotal(op) == MapThenSumSet(LAMBDA i : op.numa[i], NUMANodes)

\* The VM's NUMA nodes have the memory, and together they hold all of the VM's.
NUMAFits(p, op) ==
    /\ \A i \in NUMANodes : op.numa[i] <= p.numaNodes[i]
    /\ NUMATotal(op) > 0 => NUMATotal(op) = op.memory

StaticCanAllocateOrUpdate(p, op) ==
    NUMAFits(p, op) /\ CanAllocateOrUpdate(p.core, op)

StaticAllocatedOrUpdated(p, op) ==
    [ core      |-> AllocatedOrUpdated(p.core, op),
      numaNodes |-> Charged(p.numaNodes, op) ]

(* Release *)

StaticCanRelease(p, op) == CanRelease(p.core, op)

StaticReleased(p, op) ==
    [ core      |-> Released(p.core, op),
      numaNodes |-> Uncharged(p.numaNodes, op) ]

=============================================================================
