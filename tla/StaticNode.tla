----------------------------- MODULE StaticNode -----------------------------
(***************************************************************************)
(* One Proxmox node under the `static` policy, driven through the          *)
(* ResourceManager as in module SimpleNode.  VMs that the policy placed    *)
(* (`placed`) carry the CPUs and NUMA nodes it chose; VMs that it finds on *)
(* the node carry whatever their owner configured.                         *)
(***************************************************************************)
EXTENDS StaticPolicy

CONSTANTS VM,
          HostCPUs,         \* CPUs an affinity may name
          VMSizes,          \* CPU counts and memory of VMs
          AffinityOverlap,  \* may a found VM be pinned to CPUs that are in use?
          NoVM

ASSUME NodeAssumption ==
    /\ IsFiniteSet(HostCPUs)
    /\ AllCPUs \subseteq HostCPUs
    /\ VMSizes \subseteq [cpus : Nat \ {0}, memory : Nat \ {0}]
    /\ AffinityOverlap \in BOOLEAN

VARIABLES policy, vms, placed

vars == <<policy, vms, placed>>

Op == [ cpus   : Nat \ {0},
        cpuset : SUBSET HostCPUs,
        memory : Nat \ {0},
        numa   : [NUMANodes -> Nat] ]

ASSUME NoVMAssumption == NoVM \notin Op

Resources(size, cpuset, numa) ==
    [cpus |-> size.cpus, cpuset |-> cpuset, memory |-> size.memory, numa |-> numa]

NoNUMA == [i \in NUMANodes |-> 0]

Booked == {v \in VM : vms[v] # NoVM}

\* The CPUs that VM v keeps from others.
PinsOf(v) == vms[v].cpuset \ ReservedCPUs

-----------------------------------------------------------------------------
Init ==
    /\ policy = NewStaticPolicy
    /\ vms = [v \in VM |-> NoVM]
    /\ placed = {}

\* ResourceManager.Allocate for a new VM.
Allocate(v, size, cpus) ==
    LET op == Resources(size, {}, NoNUMA)
    IN  /\ vms[v] = NoVM
        /\ StaticCanAllocate(policy, op)
        /\ cpus \in Grants(policy, op)
        /\ policy' = StaticAllocated(policy, Granted(op, cpus))
        /\ vms' = [vms EXCEPT ![v] = Granted(op, cpus)]
        /\ placed' = placed \cup {v}

\* ResourceManager.AllocateOrUpdate for a VM found on the node.
AllocateOrUpdate(v, size, cpuset, numa) ==
    LET op == Resources(size, cpuset, numa)
    IN  /\ vms[v] = NoVM
        /\ AffinityOverlap \/ cpuset \cap policy.core.usedCPUs = {}
        /\ StaticCanAllocateOrUpdate(policy, op)
        /\ policy' = StaticAllocatedOrUpdated(policy, op)
        /\ vms' = [vms EXCEPT ![v] = op]
        /\ UNCHANGED placed

\* ResourceManager.Release: the callers only log an error, the VM is gone anyway.
Release(v) ==
    /\ v \in Booked
    /\ policy' = IF StaticCanRelease(policy, vms[v])
                 THEN StaticReleased(policy, vms[v])
                 ELSE policy
    /\ vms' = [vms EXCEPT ![v] = NoVM]
    /\ placed' = placed \ {v}

Next ==
    \/ \E v \in VM, size \in VMSizes, cpus \in SUBSET AllCPUs : Allocate(v, size, cpus)
    \/ \E v \in VM, size \in VMSizes, cpuset \in SUBSET HostCPUs :
         \E numa \in [NUMANodes -> 0..size.memory] : AllocateOrUpdate(v, size, cpuset, numa)
    \/ \E v \in VM : Release(v)

Spec == Init /\ [][Next]_vars

-----------------------------------------------------------------------------
(* Properties *)

\* Type invariant.  The memory of a NUMA node is a uint64 in the code, so that
\* a negative value here is a wrap-around to a huge amount of free memory
\* there: that each node is charged only what it has is part of the type.
TypeOK ==
    /\ policy \in [ core : [ availableCPUs  : SUBSET (HostCPUs \ ReservedCPUs),
                             usedCPUs       : SUBSET (HostCPUs \ ReservedCPUs),
                             assignedCPUs   : Nat,
                             assignedMemory : Nat ],
                    numaNodes : [NUMANodes -> Nat] ]
    /\ vms \in [VM -> Op \cup {NoVM}]
    /\ placed \subseteq Booked

\* The free memory of a NUMA node is what the booked VMs leave of it: charges
\* and releases match node by node, although Allocate computes the charge from
\* the CPUs it picked and Release reads it from the VM's configuration.
NUMAExact ==
    \A i \in NUMANodes :
        policy.numaNodes[i] + SumFunction([v \in Booked |-> vms[v].numa[i]])
            = NUMAMemory[i]

\* A VM that the policy placed shares no CPU with any other booked VM, as long
\* as the owners of found VMs stay off CPUs in use.
PlacedExclusive ==
    \A v \in placed : \A w \in Booked \ {v} : PinsOf(v) \cap PinsOf(w) = {}

\* What the ledger says of a VM: memory, and CPUs if they are counted.
Entry(v) ==
    IF v \in Booked
    THEN [memory |-> vms[v].memory,
          cpus |-> IF vms[v].cpuset = {} THEN vms[v].cpus ELSE 0]
    ELSE [memory |-> 0, cpus |-> 0]

Ledger == INSTANCE CapacityLedger WITH
    Capacity <- AllocatableMemory,
    held     <- [v \in VM |-> Entry(v)],
    free     <- AvailableMemory(policy.core),
    counted  <- policy.core.assignedCPUs

\* The static policy keeps the same promise as the simple one: what it reports
\* as free is what the booked VMs leave, also when a VM is booked without CPUs
\* of its own and released, or placed, restarted and found again.
ImplementsLedger == Ledger!Spec

\* A VM that the policy placed is counted again when the capacity is rebuilt:
\* the plugin "calculates the available resources on each Proxmox node by
\* subtracting the resources requested by running VMs" (docs/noderesource.md:9).
PlacedCountedOnResync ==
    \A v \in placed :
        StaticCanAllocateOrUpdate(NewStaticPolicy, vms[v])

=============================================================================
