----------------------------- MODULE SimpleNode -----------------------------
(***************************************************************************)
(* One Proxmox node under the `simple` policy, driven through the          *)
(* ResourceManager (resourcemanager.go): new VMs are allocated, VMs that   *)
(* Proxmox reports are adopted, VMs that are gone are released.            *)
(*                                                                         *)
(* `vms` is the client's ledger: the resources each VM was booked with.    *)
(* The code keeps no such table.  Every caller passes the resources again  *)
(* when it releases a VM, so the policy is right only if its four fields   *)
(* stay in step with the ledger.                                           *)
(***************************************************************************)
EXTENDS SimplePolicy

CONSTANTS VM,            \* VM identifiers
          HostCPUs,      \* CPUs an affinity may name; the topology may hold fewer
          VMSizes,       \* CPU counts and memory that VMs are created with
          NoVM           \* ledger entry of a VM that is not booked

ASSUME NodeAssumption ==
    /\ IsFiniteSet(HostCPUs)
    /\ AllCPUs \subseteq HostCPUs
    /\ VMSizes \subseteq [cpus : Nat \ {0}, memory : Nat \ {0}]

VARIABLES policy, vms

vars == <<policy, vms>>

\* Requests that pass the ResourceManager's checks: CPUs and memory above zero.
Op == [cpus : Nat \ {0}, cpuset : SUBSET HostCPUs, memory : Nat \ {0}]

ASSUME NoVMAssumption == NoVM \notin Op

Resources(size, cpuset) ==
    [cpus |-> size.cpus, cpuset |-> cpuset, memory |-> size.memory]

Booked == {v \in VM : vms[v] # NoVM}

Pinned == {v \in Booked : vms[v].cpuset # {}}

PinnedCPUs == UNION {vms[v].cpuset \ ReservedCPUs : v \in Pinned}

-----------------------------------------------------------------------------
Init ==
    /\ policy = NewSimplePolicy
    /\ vms = [v \in VM |-> NoVM]

\* ResourceManager.Allocate: an error return leaves everything as it was.
Allocate(v, size) ==
    LET op == Resources(size, {})
    IN  /\ vms[v] = NoVM
        /\ CanAllocate(policy, op)
        /\ policy' = Allocated(policy, op)
        /\ vms' = [vms EXCEPT ![v] = op]

\* ResourceManager.AllocateOrUpdate, called once per VM found on the node.
AllocateOrUpdate(v, size, cpuset) ==
    LET op == Resources(size, cpuset)
    IN  /\ vms[v] = NoVM
        /\ CanAllocateOrUpdate(policy, op)
        /\ policy' = AllocatedOrUpdated(policy, op)
        /\ vms' = [vms EXCEPT ![v] = op]

\* ResourceManager.Release: the callers only log an error, the VM is gone anyway.
Release(v) ==
    /\ v \in Booked
    /\ policy' = IF CanRelease(policy, vms[v])
                 THEN Released(policy, vms[v])
                 ELSE policy
    /\ vms' = [vms EXCEPT ![v] = NoVM]

Next ==
    \/ \E v \in VM, size \in VMSizes : Allocate(v, size)
    \/ \E v \in VM, size \in VMSizes, cpuset \in SUBSET HostCPUs :
            AllocateOrUpdate(v, size, cpuset)
    \/ \E v \in VM : Release(v)

Spec == Init /\ [][Next]_vars

-----------------------------------------------------------------------------
(* Properties *)

\* Type invariant.  The CPUs of the two sets exist on the host and are never
\* reserved ones (policy_simple.go:74, 154, 185).
TypeOK ==
    /\ policy \in [ availableCPUs  : SUBSET (HostCPUs \ ReservedCPUs),
                    usedCPUs       : SUBSET (HostCPUs \ ReservedCPUs),
                    assignedCPUs   : Nat,
                    assignedMemory : Nat ]
    /\ vms \in [VM -> Op \cup {NoVM}]

\* What the ledger says of a VM: memory, and CPUs if they are counted.
Entry(v) ==
    IF v \in Booked
    THEN [memory |-> vms[v].memory,
          cpus |-> IF v \in Pinned THEN 0 ELSE vms[v].cpus]
    ELSE [memory |-> 0, cpus |-> 0]

Ledger == INSTANCE CapacityLedger WITH
    Capacity <- AllocatableMemory,
    held     <- [v \in VM |-> Entry(v)],
    free     <- AvailableMemory(policy),
    counted  <- policy.assignedCPUs

\* The policy, which keeps two counters, implements a table of bookings: what
\* it reports as free is what the booked VMs leave, whatever the order of
\* bookings and releases, nothing is booked that is not free, and no release is
\* refused, although Release trusts the resources its caller hands in.
ImplementsLedger == Ledger!Spec

\* No sequence of calls books more memory than the node has ("Memory
\* overcommitment is not supported", docs/noderesource.md:16).
MemoryNeverOvercommitted == policy.assignedMemory <= AllocatableMemory

\* A CPU is in the common pool or taken by an affinity, never both, and no CPU
\* of the topology is lost from both sets.
PoolsComplement ==
    /\ policy.availableCPUs \cap policy.usedCPUs = {}
    /\ AllCPUs \ ReservedCPUs \subseteq policy.availableCPUs \cup policy.usedCPUs

\* A CPU counts as used only while some booked VM has it in its affinity: it is
\* not lost for good when VMs with overlapping affinities come and go, nor when
\* a release could be refused.
NoPhantomPins == policy.usedCPUs \subseteq PinnedCPUs

\* What FitInZone reads (AvailableCPUs, AvailableMemory) and what Allocate then
\* tests are two different formulas over the same fields.  A request that is
\* reported to fit is never refused by Allocate on the same state, also when
\* affinities overlap, name reserved CPUs or CPUs outside the topology.
FitImpliesAllocate ==
    \A size \in VMSizes :
        ( /\ size.cpus <= AvailableCPUs(policy)
          /\ size.memory <= AvailableMemory(policy) )
        => CanAllocate(policy, Resources(size, {}))

\* A VM is given CPUs only while the counted and the pinned CPUs leave room for
\* it in the topology's CPUs plus those that affinities brought in
\* (docs/noderesource.md:14).
AllocateWithinNode ==
    [][ policy'.assignedCPUs > policy.assignedCPUs
        => policy'.assignedCPUs <= Cardinality(HostCPUs \ ReservedCPUs)
                                      - Cardinality(policy'.usedCPUs) ]_vars

=============================================================================
