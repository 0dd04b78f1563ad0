---------------------------- MODULE SimplePolicy ----------------------------
(***************************************************************************)
(* The `simple` allocation policy of one Proxmox node                      *)
(* (cpumanager/policy_simple.go).                                          *)
(*                                                                         *)
(* A policy is a record, so that a module that composes several nodes can  *)
(* keep one per node.  Every method holds p.mu for its whole body, so it   *)
(* is atomic here: a guard for its error returns, and the policy it        *)
(* leaves.  Memory is counted in MiB.                                      *)
(***************************************************************************)
EXTENDS Integers, FiniteSets

CONSTANTS AllCPUs,         \* CPUs of the topology the manager discovered
          ReservedCPUs,    \* CPUs the node settings keep for the host
          TotalMemory,
          ReservedMemory

\* What NewSimplePolicy checks before it returns a policy.  The reserved CPUs
\* are compared by number only: they need not belong to the topology.
ASSUME PolicyAssumption ==
    /\ IsFiniteSet(AllCPUs)
    /\ IsFiniteSet(ReservedCPUs)
    /\ Cardinality(ReservedCPUs) <= Cardinality(AllCPUs)
    /\ TotalMemory \in Nat
    /\ ReservedMemory \in Nat
    /\ ReservedMemory < TotalMemory

AllocatableMemory == TotalMemory - ReservedMemory

Policy(available, used, cpus, memory) ==
    [ availableCPUs  |-> available,    \* free for any VM
      usedCPUs       |-> used,         \* taken by VMs with an affinity
      assignedCPUs   |-> cpus,         \* number taken by VMs without one
      assignedMemory |-> memory ]

\* Mutant: the reserved CPUs are offered to VMs.
NewPolicyWithReserved == Policy(AllCPUs, {}, 0, 0)

NewSimplePolicy == Policy(AllCPUs \ ReservedCPUs, {}, 0, 0)

-----------------------------------------------------------------------------
(* What the policy reports to the scheduler *)

\* Mutant: the CPUs of pinned VMs are forgotten.
FreeCPUsIgnoringPins(p) ==
    Cardinality(AllCPUs) - Cardinality(ReservedCPUs) - p.assignedCPUs

\* The free CPUs before they are cut off at zero.
FreeCPUs(p) ==
    Cardinality(AllCPUs) - Cardinality(ReservedCPUs)
        - Cardinality(p.usedCPUs) - p.assignedCPUs

AvailableCPUs(p) == IF FreeCPUs(p) > 0 THEN FreeCPUs(p) ELSE 0

AvailableMemory(p) ==
    IF p.assignedMemory >= AllocatableMemory
    THEN 0
    ELSE AllocatableMemory - p.assignedMemory

-----------------------------------------------------------------------------
(* Checks and updates that the methods share *)

\* Mutant: only the request itself is compared with the node.
MemoryFitsAlone(p, op) == op.memory <= AllocatableMemory

MemoryFits(p, op) == p.assignedMemory + op.memory <= AllocatableMemory

CPUsFit(p, op) == p.assignedCPUs + op.cpus <= Cardinality(p.availableCPUs)

\* Mutant: pinned CPUs stay in the common pool.
PinSharing(p, cpuset, memory) ==
    Policy(p.availableCPUs, p.usedCPUs \cup (cpuset \ ReservedCPUs),
           p.assignedCPUs, memory)

\* The CPUs of an affinity leave the common pool, whoever else uses them.
Pin(p, cpuset, memory) ==
    Policy(p.availableCPUs \ (cpuset \ ReservedCPUs),
           p.usedCPUs \cup (cpuset \ ReservedCPUs),
           p.assignedCPUs,
           memory)

\* Mutant: the CPUs of a released VM stay pinned.
UnpinNever(p, cpuset, memory) ==
    Policy(p.availableCPUs, p.usedCPUs, p.assignedCPUs, memory)

\* The CPUs of an affinity return to the common pool, whoever else uses them.
Unpin(p, cpuset, memory) ==
    Policy(p.availableCPUs \cup (cpuset \ ReservedCPUs),
           p.usedCPUs \ (cpuset \ ReservedCPUs),
           p.assignedCPUs,
           memory)

\* Book cpus (a negative number gives them back) of the common pool.
Assign(p, cpus, memory) ==
    Policy(p.availableCPUs, p.usedCPUs, p.assignedCPUs + cpus, memory)

-----------------------------------------------------------------------------
(* Allocate: a new VM, its CPUs are a number and not a set *)

CanAllocate(p, op) == MemoryFits(p, op) /\ CPUsFit(p, op)

Allocated(p, op) == Assign(p, op.cpus, p.assignedMemory + op.memory)

(* AllocateOrUpdate: a VM that Proxmox reports, perhaps with an affinity *)

CanAllocateOrUpdate(p, op) ==
    /\ MemoryFits(p, op)
    /\ IF op.cpuset # {}
       THEN Cardinality(op.cpuset) <= Cardinality(AllCPUs)
       ELSE CPUsFit(p, op)

AllocatedOrUpdated(p, op) ==
    IF op.cpuset # {}
    THEN Pin(p, op.cpuset, p.assignedMemory + op.memory)
    ELSE Assign(p, op.cpus, p.assignedMemory + op.memory)

(* Release: a VM that is gone *)

CanRelease(p, op) ==
    /\ op.memory <= p.assignedMemory
    /\ op.cpuset = {} => op.cpus <= p.assignedCPUs

\* Mutant: the memory of a VM with an affinity stays booked.
ReleasedKeepingMemory(p, op) ==
    IF op.cpuset # {}
    THEN Unpin(p, op.cpuset, p.assignedMemory)
    ELSE Assign(p, -op.cpus, p.assignedMemory - op.memory)

Released(p, op) ==
    IF op.cpuset # {}
    THEN Unpin(p, op.cpuset, p.assignedMemory - op.memory)
    ELSE Assign(p, -op.cpus, p.assignedMemory - op.memory)

=============================================================================
