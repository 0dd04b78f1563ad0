-------------------------- MODULE InstanceLifecycle --------------------------
(***************************************************************************)
(* VMs of NodeClaims on one Proxmox node, from reservation to deletion:    *)
(* instanceCreate and instanceDelete (instance_utils.go), the capacity     *)
(* they book (cloudcapacity.go), the periodic rebuild of that capacity     *)
(* from the VMs that Proxmox reports, and Proxmox itself.                  *)
(*                                                                         *)
(* Creates, deletes and the rebuild run concurrently.  The rebuild holds   *)
(* the capacity lock from its list of VMs to the swap, so reservations and *)
(* releases wait for it; Proxmox does not.  A VM is known to Proxmox by an *)
(* ID that is free again once the VM is gone; a NodeClaim keeps the ID in  *)
(* its provider ID and nothing else.                                       *)
(*                                                                         *)
(* `drift` and `alien` are history variables: whether something happened   *)
(* since the last rebuild after which the booked capacity may differ from  *)
(* the truth, and whether a Delete ever hit a foreign VM.                  *)
(***************************************************************************)
EXTENDS SimplePolicy, FiniteSetsExt

CONSTANTS Claim,        \* NodeClaims
          SizeOf,       \* CPUs and memory of the VM of each claim
          VMID,         \* IDs that GetNextID chooses from
          NoVM,         \* no VM with this ID
          NoPolicy,     \* the node is missing from capacityInfo
          NoClaim,
          MaxFaults     \* bound: failed lists of the rebuild, and restarts

ASSUME LifecycleAssumption ==
    /\ IsFiniteSet(Claim) /\ IsFiniteSet(VMID)
    /\ SizeOf \in [Claim -> [cpus : Nat \ {0}, memory : Nat \ {0}]]
    /\ VMID \subseteq Nat \ {0}
    /\ NoClaim \notin Claim
    /\ MaxFaults \in Nat

VMState == [owner : Claim, status : {"stopped", "running"}]

ASSUME NoVMAssumption == NoVM \notin VMState

VARIABLES
    capacity,  \* capacityInfo[node], a simple policy or NoPolicy
    sync,      \* the rebuild that holds the lock
    vm,        \* Proxmox: the VM behind each ID
    phase,     \* where each claim is
    id,        \* newID of the create, then the ID in the provider ID
    read,      \* whose configuration instanceDelete has read
    faults, drift, alien

vars == <<capacity, sync, vm, phase, id, read, faults, drift, alien>>

Phases == {"absent", "picked", "reserved", "cloned", "failing", "cleanup",
           "running", "terminating", "deleted", "gone"}

Op(c) == [cpus |-> SizeOf[c].cpus, cpuset |-> {}, memory |-> SizeOf[c].memory]

Idle == [on |-> FALSE, left |-> {}, policy |-> NewSimplePolicy, drift |-> FALSE]

\* The capacity lock is free.
Unlocked == ~sync.on

Running(i) == vm[i] # NoVM /\ vm[i].status = "running"

Started(m) == [owner |-> m.owner, status |-> "running"]

OwnRunning(c) == \E i \in VMID : i = id[c] /\ Running(i) /\ vm[i].owner = c

\* Mutant: the amounts are subtracted without a check.
ReleasedCapacityUnchecked(op) ==
    IF capacity # NoPolicy THEN Released(capacity, op) ELSE capacity

\* ReleaseCapacityInZone: errors are logged.
ReleasedCapacity(op) ==
    IF capacity # NoPolicy /\ CanRelease(capacity, op)
    THEN Released(capacity, op)
    ELSE capacity

Goto(c, p) == phase' = [phase EXCEPT ![c] = p]

-----------------------------------------------------------------------------
Init ==
    /\ capacity = NewSimplePolicy
    /\ sync = Idle
    /\ vm = [i \in VMID |-> NoVM]
    /\ phase = [c \in Claim |-> "absent"]
    /\ id = [c \in Claim |-> 0]
    /\ read = [c \in Claim |-> NoClaim]
    /\ faults = 0
    /\ drift = FALSE
    /\ alien = FALSE

-----------------------------------------------------------------------------
(* instanceCreate.  A create that fails is tried again by Karpenter.         *)

\* GetNextID returns a free ID and does not reserve it.
GetNextID(c) ==
    /\ phase[c] = "absent"
    /\ \E i \in {j \in VMID : vm[j] = NoVM} :
         /\ \A j \in VMID : vm[j] = NoVM => i <= j
         /\ id' = [id EXCEPT ![c] = i]
    /\ Goto(c, "picked")
    /\ UNCHANGED <<capacity, sync, vm, read, faults, drift, alien>>

\* AllocateCapacityInZone, or the error return before the deferred clean-up.
Reserve(c) ==
    /\ phase[c] = "picked"
    /\ Unlocked
    /\ IF capacity # NoPolicy /\ CanAllocate(capacity, Op(c))
       THEN /\ capacity' = Allocated(capacity, Op(c))
            /\ Goto(c, "reserved")
       ELSE /\ Goto(c, "absent")
            /\ UNCHANGED capacity
    /\ UNCHANGED <<sync, vm, id, read, faults, drift, alien>>

\* CloneVM makes a stopped VM.
CloneVM(c) ==
    /\ phase[c] = "reserved"
    /\ vm[id[c]] = NoVM
    /\ vm' = [vm EXCEPT ![id[c]] = [owner |-> c, status |-> "stopped"]]
    /\ Goto(c, "cloned")
    /\ UNCHANGED <<capacity, sync, id, read, faults, drift, alien>>

\* Mutant: the error is handled although the VM with this ID is not ours.
CloneFailsWithID(c) ==
    /\ phase[c] = "reserved"
    /\ Goto(c, "failing")
    /\ UNCHANGED <<capacity, sync, vm, id, read, faults, drift, alien>>

\* CloneVM fails, because the ID is taken or for any other reason, and sets
\* newID to 0: the deferred clean-up then returns at once and the reservation
\* stays.
CloneFails(c) ==
    /\ phase[c] = "reserved"
    /\ id' = [id EXCEPT ![c] = 0]
    /\ Goto(c, "absent")
    /\ drift' = TRUE
    /\ UNCHANGED <<capacity, sync, vm, read, faults, alien>>

\* StartVMByID; the claim gets its provider ID.
StartVM(c) ==
    /\ phase[c] = "cloned"
    /\ vm[id[c]] # NoVM
    /\ vm' = [vm EXCEPT ![id[c]] = Started(@)]
    /\ Goto(c, "running")
    /\ UNCHANGED <<capacity, sync, id, read, faults, drift, alien>>

\* Network, firewall, cloud-init or the start fails, perhaps after the start
\* took effect.
SetupFails(c) ==
    /\ phase[c] = "cloned"
    /\ \/ UNCHANGED vm
       \/ /\ vm[id[c]] # NoVM
          /\ vm' = [vm EXCEPT ![id[c]] = Started(@)]
    /\ Goto(c, "failing")
    /\ UNCHANGED <<capacity, sync, id, read, faults, drift, alien>>

\* Deferred clean-up: first the reservation ...
CleanupRelease(c) ==
    /\ phase[c] = "failing"
    /\ Unlocked
    /\ capacity' = ReleasedCapacity(Op(c))
    /\ drift' = (drift \/ OwnRunning(c))
    /\ Goto(c, "cleanup")
    /\ UNCHANGED <<sync, vm, id, read, faults, alien>>

\* ... then the VM.  An error of DeleteVMByID is logged and the VM stays.
CleanupDelete(c) ==
    /\ phase[c] = "cleanup"
    /\ \/ vm' = [vm EXCEPT ![id[c]] = NoVM]
       \/ UNCHANGED vm
    /\ Goto(c, "absent")
    /\ id' = [id EXCEPT ![c] = 0]
    /\ UNCHANGED <<capacity, sync, read, faults, drift, alien>>

-----------------------------------------------------------------------------
(* CloudProvider.Delete.  "Karpenter will keep retrying until Delete returns *)
(* a NodeClaimNotFound error" (cloudprovider.go:155).                        *)

Terminate(c) ==
    /\ phase[c] = "running"
    /\ Goto(c, "terminating")
    /\ UNCHANGED <<capacity, sync, vm, id, read, faults, drift, alien>>

\* GetVMByIDInRegion finds no VM: NodeClaimNotFound, and the claim is removed.
DeleteNotFound(c) ==
    /\ phase[c] = "terminating"
    /\ vm[id[c]] = NoVM
    /\ Goto(c, "gone")
    /\ UNCHANGED <<capacity, sync, vm, id, read, faults, drift, alien>>

\* instanceDelete up to DeleteVMByIDInRegion.  The VM with the claim's ID is
\* looked up, its configuration is read, and it is deleted.  (An error return
\* changes nothing.)
DeleteVM(c) ==
    /\ phase[c] = "terminating"
    /\ vm[id[c]] # NoVM
    /\ read' = [read EXCEPT ![c] = vm[id[c]].owner]
    /\ alien' = (alien \/ vm[id[c]].owner # c)
    /\ drift' = (drift \/ ~Running(id[c]))
    /\ vm' = [vm EXCEPT ![id[c]] = NoVM]
    /\ Goto(c, "deleted")
    /\ UNCHANGED <<capacity, sync, id, faults>>

\* Mutant: the capacity of the deleted VM stays booked.
ReleaseCapacityNever(c) ==
    /\ phase[c] = "deleted"
    /\ Unlocked
    /\ read' = [read EXCEPT ![c] = NoClaim]
    /\ Goto(c, "terminating")
    /\ UNCHANGED <<capacity, sync, vm, id, faults, drift, alien>>

\* ReleaseCapacityInZone with what the configuration said; Delete returns nil
\* and is called again.
ReleaseCapacity(c) ==
    /\ phase[c] = "deleted"
    /\ Unlocked
    /\ capacity' = ReleasedCapacity(Op(read[c]))
    /\ read' = [read EXCEPT ![c] = NoClaim]
    /\ Goto(c, "terminating")
    /\ UNCHANGED <<sync, vm, id, faults, drift, alien>>

-----------------------------------------------------------------------------
(* SyncNodeCapacity, every scanPeriod *)

\* Claims whose reservation or release is under way: the list of running VMs
\* does not tell what they have booked.
InFlight == {c \in Claim : phase[c] \in {"reserved", "cloned", "failing", "cleanup", "deleted"}}

\* Mutant: VMs that are not running are counted as well.
ListedVMsAll == {i \in VMID : vm[i] # NoVM}

\* GetVMsByFilter: the running VMs of the node.
ListedVMs == {i \in VMID : Running(i)}

\* Take the lock, make a new ResourceManager and list the VMs.
SyncList ==
    /\ Unlocked
    /\ sync' = [ on     |-> TRUE,
                 left   |-> ListedVMs,
                 policy |-> NewSimplePolicy,
                 drift  |-> InFlight # {} ]
    /\ UNCHANGED <<capacity, vm, phase, id, read, faults, drift, alien>>

\* The node's topology, settings or list cannot be read: the map is swapped
\* without the node.
SyncFails ==
    /\ Unlocked
    /\ faults < MaxFaults
    /\ faults' = faults + 1
    /\ capacity' = NoPolicy
    /\ UNCHANGED <<sync, vm, phase, id, read, drift, alien>>

\* GetVMConfig and AllocateOrUpdate for one listed VM.  A VM that is gone by
\* now is an error that drops the node; one that does not fit is left out.
SyncVM(i) ==
    /\ sync.on /\ i \in sync.left
    /\ IF vm[i] = NoVM
       THEN /\ capacity' = NoPolicy
            /\ sync' = Idle
       ELSE LET op   == Op(vm[i].owner)
                fits == CanAllocateOrUpdate(sync.policy, op)
            IN  /\ sync' = [ on     |-> TRUE,
                             left   |-> sync.left \ {i},
                             policy |-> IF fits THEN AllocatedOrUpdated(sync.policy, op)
                                                ELSE sync.policy,
                             drift  |-> sync.drift \/ ~fits \/ ~Running(i) ]
                /\ UNCHANGED capacity
    /\ UNCHANGED <<vm, phase, id, read, faults, drift, alien>>

\* The new map is swapped in and the lock released.
SyncDone ==
    /\ sync.on /\ sync.left = {}
    /\ capacity' = sync.policy
    /\ drift' = sync.drift
    /\ sync' = Idle
    /\ UNCHANGED <<vm, phase, id, read, faults, alien>>

\* Karpenter tries again what it had not finished.
AfterRestart(p) ==
    IF p \in {"picked", "reserved", "cloned", "failing", "cleanup"}
    THEN "absent"
    ELSE IF p = "deleted" THEN "terminating" ELSE p

\* The controller restarts: goroutines and capacity are gone, VMs stay.
Restart ==
    /\ faults < MaxFaults
    /\ faults' = faults + 1
    /\ capacity' = NoPolicy
    /\ sync' = Idle
    /\ phase' = [c \in Claim |-> AfterRestart(phase[c])]
    /\ id' = [c \in Claim |->
                IF phase[c] \in {"running", "terminating", "deleted"} THEN id[c] ELSE 0]
    /\ read' = [c \in Claim |-> NoClaim]
    /\ UNCHANGED <<vm, drift, alien>>

-----------------------------------------------------------------------------
Create(c) ==
    \/ GetNextID(c) \/ Reserve(c) \/ CloneVM(c) \/ CloneFails(c)
    \/ StartVM(c) \/ SetupFails(c) \/ CleanupRelease(c) \/ CleanupDelete(c)

Delete(c) == Terminate(c) \/ DeleteNotFound(c) \/ DeleteVM(c) \/ ReleaseCapacity(c)

Sync == SyncList \/ (\E i \in VMID : SyncVM(i)) \/ SyncDone

Next == (\E c \in Claim : Create(c) \/ Delete(c)) \/ Sync \/ SyncFails \/ Restart

Spec == Init /\ [][Next]_vars

\* The capacity controller requeues itself every scanPeriod, and a rebuild
\* that has begun comes to its end.
FairSpec == Spec /\ WF_vars(Sync)

-----------------------------------------------------------------------------
(* Properties *)

\* Policies of a node on which no VM has an affinity.
NodePolicy == [ availableCPUs  : {AllCPUs \ ReservedCPUs},
                usedCPUs       : {{}},
                assignedCPUs   : Nat,
                assignedMemory : 0 .. AllocatableMemory ]

\* Type invariant.  The capacity is a policy whose counters are natural
\* numbers and whose memory is within the node's: no sequence of releases takes
\* off more than is booked, also when a rebuild forgot the reservation.
TypeOK ==
    /\ capacity \in NodePolicy \cup {NoPolicy}
    /\ sync \in [on : BOOLEAN, left : SUBSET VMID, policy : NodePolicy, drift : BOOLEAN]
    /\ vm \in [VMID -> VMState \cup {NoVM}]
    /\ phase \in [Claim -> Phases]
    /\ id \in [Claim -> VMID \cup {0}]
    /\ read \in [Claim -> Claim \cup {NoClaim}]
    /\ drift \in BOOLEAN
    /\ alien \in BOOLEAN

\* A claim owns the VM behind its ID from the clone until its own clean-up or
\* deletion.  Two creates may pick the same ID, and a failed create deletes by
\* ID: it must never delete the VM of the create that won.  (A Delete that is
\* repeated after the ID went to another VM is the exception.)
OwnsItsVM ==
    ~alien => \A c \in Claim :
        phase[c] \in {"cloned", "failing", "cleanup", "running"}
        => vm[id[c]] # NoVM /\ vm[id[c]].owner = c

RunningVMs == {i \in VMID : Running(i)}

RunningMemory == SumFunction([i \in RunningVMs |-> SizeOf[vm[i].owner].memory])
RunningCPUs == SumFunction([i \in RunningVMs |-> SizeOf[vm[i].owner].cpus])

\* Claims that have booked capacity for a VM that is not running.
Reserved == {c \in Claim : phase[c] \in {"reserved", "cloned", "failing"} /\ ~OwnRunning(c)}
Deleted == {c \in Claim : phase[c] = "deleted"}

\* The booked capacity is what the running VMs, the reservations and the
\* releases to come add up to, in every interleaving of creates, deletes and
\* rebuilds, except after a failed clone, a clean-up or Delete of a VM in an
\* unexpected state, a VM that did not fit, or a rebuild whose list came while
\* a create or delete was under way; and any other rebuild makes it right again.
CapacityExact ==
    capacity # NoPolicy /\ ~drift /\ ~alien
    => /\ capacity.assignedMemory = RunningMemory
             + SumFunction([c \in Reserved |-> SizeOf[c].memory])
             + SumFunction([c \in Deleted |-> SizeOf[read[c]].memory])
       /\ capacity.assignedCPUs = RunningCPUs
             + SumFunction([c \in Reserved |-> SizeOf[c].cpus])
             + SumFunction([c \in Deleted |-> SizeOf[read[c]].cpus])

Quiet == \A c \in Claim : phase[c] \in {"absent", "picked", "running", "terminating", "gone"}

\* Once creates and deletes come to rest, the booked capacity becomes and stays
\* what the running VMs use, whatever leaks and races came before (if the VMs
\* fit the node).
SyncRepairs ==
    <>[]Quiet => <>[]( RunningMemory <= AllocatableMemory
                         /\ RunningCPUs <= Cardinality(AllCPUs \ ReservedCPUs)
                       => /\ capacity # NoPolicy
                          /\ capacity.assignedMemory = RunningMemory
                          /\ capacity.assignedCPUs = RunningCPUs )

\* "Memory overcommitment is not supported" (docs/noderesource.md:16): the VMs
\* of the claims that were created on the node fit its memory.
NoMemoryOvercommit ==
    SumFunction([c \in {d \in Claim : phase[d] = "running" /\ OwnRunning(d)} |-> SizeOf[c].memory])
        <= AllocatableMemory

=============================================================================
