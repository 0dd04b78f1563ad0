-------------------------- MODULE SimpleNodeProofs --------------------------
(***************************************************************************)
(* What holds of a node under the `simple` policy for every topology,      *)
(* every set of VMs and every size of VM.                                  *)
(***************************************************************************)
EXTENDS SimpleNode, Bookings, FiniteSetTheorems, TLAPS

-------------------------------------------------------------------------------
(* Totals of bookings: the units of a table are counted.                    *)

\* The units of one key.
LEMMA UnitsOfOne ==
    ASSUME NEW k, NEW n \in Nat
    PROVE  /\ IsFiniteSet({k} \X (0..(n - 1)))
           /\ Cardinality({k} \X (0..(n - 1))) = n
<1>1. IsFiniteSet({k}) /\ Cardinality({k}) = 1
  BY FS_Singleton
<1>2. IsFiniteSet(0..(n - 1)) /\ Cardinality(0..(n - 1)) = n
  BY FS_Interval
<1> QED BY <1>1, <1>2, FS_Product

\* Two disjoint sets.
LEMMA UnionOfTwo ==
    ASSUME NEW A, NEW B, IsFiniteSet(A), IsFiniteSet(B), A \cap B = {}
    PROVE  /\ IsFiniteSet(A \cup B) /\ Cardinality(A) \in Nat
           /\ Cardinality(A \cup B) = Cardinality(A) + Cardinality(B)
<1>1. Cardinality(A) \in Nat /\ Cardinality(B) \in Nat
  BY FS_CardinalityType
<1>2. Cardinality(A \cap B) = 0
  BY FS_EmptySet
<1>3. IsFiniteSet(A \cup B) /\ Cardinality(A \cup B) = Cardinality(A) + Cardinality(B) - Cardinality(A \cap B)
  BY FS_Union
<1> QED BY <1>1, <1>2, <1>3

\* The total over no keys is zero.
LEMMA TotalEmpty ==
    ASSUME NEW f
    PROVE  IsTotal(f, {}, 0)
<1>1. Units(f, {}) = {}
  BY DEF Units
<1> QED BY <1>1, FS_EmptySet DEF IsTotal

\* A table has the units of one key and those of the others.
LEMMA UnitsSplit ==
    ASSUME NEW S, NEW f, NEW g, NEW k \in S, f[k] \in Nat,
           \A j \in S \ {k} : g[j] = f[j]
    PROVE  /\ Units(f, S) = Units(g, S \ {k}) \cup ({k} \X (0..(f[k] - 1)))
           /\ Units(g, S \ {k}) \cap ({k} \X (0..(f[k] - 1))) = {}
<1>1. \A n \in Nat : n < f[k] <=> n \in 0..(f[k] - 1)
  OBVIOUS
<1>2. \A n : n \in 0..(f[k] - 1) => n \in Nat
  OBVIOUS
<1> QED BY <1>1, <1>2 DEF Units

\* A new entry adds its value to the total.
LEMMA TotalBooked ==
    ASSUME NEW S, NEW f, NEW g, NEW total, IsTotal(f, S, total),
           NEW k, k \notin S, g[k] \in Nat, \A j \in S : g[j] = f[j] /\ f[j] \in Nat
    PROVE  IsTotal(g, S \cup {k}, total + g[k])
<1> DEFINE A == Units(f, S)
           B == {k} \X (0..(g[k] - 1))
           S2 == S \cup {k}
<1>1. k \in S2 /\ S2 \ {k} = S /\ \A j \in S2 \ {k} : f[j] = g[j]
  OBVIOUS
<1> HIDE DEF S2
<1>2. Units(g, S2) = A \cup B /\ A \cap B = {}
  <2>1. /\ Units(g, S2) = Units(f, S2 \ {k}) \cup ({k} \X (0..(g[k] - 1)))
        /\ Units(f, S2 \ {k}) \cap ({k} \X (0..(g[k] - 1))) = {}
    BY <1>1, UnitsSplit
  <2> QED BY <1>1, <2>1
<1>3. IsFiniteSet(A) /\ Cardinality(A) = total /\ IsFiniteSet(B) /\ Cardinality(B) = g[k]
  BY UnitsOfOne DEF IsTotal
<1> HIDE DEF A, B
<1>4. IsFiniteSet(A \cup B) /\ Cardinality(A \cup B) = total + g[k]
  BY <1>2, <1>3, UnionOfTwo
<1> QED BY <1>2, <1>4 DEF IsTotal, S2

\* An entry that is removed leaves the total of the others ...
LEMMA TotalReleased ==
    ASSUME NEW S, NEW f, NEW g, NEW total, IsTotal(f, S, total),
           NEW k \in S, f[k] \in Nat, \A j \in S \ {k} : g[j] = f[j]
    PROVE  IsTotal(g, S \ {k}, total - f[k])
<1> DEFINE A == Units(g, S \ {k})
           B == {k} \X (0..(f[k] - 1))
<1>1. Units(f, S) = A \cup B /\ A \cap B = {}
  BY UnitsSplit
<1>2. IsFiniteSet(A \cup B) /\ Cardinality(A \cup B) = total
  BY <1>1 DEF IsTotal
<1>3. IsFiniteSet(B) /\ Cardinality(B) = f[k]
  BY UnitsOfOne
<1> HIDE DEF A, B
<1>4. IsFiniteSet(A)
  BY <1>2, FS_Subset
<1>5. Cardinality(A) = total - f[k]
  BY <1>1, <1>2, <1>3, <1>4, UnionOfTwo
<1> QED BY <1>4, <1>5 DEF IsTotal, A

\* ... and did not exceed it.
LEMMA TotalBound ==
    ASSUME NEW S, NEW f, NEW total, IsTotal(f, S, total), NEW k \in S, f[k] \in Nat
    PROVE  total \in Nat /\ f[k] <= total
<1>1. IsTotal(f, S \ {k}, total - f[k])
  BY TotalReleased
<1> QED BY <1>1, FS_CardinalityType DEF IsTotal

-------------------------------------------------------------------------------
\* The fields of a policy and of a request, as sets of records.
PolicyType ==
    [ availableCPUs  : SUBSET (HostCPUs \ ReservedCPUs),
      usedCPUs       : SUBSET (HostCPUs \ ReservedCPUs),
      assignedCPUs   : Nat,
      assignedMemory : Nat ]

-----------------------------------------------------------------------------
(* The operators of the policy *)

\* A request built from a size and an affinity of the host is a valid request.
LEMMA ResourcesType ==
    ASSUME NEW size \in VMSizes, NEW cpuset \in SUBSET HostCPUs
    PROVE  Resources(size, cpuset) \in Op
BY NodeAssumption DEF Resources, Op

\* A new policy has the type of a policy (NewSimplePolicy).
LEMMA NewPolicyType == NewSimplePolicy \in PolicyType
BY NodeAssumption DEF NewSimplePolicy, Policy, PolicyType

\* Allocate keeps the type of the policy.
LEMMA AllocatedType ==
    ASSUME NEW p \in PolicyType, NEW op \in Op
    PROVE  Allocated(p, op) \in PolicyType
BY DEF PolicyType, Op, Allocated, Assign, Policy

\* AllocateOrUpdate keeps the type of the policy.
LEMMA AllocatedOrUpdatedType ==
    ASSUME NEW p \in PolicyType, NEW op \in Op
    PROVE  AllocatedOrUpdated(p, op) \in PolicyType
BY DEF PolicyType, Op, AllocatedOrUpdated, Pin, Assign, Policy

\* A Release that is not refused keeps the type of the policy.
LEMMA ReleasedType ==
    ASSUME NEW p \in PolicyType, NEW op \in Op, CanRelease(p, op)
    PROVE  Released(p, op) \in PolicyType
BY DEF PolicyType, Op, Released, Unpin, Assign, Policy, CanRelease

-----------------------------------------------------------------------------
(* Type correctness *)

\* Every reachable state of the node has the declared types: in particular no
\* counter becomes negative and no reserved CPU enters a pool.
THEOREM TypeCorrect == Spec => []TypeOK
<1> USE DEF PolicyType
<1>1. Init => TypeOK
  BY NewPolicyType DEF Init, TypeOK
<1>2. TypeOK /\ [Next]_vars => TypeOK'
  <2> SUFFICES ASSUME TypeOK, [Next]_vars
               PROVE  TypeOK'
    OBVIOUS
  <2>1. ASSUME NEW v \in VM, NEW size \in VMSizes, Allocate(v, size)
        PROVE  TypeOK'
    BY <2>1, ResourcesType, AllocatedType DEF Allocate, TypeOK
  <2>2. ASSUME NEW v \in VM, NEW size \in VMSizes, NEW cpuset \in SUBSET HostCPUs,
               AllocateOrUpdate(v, size, cpuset)
        PROVE  TypeOK'
    BY <2>2, ResourcesType, AllocatedOrUpdatedType DEF AllocateOrUpdate, TypeOK
  <2>3. ASSUME NEW v \in VM, Release(v)
        PROVE  TypeOK'
    <3>1. vms[v] \in Op
      BY <2>3 DEF Release, Booked, TypeOK
    <3>2. policy' \in PolicyType
      BY <2>3, <3>1, ReleasedType DEF Release, TypeOK
    <3>3. vms' \in [VM -> Op \cup {NoVM}]
      BY <2>3 DEF Release, TypeOK
    <3> QED BY <3>2, <3>3 DEF TypeOK
  <2>4. CASE UNCHANGED vars
    BY <2>4 DEF vars, TypeOK
  <2> QED BY <2>1, <2>2, <2>3, <2>4 DEF Next
<1> QED BY <1>1, <1>2, PTL DEF Spec

-----------------------------------------------------------------------------
(* The inductive invariant.  MemoryNeverOvercommitted is inductive with the  *)
(* types alone.  PoolsComplement is what ties the two formulas for the free  *)
(* CPUs together.                                                            *)

IInv == TypeOK /\ MemoryNeverOvercommitted /\ PoolsComplement

\* IInv holds initially and is kept by every call on the policy.
LEMMA IInvInductive ==
    /\ Init => IInv
    /\ IInv /\ [Next]_vars /\ TypeOK' => IInv'
<1> USE DEF PolicyType, Policy
<1>1. Init => IInv
  BY NewPolicyType, PolicyAssumption
  DEF Init, IInv, TypeOK, MemoryNeverOvercommitted, PoolsComplement,
      NewSimplePolicy, AllocatableMemory
<1>2. ASSUME IInv, [Next]_vars, TypeOK'
      PROVE  IInv'
  <2> USE DEF TypeOK, MemoryNeverOvercommitted, PoolsComplement
  <2>1. ASSUME NEW v \in VM, NEW size \in VMSizes, Allocate(v, size)
        PROVE  (MemoryNeverOvercommitted /\ PoolsComplement)'
    BY <1>2, <2>1 DEF IInv, Allocate, CanAllocate, MemoryFits, Allocated, Assign
  <2>2. ASSUME NEW v \in VM, NEW size \in VMSizes, NEW cpuset \in SUBSET HostCPUs,
               AllocateOrUpdate(v, size, cpuset)
        PROVE  (MemoryNeverOvercommitted /\ PoolsComplement)'
    BY <1>2, <2>2
    DEF IInv, AllocateOrUpdate, CanAllocateOrUpdate, MemoryFits,
        AllocatedOrUpdated, Pin, Assign
  <2>3. ASSUME NEW v \in VM, Release(v)
        PROVE  (MemoryNeverOvercommitted /\ PoolsComplement)'
    <3>1. vms[v] \in Op
      BY <1>2, <2>3 DEF IInv, Release, Booked
    <3>2. MemoryNeverOvercommitted'
      BY <1>2, <2>3, <3>1, PolicyAssumption
      DEF IInv, Release, Released, Unpin, Assign, Op, AllocatableMemory
    <3>3. PoolsComplement'
      BY <1>2, <2>3, <3>1 DEF IInv, Release, Released, Unpin, Assign
    <3> QED BY <3>2, <3>3
  <2>4. CASE UNCHANGED vars
    BY <1>2, <2>4 DEF IInv, vars
  <2> QED BY <1>2, <2>1, <2>2, <2>3, <2>4 DEF Next, IInv
<1> QED BY <1>1, <1>2

\* Every reachable state satisfies IInv.
THEOREM Inductive == Spec => []IInv
BY IInvInductive, TypeCorrect, PTL DEF Spec

\* "Memory overcommitment is not supported" (docs/noderesource.md:16): no
\* sequence of Allocate, AllocateOrUpdate and Release books more memory than
\* the node can give.
THEOREM MemorySafe == Spec => []MemoryNeverOvercommitted
BY Inductive, PTL DEF IInv

\* The common pool and the pinned CPUs never overlap and lose no CPU of the
\* topology (the paired updates of policy_simple.go:155-156 and 186-187).
THEOREM PoolsSafe == Spec => []PoolsComplement
BY Inductive, PTL DEF IInv

-----------------------------------------------------------------------------
(* The free CPUs, counted in two ways *)

\* The size of the union of two disjoint finite sets.
LEMMA DisjointUnion ==
    ASSUME NEW A, NEW U, IsFiniteSet(A), IsFiniteSet(U), A \cap U = {}
    PROVE  /\ IsFiniteSet(A \cup U)
           /\ Cardinality(A \cup U) = Cardinality(A) + Cardinality(U)
<1>1. /\ IsFiniteSet(A \cup U)
      /\ Cardinality(A \cup U) = Cardinality(A) + Cardinality(U) - Cardinality(A \cap U)
  BY FS_Union
<1>2. Cardinality(A \cap U) = 0
  BY FS_EmptySet
<1>3. Cardinality(A) \in Nat /\ Cardinality(U) \in Nat
  BY FS_CardinalityType
<1> QED BY <1>1, <1>2, <1>3

\* The sets of a typed policy are finite, so their sizes are numbers.
LEMMA PoolsFinite ==
    ASSUME TypeOK
    PROVE  /\ IsFiniteSet(policy.availableCPUs)
           /\ IsFiniteSet(policy.usedCPUs)
           /\ Cardinality(policy.availableCPUs) \in Nat
           /\ Cardinality(policy.usedCPUs) \in Nat
<1>1. IsFiniteSet(HostCPUs \ ReservedCPUs)
  BY NodeAssumption, FS_Difference
<1>2. /\ policy.availableCPUs \in SUBSET (HostCPUs \ ReservedCPUs)
      /\ policy.usedCPUs \in SUBSET (HostCPUs \ ReservedCPUs)
  BY DEF TypeOK
<1>3. IsFiniteSet(policy.availableCPUs) /\ IsFiniteSet(policy.usedCPUs)
  BY <1>1, <1>2, FS_Subset
<1> QED BY <1>3, FS_CardinalityType

\* What AvailableCPUs subtracts from the topology never leaves more than the
\* common pool really holds.
LEMMA FreeCPUsBound ==
    ASSUME IInv
    PROVE  FreeCPUs(policy) <= Cardinality(policy.availableCPUs) - policy.assignedCPUs
<1> DEFINE A == policy.availableCPUs
           U == policy.usedCPUs
           T == AllCPUs \ ReservedCPUs
<1>1. /\ IsFiniteSet(A) /\ IsFiniteSet(U)
      /\ Cardinality(A) \in Nat /\ Cardinality(U) \in Nat
  BY PoolsFinite DEF IInv
<1>2. policy.assignedCPUs \in Nat
  BY DEF IInv, TypeOK
<1>3. /\ Cardinality(AllCPUs) \in Nat
      /\ Cardinality(ReservedCPUs) \in Nat
      /\ Cardinality(AllCPUs \cap ReservedCPUs) \in Nat
      /\ Cardinality(AllCPUs \cap ReservedCPUs) <= Cardinality(ReservedCPUs)
  BY PolicyAssumption, FS_CardinalityType, FS_Intersection
<1>4. Cardinality(T) = Cardinality(AllCPUs) - Cardinality(AllCPUs \cap ReservedCPUs)
  BY PolicyAssumption, FS_Difference
<1>5. /\ IsFiniteSet(A \cup U)
      /\ Cardinality(A \cup U) = Cardinality(A) + Cardinality(U)
  <2>1. A \cap U = {}
    BY DEF IInv, PoolsComplement
  <2> QED BY <1>1, <2>1, DisjointUnion
<1>6. Cardinality(T) <= Cardinality(A \cup U)
  <2>1. T \in SUBSET (A \cup U)
    BY DEF IInv, PoolsComplement
  <2> QED BY <1>5, <2>1, FS_Subset
<1> QED BY <1>1, <1>2, <1>3, <1>4, <1>5, <1>6 DEF FreeCPUs

\* A request that FitInZone accepts on a state is not refused by Allocate on
\* that state (cloudcapacity.go:454-462, policy_simple.go:85-101, 112-123).
THEOREM FitSafe == Spec => []FitImpliesAllocate
<1>1. IInv => FitImpliesAllocate
  <2> SUFFICES ASSUME IInv, NEW size \in VMSizes,
                      size.cpus <= AvailableCPUs(policy),
                      size.memory <= AvailableMemory(policy)
               PROVE  CanAllocate(policy, Resources(size, {}))
    BY DEF FitImpliesAllocate
  <2>1. size.cpus \in Nat \ {0} /\ size.memory \in Nat \ {0}
    BY NodeAssumption
  <2>2. /\ policy.assignedCPUs \in Nat /\ policy.assignedMemory \in Nat
        /\ Cardinality(policy.availableCPUs) \in Nat
        /\ Cardinality(policy.usedCPUs) \in Nat
        /\ Cardinality(AllCPUs) \in Nat /\ Cardinality(ReservedCPUs) \in Nat
    BY PoolsFinite, PolicyAssumption, FS_CardinalityType DEF IInv, TypeOK
  <2>3. CPUsFit(policy, Resources(size, {}))
    <3>1. size.cpus <= FreeCPUs(policy)
      BY <2>1, <2>2 DEF AvailableCPUs, FreeCPUs
    <3> QED BY <2>1, <2>2, <3>1, FreeCPUsBound DEF CPUsFit, Resources, FreeCPUs
  <2>4. MemoryFits(policy, Resources(size, {}))
    BY <2>1, <2>2, PolicyAssumption
    DEF AvailableMemory, AllocatableMemory, MemoryFits, Resources
  <2> QED BY <2>3, <2>4 DEF CanAllocate
<1> QED BY <1>1, Inductive, PTL

\* "A new VM is scheduled only if the total vCPUs (including the new VM) does
\* not exceed the total vCPUs capacity of the node" (docs/noderesource.md:14).
THEOREM AllocateSafe == Spec => AllocateWithinNode
<1> DEFINE H == HostCPUs \ ReservedCPUs
           Within == policy'.assignedCPUs > policy.assignedCPUs
                     => policy'.assignedCPUs <= Cardinality(H) - Cardinality(policy'.usedCPUs)
<1>1. ASSUME IInv
      PROVE  Cardinality(policy.availableCPUs) + Cardinality(policy.usedCPUs)
                <= Cardinality(H)
  <2> DEFINE A == policy.availableCPUs
             U == policy.usedCPUs
  <2>1. IsFiniteSet(A) /\ IsFiniteSet(U)
    BY <1>1, PoolsFinite DEF IInv
  <2>2. A \cap U = {} /\ A \cup U \in SUBSET H
    BY <1>1 DEF IInv, PoolsComplement, TypeOK
  <2>3. Cardinality(A \cup U) = Cardinality(A) + Cardinality(U)
    BY <2>1, <2>2, DisjointUnion
  <2>4. IsFiniteSet(H)
    BY NodeAssumption, FS_Difference
  <2>5. Cardinality(A \cup U) <= Cardinality(H)
    BY <2>2, <2>4, FS_Subset
  <2> QED BY <2>3, <2>5
<1>2. IInv /\ [Next]_vars => [Within]_vars
  <2> SUFFICES ASSUME IInv, Next PROVE Within
    OBVIOUS
  <2> USE DEF Policy
  <2>0. /\ policy.assignedCPUs \in Nat
        /\ Cardinality(policy.availableCPUs) \in Nat
        /\ Cardinality(policy.usedCPUs) \in Nat
        /\ Cardinality(H) \in Nat
    BY PoolsFinite, NodeAssumption, FS_Difference, FS_CardinalityType DEF IInv, TypeOK
  <2>1. ASSUME NEW v \in VM, NEW size \in VMSizes, Allocate(v, size)
        PROVE  Within
    <3>1. size.cpus \in Nat
      BY NodeAssumption
    <3>2. /\ policy'.assignedCPUs = policy.assignedCPUs + size.cpus
          /\ policy'.usedCPUs = policy.usedCPUs
          /\ policy.assignedCPUs + size.cpus <= Cardinality(policy.availableCPUs)
      BY <2>1 DEF Allocate, Allocated, Assign, CanAllocate, CPUsFit, Resources
    <3> QED BY <1>1, <2>0, <3>1, <3>2
  <2>2. ASSUME NEW v \in VM, NEW size \in VMSizes, NEW cpuset \in SUBSET HostCPUs,
               AllocateOrUpdate(v, size, cpuset)
        PROVE  Within
    <3>1. size.cpus \in Nat
      BY NodeAssumption
    <3>2. CASE cpuset = {}
      <4>1. /\ policy'.assignedCPUs = policy.assignedCPUs + size.cpus
            /\ policy'.usedCPUs = policy.usedCPUs
            /\ policy.assignedCPUs + size.cpus <= Cardinality(policy.availableCPUs)
        BY <2>2, <3>2
        DEF AllocateOrUpdate, AllocatedOrUpdated, Assign, CanAllocateOrUpdate,
            CPUsFit, Resources
      <4> QED BY <1>1, <2>0, <3>1, <4>1
    <3>3. CASE cpuset # {}
      <4>1. policy'.assignedCPUs = policy.assignedCPUs
        BY <2>2, <3>3 DEF AllocateOrUpdate, AllocatedOrUpdated, Pin, Resources
      <4> QED BY <2>0, <4>1
    <3> QED BY <3>2, <3>3
  <2>3. ASSUME NEW v \in VM, Release(v)
        PROVE  Within
    <3>1. vms[v] \in Op
      BY <2>3 DEF IInv, TypeOK, Release, Booked
    <3>2. policy'.assignedCPUs <= policy.assignedCPUs
      BY <2>0, <2>3, <3>1 DEF Release, Released, Unpin, Assign, Op
    <3>3. policy'.assignedCPUs \in Nat
      BY <2>0, <2>3, <3>1 DEF Release, Released, Unpin, Assign, Op, CanRelease
    <3> QED BY <2>0, <3>2, <3>3
  <2> QED BY <2>1, <2>2, <2>3 DEF Next
<1> QED BY <1>2, Inductive, PTL DEF Spec, AllocateWithinNode

-----------------------------------------------------------------------------
(* The counters are the totals of the bookings.  This is what Release needs: *)
(* it takes the resources from its caller and refuses what exceeds a         *)
(* counter.                                                                  *)

MemoryOf == [v \in VM |-> Entry(v).memory]

CountedOf == [v \in VM |-> Entry(v).cpus]

Totals ==
    /\ IsTotal(MemoryOf, Booked, policy.assignedMemory)
    /\ IsTotal(CountedOf, Booked, policy.assignedCPUs)

\* CPUs that a request takes from the common pool.
CountedCPUs(op) == IF op.cpuset = {} THEN op.cpus ELSE 0

\* What the ledger says of a booked VM and of a VM that is not booked.
LEMMA EntryFields ==
    ASSUME TypeOK, NEW v \in VM
    PROVE  /\ vms[v] # NoVM => /\ vms[v] \in Op
                               /\ MemoryOf[v] = vms[v].memory
                               /\ CountedOf[v] = CountedCPUs(vms[v])
           /\ vms[v] = NoVM => MemoryOf[v] = 0 /\ CountedOf[v] = 0
           /\ MemoryOf[v] \in Nat /\ CountedOf[v] \in Nat
           /\ Entry(v) = [memory |-> MemoryOf[v], cpus |-> CountedOf[v]]
BY DEF TypeOK, Op, MemoryOf, CountedOf, CountedCPUs, Entry, Booked, Pinned

\* Release is never refused: a booked VM gives back no more than is counted
\* (policy_simple.go:170-183).
LEMMA ReleaseNotRefused ==
    ASSUME TypeOK, Totals, NEW v \in Booked
    PROVE  CanRelease(policy, vms[v])
<1>1. v \in VM /\ vms[v] # NoVM
  BY DEF Booked
<1>2. /\ MemoryOf[v] = vms[v].memory /\ CountedOf[v] = CountedCPUs(vms[v])
      /\ MemoryOf[v] \in Nat /\ CountedOf[v] \in Nat
  BY <1>1, EntryFields
<1>3. MemoryOf[v] <= policy.assignedMemory
  BY <1>1, <1>2, TotalBound DEF Totals
<1>4. CountedOf[v] <= policy.assignedCPUs
  BY <1>1, <1>2, TotalBound DEF Totals
<1> QED BY <1>2, <1>3, <1>4 DEF CanRelease, CountedCPUs

\* Only the entry of one VM changes in a step that books or releases it.
LEMMA OtherEntries ==
    ASSUME TypeOK, TypeOK', NEW v \in VM, NEW e, vms' = [vms EXCEPT ![v] = e]
    PROVE  \A w \in VM \ {v} : /\ MemoryOf'[w] = MemoryOf[w]
                               /\ CountedOf'[w] = CountedOf[w]
                               /\ Entry(w)' = Entry(w)
BY DEF TypeOK, MemoryOf, CountedOf, Entry, Booked, Pinned

\* A step that books op keeps the totals and is a booking of the ledger.
LEMMA BookStep ==
    ASSUME IInv, Totals, TypeOK', NEW v \in VM, NEW op \in Op,
           vms[v] = NoVM, vms' = [vms EXCEPT ![v] = op], MemoryFits(policy, op),
           policy'.assignedMemory = policy.assignedMemory + op.memory,
           policy'.assignedCPUs = policy.assignedCPUs + CountedCPUs(op)
    PROVE  Totals' /\ Ledger!Book(v)
<1>0. TypeOK
  BY DEF IInv
<1>1. vms'[v] = op /\ vms'[v] # NoVM
  BY <1>0, NoVMAssumption DEF TypeOK
<1>2. MemoryOf[v] = 0 /\ CountedOf[v] = 0 /\ Entry(v) = [memory |-> 0, cpus |-> 0]
  BY <1>0, EntryFields
<1>3. /\ MemoryOf'[v] = op.memory /\ CountedOf'[v] = CountedCPUs(op)
      /\ Entry(v)' = [memory |-> op.memory, cpus |-> CountedCPUs(op)]
  BY <1>1 DEF Entry, Booked, Pinned, MemoryOf, CountedOf, CountedCPUs
<1>4. op.memory \in Nat /\ op.memory # 0 /\ CountedCPUs(op) \in Nat
  BY DEF Op, CountedCPUs
<1>5. \A w \in VM \ {v} : /\ MemoryOf'[w] = MemoryOf[w]
                          /\ CountedOf'[w] = CountedOf[w]
                          /\ Entry(w)' = Entry(w)
  BY <1>0, OtherEntries
<1>6. /\ Booked' = Booked \cup {v} /\ v \notin Booked
      /\ \A w \in Booked : /\ MemoryOf'[w] = MemoryOf[w] /\ MemoryOf[w] \in Nat
                           /\ CountedOf'[w] = CountedOf[w] /\ CountedOf[w] \in Nat
  <2>1. Booked' = Booked \cup {v} /\ v \notin Booked /\ Booked \subseteq VM \ {v}
    BY <1>0, <1>1 DEF Booked, TypeOK
  <2> QED BY <1>0, <1>5, <2>1, EntryFields
<1>7. IsTotal(MemoryOf', Booked \cup {v}, policy.assignedMemory + MemoryOf'[v])
  BY <1>3, <1>4, <1>6, TotalBooked DEF Totals
<1>8. IsTotal(CountedOf', Booked \cup {v}, policy.assignedCPUs + CountedOf'[v])
  BY <1>3, <1>4, <1>6, TotalBooked DEF Totals
<1>9. Totals'
  BY <1>3, <1>6, <1>7, <1>8 DEF Totals
<1>10. /\ AvailableMemory(policy) = AllocatableMemory - policy.assignedMemory
       /\ AvailableMemory(policy') = AllocatableMemory - policy.assignedMemory - op.memory
       /\ op.memory <= AvailableMemory(policy)
  BY <1>0, <1>4, PolicyAssumption
  DEF TypeOK, AvailableMemory, AllocatableMemory, MemoryFits
<1>11. Ledger!Book(v)
  <2> DEFINE held == [w \in VM |-> Entry(w)]
             heldNext == [w \in VM |-> Entry(w)']
  <2>1. held[v] = Ledger!Nothing /\ heldNext[v] # Ledger!Nothing
    BY <1>2, <1>3, <1>4 DEF Ledger!Nothing
  <2>2. heldNext = [held EXCEPT ![v] = heldNext[v]]
    BY <1>5
  <2>3. heldNext[v].memory = op.memory /\ heldNext[v].cpus = CountedCPUs(op)
    BY <1>3
  <2>4. policy.assignedMemory \in Nat /\ AllocatableMemory \in Int
    BY <1>0, PolicyAssumption DEF TypeOK, AllocatableMemory
  <2>5. /\ heldNext[v].memory <= AvailableMemory(policy)
        /\ AvailableMemory(policy') = AvailableMemory(policy) - heldNext[v].memory
        /\ policy'.assignedCPUs = policy.assignedCPUs + heldNext[v].cpus
    BY <1>4, <1>10, <2>3, <2>4
  <2> QED BY <2>1, <2>2, <2>5 DEF Ledger!Book
<1> QED BY <1>9, <1>11

\* A step that gives back what a VM was booked with keeps the totals and is a
\* release of the ledger.
LEMMA DropStep ==
    ASSUME IInv, Totals, TypeOK', NEW v \in Booked, vms' = [vms EXCEPT ![v] = NoVM],
           policy'.assignedMemory = policy.assignedMemory - vms[v].memory,
           policy'.assignedCPUs = policy.assignedCPUs - CountedCPUs(vms[v])
    PROVE  Totals' /\ Ledger!Drop(v)
<1>0. TypeOK /\ v \in VM /\ vms[v] # NoVM
  BY DEF IInv, Booked
<1>1. vms'[v] = NoVM
  BY <1>0 DEF TypeOK
<1>2. MemoryOf'[v] = 0 /\ CountedOf'[v] = 0 /\ Entry(v)' = [memory |-> 0, cpus |-> 0]
  BY <1>0, <1>1 DEF Entry, Booked, Pinned, MemoryOf, CountedOf
<1>3. /\ MemoryOf[v] = vms[v].memory /\ CountedOf[v] = CountedCPUs(vms[v])
      /\ MemoryOf[v] \in Nat /\ CountedOf[v] \in Nat
      /\ Entry(v) = [memory |-> MemoryOf[v], cpus |-> CountedOf[v]]
      /\ vms[v] \in Op
  BY <1>0, EntryFields
<1>4. MemoryOf[v] # 0
  BY <1>3 DEF Op
<1>5. \A w \in VM \ {v} : /\ MemoryOf'[w] = MemoryOf[w]
                          /\ CountedOf'[w] = CountedOf[w]
                          /\ Entry(w)' = Entry(w)
  BY <1>0, OtherEntries
<1>6. /\ Booked' = Booked \ {v} /\ Booked \subseteq VM
      /\ \A w \in Booked \ {v} : MemoryOf'[w] = MemoryOf[w] /\ CountedOf'[w] = CountedOf[w]
  BY <1>0, <1>1, <1>5 DEF Booked, TypeOK
<1>7. /\ IsTotal(MemoryOf', Booked \ {v}, policy.assignedMemory - MemoryOf[v])
      /\ IsTotal(CountedOf', Booked \ {v}, policy.assignedCPUs - CountedOf[v])
  BY <1>3, <1>6, TotalReleased DEF Totals
<1>8. Totals'
  BY <1>3, <1>6, <1>7 DEF Totals
<1>9. /\ AvailableMemory(policy) = AllocatableMemory - policy.assignedMemory
      /\ AvailableMemory(policy') = AllocatableMemory - policy.assignedMemory + MemoryOf[v]
  BY <1>0, <1>3, PolicyAssumption
  DEF IInv, MemoryNeverOvercommitted, TypeOK, AvailableMemory, AllocatableMemory
<1>10. Ledger!Drop(v)
  <2> DEFINE held == [w \in VM |-> Entry(w)]
             heldNext == [w \in VM |-> Entry(w)']
  <2>1. held[v] # Ledger!Nothing
    BY <1>0, <1>3, <1>4 DEF Ledger!Nothing
  <2>2. heldNext = [held EXCEPT ![v] = Ledger!Nothing]
    BY <1>0, <1>2, <1>5 DEF Ledger!Nothing
  <2>3. held[v].memory = MemoryOf[v] /\ held[v].cpus = CountedOf[v]
    BY <1>0, <1>3
  <2>4. /\ AvailableMemory(policy') = AvailableMemory(policy) + held[v].memory
        /\ policy'.assignedCPUs = policy.assignedCPUs - held[v].cpus
    BY <1>3, <1>9, <2>3
  <2> QED BY <2>1, <2>2, <2>4 DEF Ledger!Drop
<1> QED BY <1>8, <1>10

\* The counters are totals in the initial state, which is the ledger's.
LEMMA TotalsInit ==
    ASSUME Init
    PROVE  Totals /\ Ledger!Init
<1>1. TypeOK
  BY NewPolicyType DEF Init, TypeOK, PolicyType
<1>2. \A v \in VM : /\ MemoryOf[v] = 0 /\ CountedOf[v] = 0
                    /\ Entry(v) = [memory |-> 0, cpus |-> 0]
  <2>1. \A v \in VM : vms[v] = NoVM
    BY DEF Init
  <2> QED BY <1>1, <2>1, EntryFields
<1>3. policy.assignedMemory = 0 /\ policy.assignedCPUs = 0
  BY DEF Init, NewSimplePolicy, Policy
<1>4. Totals
  <2>1. Booked = {}
    BY DEF Init, Booked
  <2> QED BY <1>3, <2>1, TotalEmpty DEF Totals
<1>5. AvailableMemory(policy) = AllocatableMemory
  BY <1>3, PolicyAssumption DEF AvailableMemory, AllocatableMemory
<1>6. Ledger!Init
  BY <1>2, <1>3, <1>5 DEF Ledger!Init, Ledger!Nothing
<1> QED BY <1>4, <1>6

\* Every call on the policy keeps the totals and is a step of the ledger.
LEMMA TotalsStep ==
    ASSUME IInv, Totals, [Next]_vars, TypeOK'
    PROVE  /\ Totals'
           /\ [Ledger!Next]_<<[v \in VM |-> Entry(v)], AvailableMemory(policy),
                              policy.assignedCPUs>>
<1> DEFINE Promise == Totals' /\ \E v \in VM : Ledger!Book(v) \/ Ledger!Drop(v)
<1>0. /\ policy.assignedMemory \in Nat /\ policy.assignedCPUs \in Nat
  BY DEF IInv, TypeOK
<1>1. ASSUME NEW v \in VM, NEW size \in VMSizes, Allocate(v, size)
      PROVE  Promise
  <2> DEFINE op == Resources(size, {})
  <2>1. op \in Op
    BY ResourcesType
  <2>2. /\ vms[v] = NoVM /\ vms' = [vms EXCEPT ![v] = op]
        /\ MemoryFits(policy, op)
        /\ policy' = Allocated(policy, op)
    BY <1>1 DEF Allocate, CanAllocate
  <2>3. /\ policy'.assignedMemory = policy.assignedMemory + op.memory
        /\ policy'.assignedCPUs = policy.assignedCPUs + CountedCPUs(op)
    BY <2>2 DEF Allocated, Assign, Policy, CountedCPUs, Resources
  <2> HIDE DEF op
  <2> QED BY <2>1, <2>2, <2>3, BookStep
<1>2. ASSUME NEW v \in VM, NEW size \in VMSizes, NEW cpuset \in SUBSET HostCPUs,
             AllocateOrUpdate(v, size, cpuset)
      PROVE  Promise
  <2> DEFINE op == Resources(size, cpuset)
  <2>1. op \in Op
    BY ResourcesType
  <2>2. /\ vms[v] = NoVM /\ vms' = [vms EXCEPT ![v] = op]
        /\ MemoryFits(policy, op)
        /\ policy' = AllocatedOrUpdated(policy, op)
    BY <1>2 DEF AllocateOrUpdate, CanAllocateOrUpdate
  <2> HIDE DEF op
  <2>3. /\ policy'.assignedMemory = policy.assignedMemory + op.memory
        /\ policy'.assignedCPUs = policy.assignedCPUs + CountedCPUs(op)
    BY <1>0, <2>2 DEF AllocatedOrUpdated, Pin, Assign, Policy, CountedCPUs
  <2> QED BY <2>1, <2>2, <2>3, BookStep
<1>3. ASSUME NEW v \in VM, Release(v)
      PROVE  Promise
  <2>1. v \in Booked /\ vms' = [vms EXCEPT ![v] = NoVM] /\ vms[v] \in Op
    BY <1>3 DEF Release, Booked, IInv, TypeOK
  <2>2. policy' = Released(policy, vms[v])
    BY <1>3, <2>1, ReleaseNotRefused DEF Release, IInv
  <2>3. /\ policy'.assignedMemory = policy.assignedMemory - vms[v].memory
        /\ policy'.assignedCPUs = policy.assignedCPUs - CountedCPUs(vms[v])
    BY <1>0, <2>1, <2>2 DEF Released, Unpin, Assign, Policy, CountedCPUs, Op
  <2> QED BY <2>1, <2>3, DropStep
<1>4. CASE Next
  <2>1. Promise
    BY <1>1, <1>2, <1>3, <1>4 DEF Next
  <2> QED BY <2>1 DEF Ledger!Next
<1>5. CASE UNCHANGED vars
  <2>1. UNCHANGED <<policy, vms>>
    BY <1>5 DEF vars
  <2>2. UNCHANGED <<Booked, MemoryOf, CountedOf, [v \in VM |-> Entry(v)]>>
    BY <2>1 DEF MemoryOf, CountedOf, Entry, Booked, Pinned
  <2> QED BY <2>1, <2>2 DEF Totals
<1> QED BY <1>4, <1>5

\* Every reachable state has counters that are the totals of its bookings.
THEOREM CountersAreTotals == Spec => []Totals
BY TotalsInit, TotalsStep, TypeCorrect, Inductive, PTL DEF Spec

\* The two counters of the policy implement a table of bookings: nothing is
\* booked that is not free, what is reported free is what the booked VMs leave,
\* and no release is refused (policy_simple.go:110-201), for every number of
\* VMs and every order of calls.
THEOREM LedgerImplemented == Spec => ImplementsLedger
BY TotalsInit, TotalsStep, TypeCorrect, Inductive, CountersAreTotals, PTL
DEF Spec, ImplementsLedger, Ledger!Spec

-----------------------------------------------------------------------------
(* Pinned CPUs.  A release that was refused would leave its CPUs behind, so  *)
(* this rests on the totals as well.                                         *)

\* A CPU counts as used only while a booked VM has it in its affinity, also
\* after VMs with overlapping affinities (policy_simple.go:155, 186).
THEOREM PinsExplained == Spec => []NoPhantomPins
<1>1. Init => NoPhantomPins
  BY DEF Init, NewSimplePolicy, Policy, NoPhantomPins
<1>2. NoPhantomPins /\ IInv /\ Totals /\ TypeOK' /\ [Next]_vars => NoPhantomPins'
  <2> SUFFICES ASSUME NoPhantomPins, IInv, Totals, TypeOK', [Next]_vars,
                      NEW c \in policy'.usedCPUs
               PROVE  \E w \in VM : vms'[w] # NoVM /\ c \in vms'[w].cpuset \ ReservedCPUs
    BY DEF NoPhantomPins, PinnedCPUs, Pinned, Booked
  <2> DEFINE Has(w) == vms[w] # NoVM /\ c \in vms[w].cpuset \ ReservedCPUs
  <2>0. TypeOK /\ (c \in policy.usedCPUs => \E w \in VM : Has(w))
    BY DEF NoPhantomPins, PinnedCPUs, Pinned, Booked, IInv
  <2>1. ASSUME NEW v \in VM, NEW size \in VMSizes, Allocate(v, size)
        PROVE  \E w \in VM : Has(w)'
    <3>1. policy'.usedCPUs = policy.usedCPUs
      BY <2>1 DEF Allocate, Allocated, Assign, Policy
    <3>2. PICK w \in VM : Has(w)
      BY <2>0, <3>1
    <3>3. vms'[w] = vms[w]
      BY <2>0, <2>1, <3>2 DEF Allocate, TypeOK
    <3> QED BY <3>2, <3>3
  <2>2. ASSUME NEW v \in VM, NEW size \in VMSizes, NEW cpuset \in SUBSET HostCPUs,
               AllocateOrUpdate(v, size, cpuset)
        PROVE  \E w \in VM : Has(w)'
    <3> DEFINE op == Resources(size, cpuset)
    <3>1. /\ vms[v] = NoVM /\ vms' = [vms EXCEPT ![v] = op]
          /\ policy' = AllocatedOrUpdated(policy, op) /\ op.cpuset = cpuset
      BY <2>2 DEF AllocateOrUpdate, Resources
    <3>2. op \in Op
      BY ResourcesType
    <3> HIDE DEF op
    <3>3. CASE c \in policy.usedCPUs
      <4>1. PICK w \in VM : Has(w)
        BY <2>0, <3>3
      <4>2. vms'[w] = vms[w]
        BY <2>0, <3>1, <4>1 DEF TypeOK
      <4> QED BY <4>1, <4>2
    <3>4. CASE c \notin policy.usedCPUs
      <4>1. c \in cpuset \ ReservedCPUs
        BY <3>1, <3>4 DEF AllocatedOrUpdated, Pin, Assign, Policy
      <4>2. vms'[v] = op /\ vms'[v] # NoVM
        BY <2>0, <3>1, <3>2, NoVMAssumption DEF TypeOK
      <4> QED BY <3>1, <4>1, <4>2
    <3> QED BY <3>3, <3>4
  <2>3. ASSUME NEW v \in VM, Release(v)
        PROVE  \E w \in VM : Has(w)'
    <3>1. v \in Booked /\ vms[v] \in Op
      BY <2>0, <2>3 DEF Release, Booked, TypeOK
    <3>2. policy' = Released(policy, vms[v])
      BY <2>0, <2>3, <3>1, ReleaseNotRefused DEF Release
    <3>3. c \in policy.usedCPUs /\ c \notin vms[v].cpuset \ ReservedCPUs
      BY <3>2 DEF Released, Unpin, Assign, Policy
    <3>4. PICK w \in VM : Has(w)
      BY <2>0, <3>3
    <3>5. vms'[w] = vms[w]
      BY <2>0, <2>3, <3>3, <3>4 DEF Release, TypeOK
    <3> QED BY <3>4, <3>5
  <2>4. CASE UNCHANGED vars
    BY <2>0, <2>4 DEF vars
  <2> QED BY <2>1, <2>2, <2>3, <2>4 DEF Next
<1> QED BY <1>1, <1>2, TypeCorrect, Inductive, CountersAreTotals, PTL DEF Spec

=============================================================================
