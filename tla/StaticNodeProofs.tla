-------------------------- MODULE StaticNodeProofs --------------------------
(***************************************************************************)
(* What holds of a node under the `static` policy for every topology,      *)
(* every set of VMs and every size of VM.                                  *)
(***************************************************************************)
EXTENDS StaticNode, Bookings, FiniteSetTheorems, TLAPS

-------------------------------------------------------------------------------
(* Totals of bookings: the units of a table are counted.                    *)

\* The units of one key.
LEMMA UnitsOfOne ==
    ASSUME NEW k, NEW n \in Nat
    PROVE  /\ IsFiniteSet({k} \X (0..(n - 1)))
           /\ Cardinality({k} \X (0..(n - 1))) = n
<1>1. IsFiniteSet({k}) /\ Cardinality({k}) = 1
  BY FS_Singleton
<1>2. IsFiniteSet(0..(n - 1)) /\ Cardinality(0..(n - 1)) = n
  BY FS_Interval
<1> QED BY <1>1, <1>2, FS_Product

\* Two disjoint sets.
LEMMA UnionOfTwo ==
    ASSUME NEW A, NEW B, IsFiniteSet(A), IsFiniteSet(B), A \cap B = {}
    PROVE  /\ IsFiniteSet(A \cup B) /\ Cardinality(A) \in Nat
           /\ Cardinality(A \cup B) = Cardinality(A) + Cardinality(B)
<1>1. Cardinality(A) \in Nat /\ Cardinality(B) \in Nat
  BY FS_CardinalityType
<1>2. Cardinality(A \cap B) = 0
  BY FS_EmptySet
<1>3. IsFiniteSet(A \cup B) /\ Cardinality(A \cup B) = Cardinality(A) + Cardinality(B) - Cardinality(A \cap B)
  BY FS_Union
<1> QED BY <1>1, <1>2, <1>3

\* The total over no keys is zero.
LEMMA TotalEmpty ==
    ASSUME NEW f
    PROVE  IsTotal(f, {}, 0)
<1>1. Units(f, {}) = {}
  BY DEF Units
<1> QED BY <1>1, FS_EmptySet DEF IsTotal

\* A table has the units of one key and those of the others.
LEMMA UnitsSplit ==
    ASSUME NEW S, NEW f, NEW g, NEW k \in S, f[k] \in Nat,
           \A j \in S \ {k} : g[j] = f[j]
    PROVE  /\ Units(f, S) = Units(g, S \ {k}) \cup ({k} \X (0..(f[k] - 1)))
           /\ Units(g, S \ {k}) \cap ({k} \X (0..(f[k] - 1))) = {}
<1>1. \A n \in Nat : n < f[k] <=> n \in 0..(f[k] - 1)
  OBVIOUS
<1>2. \A n : n \in 0..(f[k] - 1) => n \in Nat
  OBVIOUS
<1> QED BY <1>1, <1>2 DEF Units

\* A new entry adds its value to the total.
LEMMA TotalBooked ==
    ASSUME NEW S, NEW f, NEW g, NEW total, IsTotal(f, S, total),
           NEW k, k \notin S, g[k] \in Nat, \A j \in S : g[j] = f[j] /\ f[j] \in Nat
    PROVE  IsTotal(g, S \cup {k}, total + g[k])
<1> DEFINE A == Units(f, S)
           B == {k} \X (0..(g[k] - 1))
           S2 == S \cup {k}
<1>1. k \in S2 /\ S2 \ {k} = S /\ \A j \in S2 \ {k} : f[j] = g[j]
  OBVIOUS
<1> HIDE DEF S2
<1>2. Units(g, S2) = A \cup B /\ A \cap B = {}
  <2>1. /\ Units(g, S2) = Units(f, S2 \ {k}) \cup ({k} \X (0..(g[k] - 1)))
        /\ Units(f, S2 \ {k}) \cap ({k} \X (0..(g[k] - 1))) = {}
    BY <1>1, UnitsSplit
  <2> QED BY <1>1, <2>1
<1>3. IsFiniteSet(A) /\ Cardinality(A) = total /\ IsFiniteSet(B) /\ Cardinality(B) = g[k]
  BY UnitsOfOne DEF IsTotal
<1> HIDE DEF A, B
<1>4. IsFiniteSet(A \cup B) /\ Cardinality(A \cup B) = total + g[k]
  BY <1>2, <1>3, UnionOfTwo
<1> QED BY <1>2, <1>4 DEF IsTotal, S2

\* An entry that is removed leaves the total of the others ...
LEMMA TotalReleased ==
    ASSUME NEW S, NEW f, NEW g, NEW total, IsTotal(f, S, total),
           NEW k \in S, f[k] \in Nat, \A j \in S \ {k} : g[j] = f[j]
    PROVE  IsTotal(g, S \ {k}, total - f[k])
<1> DEFINE A == Units(g, S \ {k})
           B == {k} \X (0..(f[k] - 1))
<1>1. Units(f, S) = A \cup B /\ A \cap B = {}
  BY UnitsSplit
<1>2. IsFiniteSet(A \cup B) /\ Cardinality(A \cup B) = total
  BY <1>1 DEF IsTotal
<1>3. IsFiniteSet(B) /\ Cardinality(B) = f[k]
  BY UnitsOfOne
<1> HIDE DEF A, B
<1>4. IsFiniteSet(A)
  BY <1>2, FS_Subset
<1>5. Cardinality(A) = total - f[k]
  BY <1>1, <1>2, <1>3, <1>4, UnionOfTwo
<1> QED BY <1>4, <1>5 DEF IsTotal, A

\* ... and did not exceed it.
LEMMA TotalBound ==
    ASSUME NEW S, NEW f, NEW total, IsTotal(f, S, total), NEW k \in S, f[k] \in Nat
    PROVE  total \in Nat /\ f[k] <= total
<1>1. IsTotal(f, S \ {k}, total - f[k])
  BY TotalReleased
<1> QED BY <1>1, FS_CardinalityType DEF IsTotal

\* A total depends only on the entries of its keys.
LEMMA TotalSame ==
    ASSUME NEW S, NEW f, NEW g, NEW total, IsTotal(f, S, total), \A j \in S : g[j] = f[j]
    PROVE  IsTotal(g, S, total)
<1>1. Units(g, S) = Units(f, S)
  BY DEF Units
<1> QED BY <1>1 DEF IsTotal

\* Over a finite set the recursion has only one solution: a smallest set on
\* which two differ, if there were one, would have a smaller one.
LEMMA RecursionUnique ==
    ASSUME NEW S, IsFiniteSet(S), NEW f, NEW sub, NEW iter,
           Recursion(f, S, sub), Recursion(f, S, iter)
    PROVE  iter[S] = sub[S]
<1> DEFINE Differ == {s \in SUBSET S : iter[s] # sub[s]}
<1>1. SUFFICES ASSUME Differ # {} PROVE FALSE
  OBVIOUS
<1>2. IsWellFoundedOn(StrictSubsetOrdering(S), SUBSET S)
  BY FS_StrictSubsetOrderingWellFounded, FS_FiniteSubsetsOfFinite
<1>3. PICK s \in Differ : \A t \in Differ : ~(<<t, s>> \in StrictSubsetOrdering(S))
  BY <1>1, <1>2, WFMin
<1>4. s # {}
  <2>1. iter[{}] = 0 /\ sub[{}] = 0
    BY DEF Recursion
  <2> QED BY <1>3, <2>1
<1>5. First(s) \in s
  BY <1>4 DEF First
<1>6. PICK x \in s : x = First(s)
  BY <1>5
<1>7. <<s \ {x}, s>> \in StrictSubsetOrdering(S)
  BY DEF StrictSubsetOrdering
<1>8. iter[s \ {x}] = sub[s \ {x}]
  BY <1>3, <1>7
<1>9. iter[s] = f[x] + iter[s \ {x}] /\ sub[s] = f[x] + sub[s \ {x}]
  BY <1>4, <1>6 DEF Recursion
<1> QED BY <1>3, <1>8, <1>9

\* Counting the units of every set of keys solves the recursion.
LEMMA CountSolves ==
    ASSUME NEW S, NEW f, NEW total, IsTotal(f, S, total)
    PROVE  Recursion(f, S, [s \in SUBSET S |-> Cardinality(Units(f, s))])
<1> DEFINE sub == [s \in SUBSET S |-> Cardinality(Units(f, s))]
<1>1. ASSUME NEW s \in SUBSET S PROVE IsTotal(f, s, sub[s])
  <2>1. Units(f, s) \subseteq Units(f, S)
    BY DEF Units
  <2>2. IsFiniteSet(Units(f, s))
    BY <2>1, FS_Subset DEF IsTotal
  <2> QED BY <2>2 DEF IsTotal
<1>2. ASSUME NEW s \in SUBSET S, s # {} PROVE sub[s] = f[First(s)] + sub[s \ {First(s)}]
  <2>1. First(s) \in s
    BY <1>2 DEF First
  <2>2. PICK x \in s : x = First(s)
    BY <2>1
  <2>3. f[x] \in Nat /\ s \ {x} \in SUBSET S
    BY DEF IsTotal
  <2>4. IsTotal(f, s, sub[s]) /\ IsTotal(f, s \ {x}, sub[s \ {x}])
    BY <1>1, <2>3
  <2> HIDE DEF sub
  <2>5. IsTotal(f, s \ {x}, sub[s] - f[x])
    BY <2>3, <2>4, TotalReleased
  <2>6. sub[s \ {x}] = sub[s] - f[x] /\ sub[s] \in Nat
    BY <2>4, <2>5, FS_CardinalityType DEF IsTotal
  <2>7. sub[s] = f[x] + sub[s \ {x}]
    BY <2>3, <2>6
  <2> QED BY <2>2, <2>7
<1>3. sub[{}] = 0
  <2>1. Units(f, {}) = {}
    BY DEF Units
  <2> QED BY <2>1, FS_EmptySet
<1>4. \A s \in SUBSET S : sub[s] = IF s = {} THEN 0 ELSE f[First(s)] + sub[s \ {First(s)}]
  BY <1>2, <1>3
<1> DEFINE rhs == [s \in SUBSET S |-> IF s = {} THEN 0 ELSE f[First(s)] + sub[s \ {First(s)}]]
<1>5. sub = rhs
  BY <1>4
<1> QED BY <1>5 DEF Recursion

\* The total of a finite table of numbers is what SumFunction computes from it.
LEMMA TotalIsSum ==
    ASSUME NEW S, IsFiniteSet(S), NEW f, DOMAIN f = S, \A k \in S : f[k] \in Nat,
           NEW total, IsTotal(f, S, total)
    PROVE  SumFunction(f) = total
<1> DEFINE sub == [s \in SUBSET S |-> Cardinality(Units(f, s))]
           iter == CHOOSE iter : Recursion(f, S, iter)
<1>1. sub[S] = total
  BY DEF IsTotal
<1>2. Recursion(f, S, sub)
  BY CountSolves
<1> HIDE DEF sub
<1>3. Recursion(f, S, iter)
  BY <1>2
<1>4. SumFunctionOnSet(f, S) = iter[S]
  BY Zenon DEF SumFunctionOnSet, FoldFunctionOnSet, MapThenFoldSet, Recursion, First
<1> HIDE DEF iter
<1>5. iter[S] = sub[S]
  BY <1>2, <1>3, RecursionUnique
<1>6. SumFunction(f) = SumFunctionOnSet(f, S)
  BY DEF SumFunction
<1> QED BY <1>1, <1>4, <1>5, <1>6

-------------------------------------------------------------------------------
\* The types of the two parts of a static policy.
CoreType ==
    [ availableCPUs  : SUBSET (HostCPUs \ ReservedCPUs),
      usedCPUs       : SUBSET (HostCPUs \ ReservedCPUs),
      assignedCPUs   : Nat,
      assignedMemory : Nat ]

PolicyType == [core : CoreType, numaNodes : [NUMANodes -> Nat]]

-----------------------------------------------------------------------------
(* The operators of the policy *)

\* A request built from a size, an affinity and a NUMA binding is valid.
LEMMA ResourcesType ==
    ASSUME NEW size \in VMSizes, NEW cpuset \in SUBSET HostCPUs,
           NEW numa \in [NUMANodes -> Nat]
    PROVE  Resources(size, cpuset, numa) \in Op
BY NodeAssumption DEF Resources, Op

\* A new policy has the type of a policy (NewStaticPolicy).
LEMMA NewPolicyType == NewStaticPolicy \in PolicyType
<1>1. NewSimplePolicy \in CoreType
  BY NodeAssumption DEF NewSimplePolicy, Policy, CoreType
<1> QED BY <1>1, TopologyAssumption DEF NewStaticPolicy, PolicyType

\* The CPUs that takeByTopology returns are free, allocatable CPUs.
LEMMA GrantsAreFree ==
    ASSUME NEW p \in PolicyType, NEW op \in Op, NEW cpus \in Grants(p, op)
    PROVE  /\ cpus \subseteq p.core.availableCPUs
           /\ cpus \subseteq HostCPUs \ ReservedCPUs
           /\ cpus # {}
<1>1. /\ cpus \subseteq OfferedCPUs(p, op)
      /\ Cardinality(cpus) = op.cpus \/ Cardinality(cpus) \in 1..op.cpus
  BY DEF Grants
<1>2. cpus \subseteq p.core.availableCPUs
  BY <1>1 DEF OfferedCPUs
<1>3. p.core.availableCPUs \subseteq HostCPUs \ ReservedCPUs
  BY DEF PolicyType, CoreType
<1>4. cpus # {}
  BY <1>1, FS_EmptySet DEF Op
<1> QED BY <1>2, <1>3, <1>4

\* The request that Allocate hands back is a valid one.
LEMMA GrantedType ==
    ASSUME NEW op \in Op, NEW cpus \in SUBSET HostCPUs
    PROVE  Granted(op, cpus) \in Op
<1> DEFINE numa == [i \in NUMANodes |->
                      IF CPUsInNUMANode[i] \cap cpus # {} THEN op.memory ELSE 0]
<1>1. op.memory \in Nat \ {0} /\ op.cpus \in Nat \ {0}
  BY DEF Op
<1>2. numa \in [NUMANodes -> Nat]
  BY <1>1
<1> HIDE DEF numa
<1>3. [cpus |-> op.cpus, cpuset |-> cpus, memory |-> op.memory, numa |-> numa] \in Op
  BY <1>1, <1>2 DEF Op
<1> QED BY <1>3 DEF Granted, numa

\* A NUMA node that is charged with the memory of a placed VM has that memory:
\* a CPU of the VM is on no other node than the one that offered it.
LEMMA GrantedFitsNUMA ==
    ASSUME NEW p \in PolicyType, NEW op \in Op, NEW cpus \in Grants(p, op),
           NEW i \in NUMANodes
    PROVE  Granted(op, cpus).numa[i] <= p.numaNodes[i]
<1>1. p.numaNodes[i] \in Nat /\ op.memory \in Nat
  BY DEF PolicyType, Op
<1>2. CASE CPUsInNUMANode[i] \cap cpus = {}
  BY <1>1, <1>2 DEF Granted
<1>3. CASE CPUsInNUMANode[i] \cap cpus # {}
  <2>1. PICK c \in cpus : c \in CPUsInNUMANode[i]
    BY <1>3
  <2>2. c \in CandidateCPUs(p, op)
    BY <2>1 DEF Grants, OfferedCPUs
  <2>3. PICK j \in NUMANodes : p.numaNodes[j] >= op.memory /\ c \in CPUsInNUMANode[j]
    BY <2>2 DEF CandidateCPUs
  <2>4. i = j
    BY <2>1, <2>3, TopologyAssumption
  <2>5. Granted(op, cpus).numa[i] = op.memory
    BY <1>3 DEF Granted
  <2> QED BY <1>1, <2>3, <2>4, <2>5
<1> QED BY <1>2, <1>3

\* Charging what the NUMA nodes have leaves no negative amount.
LEMMA ChargedType ==
    ASSUME NEW numaNodes \in [NUMANodes -> Nat], NEW op \in Op,
           \A i \in NUMANodes : op.numa[i] <= numaNodes[i]
    PROVE  Charged(numaNodes, op) \in [NUMANodes -> Nat]
<1>1. \A i \in NUMANodes : op.numa[i] \in Nat /\ numaNodes[i] \in Nat
  BY DEF Op
<1>2. \A i \in NUMANodes : numaNodes[i] - op.numa[i] \in Nat
  BY <1>1
<1> QED BY <1>2 DEF Charged

\* Giving memory back to the NUMA nodes keeps their type.
LEMMA UnchargedType ==
    ASSUME NEW numaNodes \in [NUMANodes -> Nat], NEW op \in Op
    PROVE  Uncharged(numaNodes, op) \in [NUMANodes -> Nat]
<1>1. \A i \in NUMANodes : op.numa[i] \in Nat /\ numaNodes[i] \in Nat
  BY DEF Op
<1>2. \A i \in NUMANodes : numaNodes[i] + op.numa[i] \in Nat
  BY <1>1
<1> QED BY <1>2 DEF Uncharged

\* Allocate keeps the type of the policy.
LEMMA AllocatedType ==
    ASSUME NEW p \in PolicyType, NEW op \in Op, NEW cpus \in Grants(p, op)
    PROVE  StaticAllocated(p, Granted(op, cpus)) \in PolicyType
<1> DEFINE g == Granted(op, cpus)
<1>1. cpus \subseteq HostCPUs \ ReservedCPUs
  BY GrantsAreFree
<1>2. g \in Op /\ g.cpuset = cpus
  BY <1>1, GrantedType DEF Granted
<1>3. \A i \in NUMANodes : g.numa[i] <= p.numaNodes[i]
  BY GrantedFitsNUMA
<1> HIDE DEF g
<1>4. Charged(p.numaNodes, g) \in [NUMANodes -> Nat]
  BY <1>2, <1>3, ChargedType DEF PolicyType
<1>5. Policy(p.core.availableCPUs \ g.cpuset, p.core.usedCPUs \cup g.cpuset,
             p.core.assignedCPUs, p.core.assignedMemory + g.memory) \in CoreType
  BY <1>1, <1>2 DEF PolicyType, CoreType, Policy, Op
<1>6. StaticAllocated(p, g) \in PolicyType
  BY <1>4, <1>5 DEF StaticAllocated, PolicyType
<1> QED BY <1>6 DEF g

\* AllocateOrUpdate keeps the type of the policy.
LEMMA AllocatedOrUpdatedType ==
    ASSUME NEW p \in PolicyType, NEW op \in Op, StaticCanAllocateOrUpdate(p, op)
    PROVE  StaticAllocatedOrUpdated(p, op) \in PolicyType
<1>1. \A i \in NUMANodes : op.numa[i] <= p.numaNodes[i]
  BY DEF StaticCanAllocateOrUpdate, NUMAFits
<1>2. Charged(p.numaNodes, op) \in [NUMANodes -> Nat]
  BY <1>1, ChargedType DEF PolicyType
<1>3. AllocatedOrUpdated(p.core, op) \in CoreType
  BY DEF PolicyType, CoreType, Op, AllocatedOrUpdated, Pin, Assign, Policy
<1> QED BY <1>2, <1>3 DEF StaticAllocatedOrUpdated, PolicyType

\* A Release that is not refused keeps the type of the policy.
LEMMA ReleasedType ==
    ASSUME NEW p \in PolicyType, NEW op \in Op, StaticCanRelease(p, op)
    PROVE  StaticReleased(p, op) \in PolicyType
<1>1. Uncharged(p.numaNodes, op) \in [NUMANodes -> Nat]
  BY UnchargedType DEF PolicyType
<1>2. Released(p.core, op) \in CoreType
  BY DEF PolicyType, CoreType, Op, Released, Unpin, Assign, Policy,
         StaticCanRelease, CanRelease
<1> QED BY <1>1, <1>2 DEF StaticReleased, PolicyType

-----------------------------------------------------------------------------
(* Type correctness *)

\* Every reachable state of the node has the declared types.  In particular the
\* free memory of a NUMA node, a uint64 in the code, never drops below zero
\* (policy_static.go:204-206, 268-270).
THEOREM TypeCorrect == Spec => []TypeOK
<1>1. Init => TypeOK
  BY NewPolicyType DEF Init, TypeOK, PolicyType, CoreType
<1>2. TypeOK /\ [Next]_vars => TypeOK'
  <2> SUFFICES ASSUME TypeOK, [Next]_vars
               PROVE  TypeOK'
    OBVIOUS
  <2>0. policy \in PolicyType /\ vms \in [VM -> Op \cup {NoVM}] /\ placed \subseteq Booked
    BY DEF TypeOK, PolicyType, CoreType
  <2> SUFFICES policy' \in PolicyType /\ vms' \in [VM -> Op \cup {NoVM}] /\ placed' \subseteq Booked'
    BY DEF TypeOK, PolicyType, CoreType
  <2>1. ASSUME NEW v \in VM, NEW size \in VMSizes, NEW cpus \in SUBSET AllCPUs,
               Allocate(v, size, cpus)
        PROVE  policy' \in PolicyType /\ vms' \in [VM -> Op \cup {NoVM}] /\ placed' \subseteq Booked'
    <3> DEFINE op == Resources(size, {}, NoNUMA)
               g == Granted(op, cpus)
    <3>1. op \in Op
      BY ResourcesType DEF NoNUMA
    <3>2. cpus \in Grants(policy, op) /\ cpus \subseteq HostCPUs
      BY <2>0, <2>1, <3>1, GrantsAreFree DEF Allocate
    <3>3. policy' = StaticAllocated(policy, g) /\ vms' = [vms EXCEPT ![v] = g]
          /\ placed' = placed \cup {v}
      BY <2>1 DEF Allocate
    <3> HIDE DEF op
    <3>4. policy' \in PolicyType
      BY <2>0, <3>1, <3>2, <3>3, AllocatedType
    <3>5. g \in Op
      BY <3>1, <3>2, GrantedType
    <3> HIDE DEF g
    <3> QED BY <2>0, <3>3, <3>4, <3>5, NoVMAssumption DEF Booked
  <2>2. ASSUME NEW v \in VM, NEW size \in VMSizes, NEW cpuset \in SUBSET HostCPUs,
               NEW numa \in [NUMANodes -> 0..size.memory],
               AllocateOrUpdate(v, size, cpuset, numa)
        PROVE  policy' \in PolicyType /\ vms' \in [VM -> Op \cup {NoVM}] /\ placed' \subseteq Booked'
    <3> DEFINE op == Resources(size, cpuset, numa)
    <3>1. op \in Op
      BY ResourcesType, NodeAssumption
    <3>2. /\ StaticCanAllocateOrUpdate(policy, op)
          /\ policy' = StaticAllocatedOrUpdated(policy, op)
          /\ vms' = [vms EXCEPT ![v] = op] /\ placed' = placed
      BY <2>2 DEF AllocateOrUpdate
    <3> HIDE DEF op
    <3>3. policy' \in PolicyType
      BY <2>0, <3>1, <3>2, AllocatedOrUpdatedType
    <3> QED BY <2>0, <3>1, <3>2, <3>3, NoVMAssumption DEF Booked
  <2>3. ASSUME NEW v \in VM, Release(v)
        PROVE  policy' \in PolicyType /\ vms' \in [VM -> Op \cup {NoVM}] /\ placed' \subseteq Booked'
    <3>1. vms[v] \in Op
      BY <2>0, <2>3 DEF Release, Booked
    <3>2. policy' \in PolicyType
      BY <2>0, <2>3, <3>1, ReleasedType DEF Release
    <3> QED BY <2>0, <2>3, <3>2 DEF Release, Booked
  <2>4. CASE UNCHANGED vars
    BY <2>0, <2>4 DEF vars, Booked
  <2> QED BY <2>1, <2>2, <2>3, <2>4 DEF Next
<1> QED BY <1>1, <1>2, PTL DEF Spec

-----------------------------------------------------------------------------
(* What a call does, apart from the CPUs it picks.  Every step books one VM  *)
(* with a request that has the memory to spare, or releases one.             *)

\* CPUs that a request takes from the common pool.
CountedCPUs(op) == IF op.cpuset = {} THEN op.cpus ELSE 0

\* The call books v with op, and adds what op says to the counters.
Books(v, op) ==
    /\ op \in Op
    /\ vms[v] = NoVM
    /\ vms' = [vms EXCEPT ![v] = op]
    /\ MemoryFits(policy.core, op)
    /\ policy'.core.assignedMemory = policy.core.assignedMemory + op.memory
    /\ policy'.core.assignedCPUs = policy.core.assignedCPUs + CountedCPUs(op)
    /\ policy'.core.availableCPUs = policy.core.availableCPUs \ (op.cpuset \ ReservedCPUs)
    /\ policy'.core.usedCPUs = policy.core.usedCPUs \cup (op.cpuset \ ReservedCPUs)
    /\ policy'.numaNodes = Charged(policy.numaNodes, op)

\* The call takes v from the table, and gives back what it was booked with.
Drops(v) ==
    /\ v \in Booked
    /\ vms' = [vms EXCEPT ![v] = NoVM]
    /\ policy'.core.assignedMemory = policy.core.assignedMemory - vms[v].memory
    /\ policy'.core.assignedCPUs = policy.core.assignedCPUs - CountedCPUs(vms[v])
    /\ policy'.core.availableCPUs = policy.core.availableCPUs \cup (vms[v].cpuset \ ReservedCPUs)
    /\ policy'.core.usedCPUs = policy.core.usedCPUs \ (vms[v].cpuset \ ReservedCPUs)
    /\ policy'.numaNodes = Uncharged(policy.numaNodes, vms[v])

\* Allocate books the VM with the CPUs that takeByTopology returned, all free.
LEMMA AllocateBooks ==
    ASSUME TypeOK, NEW v \in VM, NEW size \in VMSizes, NEW cpus \in SUBSET AllCPUs,
           Allocate(v, size, cpus)
    PROVE  \E op \in Op : /\ Books(v, op)
                          /\ op.cpuset \subseteq policy.core.availableCPUs
                          /\ placed' = placed \cup {v}
<1> DEFINE req == Resources(size, {}, NoNUMA)
           op == Granted(req, cpus)
<1>0. policy \in PolicyType
  BY DEF TypeOK, PolicyType, CoreType
<1>1. req \in Op /\ req.memory = size.memory
  BY ResourcesType DEF NoNUMA, Resources
<1>2. /\ vms[v] = NoVM /\ cpus \in Grants(policy, req)
      /\ MemoryFits(policy.core, req)
      /\ policy' = StaticAllocated(policy, op) /\ vms' = [vms EXCEPT ![v] = op]
      /\ placed' = placed \cup {v}
  BY DEF Allocate, StaticCanAllocate, CanAllocate
<1> HIDE DEF req
<1>3. /\ cpus \subseteq policy.core.availableCPUs /\ cpus # {}
      /\ cpus \subseteq HostCPUs \ ReservedCPUs
  BY <1>0, <1>1, <1>2, GrantsAreFree
<1>4. op \in Op /\ op.cpuset = cpus /\ op.memory = req.memory
  BY <1>1, <1>3, GrantedType DEF Granted
<1> HIDE DEF op
<1>5. cpus \ ReservedCPUs = cpus
  BY <1>3
<1>6. MemoryFits(policy.core, op)
  BY <1>2, <1>4 DEF MemoryFits
<1>7. policy.core.assignedCPUs \in Nat
  BY <1>0 DEF PolicyType, CoreType
<1>8. Books(v, op)
  BY <1>2, <1>3, <1>4, <1>5, <1>6, <1>7 DEF Books, StaticAllocated, Policy, CountedCPUs
<1> QED BY <1>2, <1>3, <1>4, <1>8

\* AllocateOrUpdate books the VM with what its owner configured.
LEMMA AllocateOrUpdateBooks ==
    ASSUME TypeOK, NEW v \in VM, NEW size \in VMSizes, NEW cpuset \in SUBSET HostCPUs,
           NEW numa \in [NUMANodes -> 0..size.memory],
           AllocateOrUpdate(v, size, cpuset, numa)
    PROVE  \E op \in Op : /\ Books(v, op)
                          /\ AffinityOverlap \/ op.cpuset \cap policy.core.usedCPUs = {}
                          /\ placed' = placed
<1> DEFINE op == Resources(size, cpuset, numa)
<1>0. policy \in PolicyType
  BY DEF TypeOK, PolicyType, CoreType
<1>1. op \in Op /\ op.cpuset = cpuset
  <2>1. op \in Op
    BY ResourcesType, NodeAssumption
  <2> QED BY <2>1 DEF Resources
<1>2. /\ vms[v] = NoVM /\ MemoryFits(policy.core, op)
      /\ policy' = StaticAllocatedOrUpdated(policy, op)
      /\ vms' = [vms EXCEPT ![v] = op] /\ placed' = placed
  BY DEF AllocateOrUpdate, StaticCanAllocateOrUpdate, CanAllocateOrUpdate
<1> HIDE DEF op
<1>7. AffinityOverlap \/ op.cpuset \cap policy.core.usedCPUs = {}
  BY <1>1, Zenon DEF AllocateOrUpdate
<1>3. policy.core \in CoreType
  BY <1>0 DEF PolicyType
<1>4. /\ policy'.core = AllocatedOrUpdated(policy.core, op)
      /\ policy'.numaNodes = Charged(policy.numaNodes, op)
  BY <1>2 DEF StaticAllocatedOrUpdated
<1>5. CASE op.cpuset = {}
  <2>1. /\ policy'.core = Assign(policy.core, op.cpus, policy.core.assignedMemory + op.memory)
        /\ op.cpuset \ ReservedCPUs = {} /\ CountedCPUs(op) = op.cpus
    BY <1>4, <1>5 DEF AllocatedOrUpdated, CountedCPUs
  <2>2. Books(v, op)
    BY <1>1, <1>2, <1>4, <2>1 DEF Books, Assign, Policy
  <2> QED BY <1>1, <1>2, <1>7, <2>2
<1>6. CASE op.cpuset # {}
  <2>1. /\ policy'.core = Pin(policy.core, op.cpuset, policy.core.assignedMemory + op.memory)
        /\ CountedCPUs(op) = 0
    BY <1>4, <1>6 DEF AllocatedOrUpdated, CountedCPUs
  <2>2. policy.core.assignedCPUs \in Nat
    BY <1>3 DEF CoreType
  <2>3. Books(v, op)
    BY <1>1, <1>2, <1>4, <2>1, <2>2 DEF Books, Pin, Policy
  <2> QED BY <1>1, <1>2, <1>7, <2>3
<1> QED BY <1>5, <1>6

\* A release that is not refused gives everything back.
LEMMA ReleaseDrops ==
    ASSUME TypeOK, NEW v \in VM, Release(v), StaticCanRelease(policy, vms[v])
    PROVE  Drops(v)
<1>0. policy \in PolicyType
  BY DEF TypeOK, PolicyType, CoreType
<1>1. /\ v \in Booked /\ vms' = [vms EXCEPT ![v] = NoVM]
      /\ policy' = StaticReleased(policy, vms[v])
      /\ vms[v] \in Op
  BY DEF Release, Booked, TypeOK
<1>2. /\ policy'.core = Released(policy.core, vms[v])
      /\ policy'.numaNodes = Uncharged(policy.numaNodes, vms[v])
  BY <1>1 DEF StaticReleased
<1>3. policy.core.assignedCPUs \in Nat
  BY <1>0 DEF PolicyType, CoreType
<1>4. CASE vms[v].cpuset = {}
  <2>1. /\ policy'.core = Assign(policy.core, -vms[v].cpus,
                                 policy.core.assignedMemory - vms[v].memory)
        /\ CountedCPUs(vms[v]) = vms[v].cpus /\ vms[v].cpuset \ ReservedCPUs = {}
        /\ vms[v].cpus \in Nat
    BY <1>1, <1>2, <1>4 DEF Released, CountedCPUs, Op
  <2> QED BY <1>1, <1>2, <1>3, <2>1 DEF Drops, Assign, Policy
<1>5. CASE vms[v].cpuset # {}
  <2>1. /\ policy'.core = Unpin(policy.core, vms[v].cpuset,
                                policy.core.assignedMemory - vms[v].memory)
        /\ CountedCPUs(vms[v]) = 0
    BY <1>2, <1>5 DEF Released, CountedCPUs
  <2> QED BY <1>1, <1>2, <1>3, <2>1 DEF Drops, Unpin, Policy
<1> QED BY <1>4, <1>5

-----------------------------------------------------------------------------
(* Exclusive CPUs.  The pins of the booked VMs are in use and pairwise       *)
(* disjoint, and CPUs in use are not offered.                                *)

PinsInv ==
    /\ policy.core.availableCPUs \cap policy.core.usedCPUs = {}
    /\ \A v \in Booked : PinsOf(v) \subseteq policy.core.usedCPUs
    /\ \A v, w \in Booked : v # w => PinsOf(v) \cap PinsOf(w) = {}

\* Booking CPUs that are not in use keeps the pins apart.
LEMMA BooksKeepsPins ==
    ASSUME TypeOK, PinsInv, NEW v \in VM, NEW op \in Op, Books(v, op),
           (op.cpuset \ ReservedCPUs) \cap policy.core.usedCPUs = {}
    PROVE  PinsInv'
<1>1. vms'[v] = op /\ vms'[v] # NoVM
  BY NoVMAssumption DEF TypeOK, Books
<1>2. \A w \in VM \ {v} : vms'[w] = vms[w]
  BY DEF TypeOK, Books
<1>3. Booked' = Booked \cup {v} /\ v \notin Booked
  BY <1>1, <1>2 DEF Booked, Books
<1>4. PinsOf(v)' = op.cpuset \ ReservedCPUs
  BY <1>1 DEF PinsOf
<1>5. \A w \in Booked : PinsOf(w)' = PinsOf(w)
  BY <1>2, <1>3 DEF PinsOf, Booked
<1>6. /\ policy'.core.availableCPUs = policy.core.availableCPUs \ (op.cpuset \ ReservedCPUs)
      /\ policy'.core.usedCPUs = policy.core.usedCPUs \cup (op.cpuset \ ReservedCPUs)
  BY DEF Books
<1>7. (policy.core.availableCPUs \cap policy.core.usedCPUs = {})'
  BY <1>6 DEF PinsInv
<1>8. \A w \in Booked' : PinsOf(w)' \subseteq policy'.core.usedCPUs
  BY <1>3, <1>4, <1>5, <1>6 DEF PinsInv
<1>9. ASSUME NEW x \in Booked', NEW w \in Booked', x # w
      PROVE  PinsOf(x)' \cap PinsOf(w)' = {}
  <2>1. CASE x = v
    BY <1>3, <1>4, <1>5, <1>9, <2>1 DEF PinsInv
  <2>2. CASE w = v
    BY <1>3, <1>4, <1>5, <1>9, <2>2 DEF PinsInv
  <2>3. CASE x # v /\ w # v
    BY <1>3, <1>5, <1>9, <2>3 DEF PinsInv
  <2> QED BY <2>1, <2>2, <2>3
<1> QED BY <1>7, <1>8, <1>9 DEF PinsInv

\* Taking a VM away, whether or not the policy accepts it, keeps them apart.
LEMMA ReleaseKeepsPins ==
    ASSUME TypeOK, PinsInv, NEW v \in VM, Release(v)
    PROVE  PinsInv'
<1>1. vms' = [vms EXCEPT ![v] = NoVM] /\ v \in Booked
  BY DEF Release
<1>2. Booked' = Booked \ {v} /\ \A w \in Booked \ {v} : PinsOf(w)' = PinsOf(w)
  BY <1>1 DEF Booked, PinsOf, TypeOK
<1>3. \/ /\ policy'.core.availableCPUs = policy.core.availableCPUs \cup PinsOf(v)
         /\ policy'.core.usedCPUs = policy.core.usedCPUs \ PinsOf(v)
      \/ policy' = policy
  BY ReleaseDrops DEF Release, Drops, PinsOf
<1> QED BY <1>1, <1>2, <1>3 DEF PinsInv

\* A VM that the policy placed shares no CPU with any other VM, whatever comes
\* and goes (policy_static.go:159-182), if the owners of the VMs that the
\* policy finds on the node keep off CPUs in use.
THEOREM ExclusiveSafe ==
    ASSUME ~AffinityOverlap
    PROVE  Spec => []PlacedExclusive
<1>1. Init => PinsInv
  BY DEF Init, PinsInv, Booked, NewStaticPolicy, NewSimplePolicy, Policy
<1>2. TypeOK /\ PinsInv /\ [Next]_vars => PinsInv'
  <2> SUFFICES ASSUME TypeOK, PinsInv, [Next]_vars
               PROVE  PinsInv'
    OBVIOUS
  <2>1. ASSUME NEW v \in VM, NEW size \in VMSizes, NEW cpus \in SUBSET AllCPUs,
               Allocate(v, size, cpus)
        PROVE  PinsInv'
    <3>1. PICK op \in Op : Books(v, op) /\ op.cpuset \subseteq policy.core.availableCPUs
      BY <2>1, AllocateBooks
    <3>2. (op.cpuset \ ReservedCPUs) \cap policy.core.usedCPUs = {}
      BY <3>1 DEF PinsInv
    <3> QED BY <3>1, <3>2, BooksKeepsPins
  <2>2. ASSUME NEW v \in VM, NEW size \in VMSizes, NEW cpuset \in SUBSET HostCPUs,
               NEW numa \in [NUMANodes -> 0..size.memory],
               AllocateOrUpdate(v, size, cpuset, numa)
        PROVE  PinsInv'
    <3>1. PICK op \in Op : Books(v, op) /\ op.cpuset \cap policy.core.usedCPUs = {}
      BY <2>2, AllocateOrUpdateBooks
    <3>2. (op.cpuset \ ReservedCPUs) \cap policy.core.usedCPUs = {}
      BY <3>1
    <3> QED BY <3>1, <3>2, BooksKeepsPins
  <2>3. ASSUME NEW v \in VM, Release(v)
        PROVE  PinsInv'
    BY <2>3, ReleaseKeepsPins
  <2>4. CASE UNCHANGED vars
    BY <2>4 DEF vars, PinsInv, PinsOf, Booked
  <2> QED BY <2>1, <2>2, <2>3, <2>4 DEF Next
<1>3. TypeOK /\ PinsInv => PlacedExclusive
  BY DEF TypeOK, PinsInv, PlacedExclusive
<1> QED BY <1>1, <1>2, <1>3, TypeCorrect, PTL DEF Spec

-----------------------------------------------------------------------------
(* The counters and the free memory of every NUMA node are what the bookings *)
(* leave.                                                                    *)

MemoryWithin == policy.core.assignedMemory <= AllocatableMemory

MemoryOf == [v \in VM |-> Entry(v).memory]

CountedOf == [v \in VM |-> Entry(v).cpus]

\* What the booked VMs take from NUMA node i.
ChargeOf(i) == [v \in VM |-> vms[v].numa[i]]

Totals ==
    /\ IsTotal(MemoryOf, Booked, policy.core.assignedMemory)
    /\ IsTotal(CountedOf, Booked, policy.core.assignedCPUs)

NUMATotals ==
    \A i \in NUMANodes :
        IsTotal(ChargeOf(i), Booked, NUMAMemory[i] - policy.numaNodes[i])

AccountInv == MemoryWithin /\ IsFiniteSet(Booked) /\ Totals /\ NUMATotals

\* What the ledger says of a booked VM and of a VM that is not booked.
LEMMA EntryFields ==
    ASSUME TypeOK, NEW v \in VM
    PROVE  /\ vms[v] # NoVM => /\ vms[v] \in Op
                               /\ MemoryOf[v] = vms[v].memory
                               /\ CountedOf[v] = CountedCPUs(vms[v])
           /\ vms[v] = NoVM => MemoryOf[v] = 0 /\ CountedOf[v] = 0
           /\ MemoryOf[v] \in Nat /\ CountedOf[v] \in Nat
           /\ Entry(v) = [memory |-> MemoryOf[v], cpus |-> CountedOf[v]]
BY DEF TypeOK, Op, MemoryOf, CountedOf, CountedCPUs, Entry, Booked

\* The charges of a booked VM are numbers.
LEMMA ChargeFields ==
    ASSUME TypeOK, NEW v \in Booked, NEW i \in NUMANodes
    PROVE  ChargeOf(i)[v] = vms[v].numa[i] /\ ChargeOf(i)[v] \in Nat
<1>1. v \in VM /\ vms[v] \in Op
  BY DEF Booked, TypeOK
<1> QED BY <1>1 DEF Op, ChargeOf

\* Release is never refused: a booked VM gives back no more than is counted
\* (policy_static.go:281-296).
LEMMA ReleaseNotRefused ==
    ASSUME TypeOK, Totals, NEW v \in Booked
    PROVE  StaticCanRelease(policy, vms[v])
<1>1. v \in VM /\ vms[v] # NoVM
  BY DEF Booked
<1>2. /\ MemoryOf[v] = vms[v].memory /\ CountedOf[v] = CountedCPUs(vms[v])
      /\ MemoryOf[v] \in Nat /\ CountedOf[v] \in Nat
  BY <1>1, EntryFields
<1>3. MemoryOf[v] <= policy.core.assignedMemory
  BY <1>2, TotalBound DEF Totals
<1>4. CountedOf[v] <= policy.core.assignedCPUs
  BY <1>2, TotalBound DEF Totals
<1> QED BY <1>2, <1>3, <1>4 DEF StaticCanRelease, CanRelease, CountedCPUs

\* Booking a VM keeps the accounts and is a booking of the ledger.
LEMMA BookStep ==
    ASSUME TypeOK, AccountInv, NEW v \in VM, NEW op \in Op, Books(v, op)
    PROVE  AccountInv' /\ Ledger!Book(v)
<1>1. vms'[v] = op /\ vms'[v] # NoVM /\ vms[v] = NoVM
  BY NoVMAssumption DEF TypeOK, Books
<1>2. \A w \in VM \ {v} : vms'[w] = vms[w]
  BY DEF TypeOK, Books
<1>3. Booked' = Booked \cup {v} /\ v \notin Booked /\ Booked \subseteq VM \ {v}
  BY <1>1, <1>2 DEF Booked
<1>4. \A w \in VM \ {v} : /\ MemoryOf'[w] = MemoryOf[w] /\ CountedOf'[w] = CountedOf[w]
                          /\ Entry(w)' = Entry(w)
  BY <1>2 DEF MemoryOf, CountedOf, Entry, Booked
<1>5. MemoryOf[v] = 0 /\ CountedOf[v] = 0 /\ Entry(v) = [memory |-> 0, cpus |-> 0]
  BY <1>1, EntryFields
<1>6. /\ MemoryOf'[v] = op.memory /\ CountedOf'[v] = CountedCPUs(op)
      /\ Entry(v)' = [memory |-> op.memory, cpus |-> CountedCPUs(op)]
  BY <1>1 DEF Entry, Booked, MemoryOf, CountedOf, CountedCPUs
<1>7. op.memory \in Nat /\ op.memory # 0 /\ CountedCPUs(op) \in Nat
  BY DEF Op, CountedCPUs
<1>8. \A w \in Booked : /\ MemoryOf'[w] = MemoryOf[w] /\ MemoryOf[w] \in Nat
                        /\ CountedOf'[w] = CountedOf[w] /\ CountedOf[w] \in Nat
  BY <1>3, <1>4, EntryFields
<1>9. /\ policy.core.assignedMemory \in Nat /\ AllocatableMemory \in Int
      /\ policy.numaNodes \in [NUMANodes -> Nat]
  BY PolicyAssumption DEF TypeOK, AllocatableMemory
<1>10. Totals'
  <2>1. IsTotal(MemoryOf', Booked \cup {v}, policy.core.assignedMemory + MemoryOf'[v])
    BY <1>3, <1>6, <1>7, <1>8, TotalBooked DEF AccountInv, Totals
  <2>2. IsTotal(CountedOf', Booked \cup {v}, policy.core.assignedCPUs + CountedOf'[v])
    BY <1>3, <1>6, <1>7, <1>8, TotalBooked DEF AccountInv, Totals
  <2> QED BY <1>3, <1>6, <2>1, <2>2 DEF Totals, Books
<1>11. NUMATotals'
  <2> SUFFICES ASSUME NEW i \in NUMANodes
               PROVE  IsTotal(ChargeOf(i)', Booked', NUMAMemory[i] - policy'.numaNodes[i])
    BY DEF NUMATotals
  <2>1. ChargeOf(i)'[v] = op.numa[i] /\ op.numa[i] \in Nat
    BY <1>1 DEF ChargeOf, Op
  <2>2. \A w \in Booked : ChargeOf(i)'[w] = ChargeOf(i)[w] /\ ChargeOf(i)[w] \in Nat
    <3>1. \A w \in Booked : ChargeOf(i)'[w] = ChargeOf(i)[w]
      BY <1>2, <1>3 DEF ChargeOf
    <3> QED BY <3>1, ChargeFields
  <2>3. IsTotal(ChargeOf(i)', Booked \cup {v},
                NUMAMemory[i] - policy.numaNodes[i] + ChargeOf(i)'[v])
    BY <1>3, <2>1, <2>2, TotalBooked DEF AccountInv, NUMATotals
  <2>4. policy'.numaNodes[i] = policy.numaNodes[i] - op.numa[i]
    BY DEF Books, Charged
  <2>5. NUMAMemory[i] - policy'.numaNodes[i]
           = NUMAMemory[i] - policy.numaNodes[i] + ChargeOf(i)'[v]
    BY <1>9, <2>1, <2>4, TopologyAssumption
  <2> QED BY <1>3, <2>3, <2>5
<1>12. IsFiniteSet(Booked')
  BY <1>3, FS_AddElement DEF AccountInv
<1>13. /\ AvailableMemory(policy.core) = AllocatableMemory - policy.core.assignedMemory
       /\ AvailableMemory(policy'.core)
             = AllocatableMemory - policy.core.assignedMemory - op.memory
       /\ op.memory <= AvailableMemory(policy.core)
       /\ MemoryWithin'
  BY <1>7, <1>9 DEF Books, AvailableMemory, MemoryFits, MemoryWithin
<1>14. Ledger!Book(v)
  <2> DEFINE held == [w \in VM |-> Entry(w)]
             heldNext == [w \in VM |-> Entry(w)']
  <2>1. held[v] = Ledger!Nothing /\ heldNext[v] # Ledger!Nothing
    BY <1>5, <1>6, <1>7 DEF Ledger!Nothing
  <2>2. heldNext = [held EXCEPT ![v] = heldNext[v]]
    BY <1>4
  <2>3. heldNext[v].memory = op.memory /\ heldNext[v].cpus = CountedCPUs(op)
    BY <1>6
  <2>4. /\ heldNext[v].memory <= AvailableMemory(policy.core)
        /\ AvailableMemory(policy'.core) = AvailableMemory(policy.core) - heldNext[v].memory
        /\ policy'.core.assignedCPUs = policy.core.assignedCPUs + heldNext[v].cpus
    BY <1>7, <1>9, <1>13, <2>3 DEF Books
  <2> QED BY <2>1, <2>2, <2>4 DEF Ledger!Book
<1> QED BY <1>10, <1>11, <1>12, <1>13, <1>14 DEF AccountInv

\* Releasing a VM keeps the accounts and is a release of the ledger.
LEMMA DropStep ==
    ASSUME TypeOK, AccountInv, NEW v \in VM, Drops(v)
    PROVE  AccountInv' /\ Ledger!Drop(v)
<1>1. vms'[v] = NoVM /\ vms[v] # NoVM /\ v \in Booked
  BY DEF TypeOK, Drops, Booked
<1>2. \A w \in VM \ {v} : vms'[w] = vms[w]
  BY DEF TypeOK, Drops
<1>3. Booked' = Booked \ {v} /\ Booked \subseteq VM
  BY <1>1, <1>2 DEF Booked
<1>4. \A w \in VM \ {v} : /\ MemoryOf'[w] = MemoryOf[w] /\ CountedOf'[w] = CountedOf[w]
                          /\ Entry(w)' = Entry(w)
  BY <1>2 DEF MemoryOf, CountedOf, Entry, Booked
<1>5. Entry(v)' = [memory |-> 0, cpus |-> 0]
  BY <1>1 DEF Entry, Booked
<1>6. /\ MemoryOf[v] = vms[v].memory /\ CountedOf[v] = CountedCPUs(vms[v])
      /\ MemoryOf[v] \in Nat /\ CountedOf[v] \in Nat
      /\ Entry(v) = [memory |-> MemoryOf[v], cpus |-> CountedOf[v]]
      /\ vms[v] \in Op
  BY <1>1, EntryFields
<1>7. MemoryOf[v] # 0
  BY <1>6 DEF Op
<1>8. \A w \in Booked \ {v} : MemoryOf'[w] = MemoryOf[w] /\ CountedOf'[w] = CountedOf[w]
  BY <1>3, <1>4
<1>9. /\ policy.core.assignedMemory \in Nat /\ AllocatableMemory \in Int
      /\ policy.numaNodes \in [NUMANodes -> Nat]
  BY PolicyAssumption DEF TypeOK, AllocatableMemory
<1>10. Totals'
  <2>1. /\ IsTotal(MemoryOf', Booked \ {v}, policy.core.assignedMemory - MemoryOf[v])
        /\ IsTotal(CountedOf', Booked \ {v}, policy.core.assignedCPUs - CountedOf[v])
    BY <1>1, <1>6, <1>8, TotalReleased DEF AccountInv, Totals
  <2> QED BY <1>3, <1>6, <2>1 DEF Totals, Drops
<1>11. NUMATotals'
  <2> SUFFICES ASSUME NEW i \in NUMANodes
               PROVE  IsTotal(ChargeOf(i)', Booked', NUMAMemory[i] - policy'.numaNodes[i])
    BY DEF NUMATotals
  <2>1. ChargeOf(i)[v] = vms[v].numa[i] /\ ChargeOf(i)[v] \in Nat
    BY <1>1, ChargeFields
  <2>2. \A w \in Booked \ {v} : ChargeOf(i)'[w] = ChargeOf(i)[w]
    BY <1>2, <1>3 DEF ChargeOf
  <2>3. IsTotal(ChargeOf(i)', Booked \ {v},
                NUMAMemory[i] - policy.numaNodes[i] - ChargeOf(i)[v])
    BY <1>1, <2>1, <2>2, TotalReleased DEF AccountInv, NUMATotals
  <2>4. policy'.numaNodes[i] = policy.numaNodes[i] + vms[v].numa[i]
    BY DEF Drops, Uncharged
  <2>5. NUMAMemory[i] - policy'.numaNodes[i]
           = NUMAMemory[i] - policy.numaNodes[i] - ChargeOf(i)[v]
    BY <1>9, <2>1, <2>4, TopologyAssumption
  <2> QED BY <1>3, <2>3, <2>5
<1>12. IsFiniteSet(Booked')
  BY <1>3, FS_RemoveElement DEF AccountInv
<1>13. /\ AvailableMemory(policy.core) = AllocatableMemory - policy.core.assignedMemory
       /\ AvailableMemory(policy'.core)
             = AllocatableMemory - policy.core.assignedMemory + MemoryOf[v]
       /\ MemoryWithin'
  BY <1>6, <1>9 DEF Drops, AvailableMemory, MemoryWithin, AccountInv
<1>14. Ledger!Drop(v)
  <2> DEFINE held == [w \in VM |-> Entry(w)]
             heldNext == [w \in VM |-> Entry(w)']
  <2>1. held[v] # Ledger!Nothing
    BY <1>6, <1>7 DEF Ledger!Nothing
  <2>2. heldNext = [held EXCEPT ![v] = Ledger!Nothing]
    BY <1>4, <1>5 DEF Ledger!Nothing
  <2>3. held[v].memory = MemoryOf[v] /\ held[v].cpus = CountedOf[v]
    BY <1>6
  <2>4. /\ AvailableMemory(policy'.core) = AvailableMemory(policy.core) + held[v].memory
        /\ policy'.core.assignedCPUs = policy.core.assignedCPUs - held[v].cpus
    BY <1>6, <1>9, <1>13, <2>3 DEF Drops
  <2> QED BY <2>1, <2>2, <2>4 DEF Ledger!Drop
<1> QED BY <1>10, <1>11, <1>12, <1>13, <1>14 DEF AccountInv

\* The accounts hold in the initial state, which is the ledger's.
LEMMA AccountInit ==
    ASSUME Init
    PROVE  AccountInv /\ Ledger!Init
<1>1. Booked = {} /\ \A v \in VM : Entry(v) = [memory |-> 0, cpus |-> 0]
  BY DEF Init, Booked, Entry
<1>2. /\ policy.core.assignedMemory = 0 /\ policy.core.assignedCPUs = 0
      /\ policy.numaNodes = NUMAMemory
  BY DEF Init, NewStaticPolicy, NewSimplePolicy, Policy
<1>3. Totals
  BY <1>1, <1>2, TotalEmpty DEF Totals
<1>4. NUMATotals
  <2> SUFFICES ASSUME NEW i \in NUMANodes
               PROVE  IsTotal(ChargeOf(i), Booked, NUMAMemory[i] - policy.numaNodes[i])
    BY DEF NUMATotals
  <2>1. NUMAMemory[i] - policy.numaNodes[i] = 0
    BY <1>2, TopologyAssumption
  <2> QED BY <1>1, <2>1, TotalEmpty
<1>5. AvailableMemory(policy.core) = AllocatableMemory /\ MemoryWithin
  BY <1>2, PolicyAssumption DEF AvailableMemory, AllocatableMemory, MemoryWithin
<1>6. IsFiniteSet(Booked)
  BY <1>1, FS_EmptySet
<1>7. Ledger!Init
  BY <1>1, <1>2, <1>5 DEF Ledger!Init, Ledger!Nothing
<1> QED BY <1>3, <1>4, <1>5, <1>6, <1>7 DEF AccountInv

\* Every call on the policy keeps the accounts and is a step of the ledger.
LEMMA AccountStep ==
    ASSUME TypeOK, AccountInv, [Next]_vars
    PROVE  /\ AccountInv'
           /\ [Ledger!Next]_<<[v \in VM |-> Entry(v)], AvailableMemory(policy.core),
                              policy.core.assignedCPUs>>
<1> DEFINE Promise == AccountInv' /\ \E v \in VM : Ledger!Book(v) \/ Ledger!Drop(v)
<1>1. ASSUME NEW v \in VM, NEW size \in VMSizes, NEW cpus \in SUBSET AllCPUs,
             Allocate(v, size, cpus)
      PROVE  Promise
  BY <1>1, AllocateBooks, BookStep
<1>2. ASSUME NEW v \in VM, NEW size \in VMSizes, NEW cpuset \in SUBSET HostCPUs,
             NEW numa \in [NUMANodes -> 0..size.memory],
             AllocateOrUpdate(v, size, cpuset, numa)
      PROVE  Promise
  BY <1>2, AllocateOrUpdateBooks, BookStep
<1>3. ASSUME NEW v \in VM, Release(v)
      PROVE  Promise
  <2>1. StaticCanRelease(policy, vms[v])
    BY <1>3, ReleaseNotRefused DEF Release, AccountInv
  <2> QED BY <1>3, <2>1, ReleaseDrops, DropStep
<1>4. CASE Next
  <2>1. Promise
    BY <1>1, <1>2, <1>3, <1>4 DEF Next
  <2> QED BY <2>1 DEF Ledger!Next
<1>5. CASE UNCHANGED vars
  <2>1. UNCHANGED <<policy, vms>>
    BY <1>5 DEF vars
  <2>2. UNCHANGED <<Booked, MemoryOf, CountedOf, [v \in VM |-> Entry(v)]>>
    BY <2>1 DEF MemoryOf, CountedOf, Entry, Booked
  <2>3. \A i \in NUMANodes : ChargeOf(i)' = ChargeOf(i)
    BY <2>1 DEF ChargeOf
  <2> QED BY <2>1, <2>2, <2>3 DEF AccountInv, Totals, NUMATotals, MemoryWithin
<1> QED BY <1>4, <1>5

\* Every reachable state satisfies AccountInv.
THEOREM Accounts == Spec => []AccountInv
BY AccountInit, AccountStep, TypeCorrect, PTL DEF Spec

\* The static policy implements the same table of bookings as the simple one:
\* nothing is booked that is not free, what is reported free is what the booked
\* VMs leave, and no release is refused (policy_static.go:141-330).
THEOREM LedgerImplemented == Spec => ImplementsLedger
BY AccountInit, AccountStep, TypeCorrect, Accounts, PTL
DEF Spec, ImplementsLedger, Ledger!Spec

\* The free memory of every NUMA node is its memory less the sum of what the
\* booked VMs are bound to on it, so charges and releases match node by node
\* (policy_static.go:204-206, 268-270, 320-322).
THEOREM NUMAAccountExact == Spec => []NUMAExact
<1>1. TypeOK /\ AccountInv => NUMAExact
  <2> SUFFICES ASSUME TypeOK, AccountInv, NEW i \in NUMANodes
               PROVE  policy.numaNodes[i] + SumFunction([v \in Booked |-> vms[v].numa[i]])
                         = NUMAMemory[i]
    BY DEF NUMAExact
  <2> DEFINE f == [v \in Booked |-> vms[v].numa[i]]
             total == NUMAMemory[i] - policy.numaNodes[i]
  <2>1. IsFiniteSet(Booked) /\ IsTotal(ChargeOf(i), Booked, total)
    BY DEF AccountInv, NUMATotals
  <2>2. \A v \in Booked : f[v] = ChargeOf(i)[v] /\ f[v] \in Nat
    BY ChargeFields
  <2>3. DOMAIN f = Booked
    OBVIOUS
  <2> HIDE DEF f, total
  <2>4. IsTotal(f, Booked, total)
    BY <2>1, <2>2, TotalSame
  <2>5. SumFunction(f) = total
    BY <2>1, <2>2, <2>3, <2>4, TotalIsSum
  <2>6. NUMAMemory[i] \in Nat /\ policy.numaNodes[i] \in Nat
    BY TopologyAssumption DEF TypeOK
  <2> QED BY <2>5, <2>6 DEF f, total
<1> QED BY <1>1, TypeCorrect, Accounts, PTL

=============================================================================
