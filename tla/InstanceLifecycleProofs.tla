---------------------- MODULE InstanceLifecycleProofs ----------------------
(***************************************************************************)
(* Theorems about VMs of NodeClaims: types, ownership and the accounting   *)
(* of the capacity, for any number of claims, IDs, sizes, failures and     *)
(* restarts.                                                               *)
(***************************************************************************)
EXTENDS InstanceLifecycle, Bookings, FiniteSetTheorems, TLAPS

-------------------------------------------------------------------------------
(* Totals of bookings: the units of a table are counted.                    *)

\* The units of one key.
LEMMA UnitsOfOne ==
    ASSUME NEW k, NEW n \in Nat
    PROVE  /\ IsFiniteSet({k} \X (0..(n - 1)))
           /\ Cardinality({k} \X (0..(n - 1))) = n
<1>1. IsFiniteSet({k}) /\ Cardinality({k}) = 1
  BY FS_Singleton
<1>2. IsFiniteSet(0..(n - 1)) /\ Cardinality(0..(n - 1)) = n
  BY FS_Interval
<1> QED BY <1>1, <1>2, FS_Product

\* Two disjoint sets.
LEMMA UnionOfTwo ==
    ASSUME NEW A, NEW B, IsFiniteSet(A), IsFiniteSet(B), A \cap B = {}
    PROVE  /\ IsFiniteSet(A \cup B) /\ Cardinality(A) \in Nat
           /\ Cardinality(A \cup B) = Cardinality(A) + Cardinality(B)
<1>1. Cardinality(A) \in Nat /\ Cardinality(B) \in Nat
  BY FS_CardinalityType
<1>2. Cardinality(A \cap B) = 0
  BY FS_EmptySet
<1>3. IsFiniteSet(A \cup B) /\ Cardinality(A \cup B) = Cardinality(A) + Cardinality(B) - Cardinality(A \cap B)
  BY FS_Union
<1> QED BY <1>1, <1>2, <1>3

\* The total over no keys is zero.
LEMMA TotalEmpty ==
    ASSUME NEW f
    PROVE  IsTotal(f, {}, 0)
<1>1. Units(f, {}) = {}
  BY DEF Units
<1> QED BY <1>1, FS_EmptySet DEF IsTotal

\* A table has the units of one key and those of the others.
LEMMA UnitsSplit ==
    ASSUME NEW S, NEW f, NEW g, NEW k \in S, f[k] \in Nat,
           \A j \in S \ {k} : g[j] = f[j]
    PROVE  /\ Units(f, S) = Units(g, S \ {k}) \cup ({k} \X (0..(f[k] - 1)))
           /\ Units(g, S \ {k}) \cap ({k} \X (0..(f[k] - 1))) = {}
<1>1. \A n \in Nat : n < f[k] <=> n \in 0..(f[k] - 1)
  OBVIOUS
<1>2. \A n : n \in 0..(f[k] - 1) => n \in Nat
  OBVIOUS
<1> QED BY <1>1, <1>2 DEF Units

\* A new entry adds its value to the total.
LEMMA TotalBooked ==
    ASSUME NEW S, NEW f, NEW g, NEW total, IsTotal(f, S, total),
           NEW k, k \notin S, g[k] \in Nat, \A j \in S : g[j] = f[j] /\ f[j] \in Nat
    PROVE  IsTotal(g, S \cup {k}, total + g[k])
<1> DEFINE A == Units(f, S)
           B == {k} \X (0..(g[k] - 1))
           S2 == S \cup {k}
<1>1. k \in S2 /\ S2 \ {k} = S /\ \A j \in S2 \ {k} : f[j] = g[j]
  OBVIOUS
<1> HIDE DEF S2
<1>2. Units(g, S2) = A \cup B /\ A \cap B = {}
  <2>1. /\ Units(g, S2) = Units(f, S2 \ {k}) \cup ({k} \X (0..(g[k] - 1)))
        /\ Units(f, S2 \ {k}) \cap ({k} \X (0..(g[k] - 1))) = {}
    BY <1>1, UnitsSplit
  <2> QED BY <1>1, <2>1
<1>3. IsFiniteSet(A) /\ Cardinality(A) = total /\ IsFiniteSet(B) /\ Cardinality(B) = g[k]
  BY UnitsOfOne DEF IsTotal
<1> HIDE DEF A, B
<1>4. IsFiniteSet(A \cup B) /\ Cardinality(A \cup B) = total + g[k]
  BY <1>2, <1>3, UnionOfTwo
<1> QED BY <1>2, <1>4 DEF IsTotal, S2

\* An entry that is removed leaves the total of the others ...
LEMMA TotalReleased ==
    ASSUME NEW S, NEW f, NEW g, NEW total, IsTotal(f, S, total),
           NEW k \in S, f[k] \in Nat, \A j \in S \ {k} : g[j] = f[j]
    PROVE  IsTotal(g, S \ {k}, total - f[k])
<1> DEFINE A == Units(g, S \ {k})
           B == {k} \X (0..(f[k] - 1))
<1>1. Units(f, S) = A \cup B /\ A \cap B = {}
  BY UnitsSplit
<1>2. IsFiniteSet(A \cup B) /\ Cardinality(A \cup B) = total
  BY <1>1 DEF IsTotal
<1>3. IsFiniteSet(B) /\ Cardinality(B) = f[k]
  BY UnitsOfOne
<1> HIDE DEF A, B
<1>4. IsFiniteSet(A)
  BY <1>2, FS_Subset
<1>5. Cardinality(A) = total - f[k]
  BY <1>1, <1>2, <1>3, <1>4, UnionOfTwo
<1> QED BY <1>4, <1>5 DEF IsTotal, A

\* ... and did not exceed it.
LEMMA TotalBound ==
    ASSUME NEW S, NEW f, NEW total, IsTotal(f, S, total), NEW k \in S, f[k] \in Nat
    PROVE  total \in Nat /\ f[k] <= total
<1>1. IsTotal(f, S \ {k}, total - f[k])
  BY TotalReleased
<1> QED BY <1>1, FS_CardinalityType DEF IsTotal

\* A total depends only on the entries of its keys.
LEMMA TotalSame ==
    ASSUME NEW S, NEW f, NEW g, NEW total, IsTotal(f, S, total), \A j \in S : g[j] = f[j]
    PROVE  IsTotal(g, S, total)
<1>1. Units(g, S) = Units(f, S)
  BY DEF Units
<1> QED BY <1>1 DEF IsTotal

\* Over a finite set the recursion has only one solution: a smallest set on
\* which two differ, if there were one, would have a smaller one.
LEMMA RecursionUnique ==
    ASSUME NEW S, IsFiniteSet(S), NEW f, NEW sub, NEW iter,
           Recursion(f, S, sub), Recursion(f, S, iter)
    PROVE  iter[S] = sub[S]
<1> DEFINE Differ == {s \in SUBSET S : iter[s] # sub[s]}
<1>1. SUFFICES ASSUME Differ # {} PROVE FALSE
  OBVIOUS
<1>2. IsWellFoundedOn(StrictSubsetOrdering(S), SUBSET S)
  BY FS_StrictSubsetOrderingWellFounded, FS_FiniteSubsetsOfFinite
<1>3. PICK s \in Differ : \A t \in Differ : ~(<<t, s>> \in StrictSubsetOrdering(S))
  BY <1>1, <1>2, WFMin
<1>4. s # {}
  <2>1. iter[{}] = 0 /\ sub[{}] = 0
    BY DEF Recursion
  <2> QED BY <1>3, <2>1
<1>5. First(s) \in s
  BY <1>4 DEF First
<1>6. PICK x \in s : x = First(s)
  BY <1>5
<1>7. <<s \ {x}, s>> \in StrictSubsetOrdering(S)
  BY DEF StrictSubsetOrdering
<1>8. iter[s \ {x}] = sub[s \ {x}]
  BY <1>3, <1>7
<1>9. iter[s] = f[x] + iter[s \ {x}] /\ sub[s] = f[x] + sub[s \ {x}]
  BY <1>4, <1>6 DEF Recursion
<1> QED BY <1>3, <1>8, <1>9

\* Counting the units of every set of keys solves the recursion.
LEMMA CountSolves ==
    ASSUME NEW S, NEW f, NEW total, IsTotal(f, S, total)
    PROVE  Recursion(f, S, [s \in SUBSET S |-> Cardinality(Units(f, s))])
<1> DEFINE sub == [s \in SUBSET S |-> Cardinality(Units(f, s))]
<1>1. ASSUME NEW s \in SUBSET S PROVE IsTotal(f, s, sub[s])
  <2>1. Units(f, s) \subseteq Units(f, S)
    BY DEF Units
  <2>2. IsFiniteSet(Units(f, s))
    BY <2>1, FS_Subset DEF IsTotal
  <2> QED BY <2>2 DEF IsTotal
<1>2. ASSUME NEW s \in SUBSET S, s # {} PROVE sub[s] = f[First(s)] + sub[s \ {First(s)}]
  <2>1. First(s) \in s
    BY <1>2 DEF First
  <2>2. PICK x \in s : x = First(s)
    BY <2>1
  <2>3. f[x] \in Nat /\ s \ {x} \in SUBSET S
    BY DEF IsTotal
  <2>4. IsTotal(f, s, sub[s]) /\ IsTotal(f, s \ {x}, sub[s \ {x}])
    BY <1>1, <2>3
  <2> HIDE DEF sub
  <2>5. IsTotal(f, s \ {x}, sub[s] - f[x])
    BY <2>3, <2>4, TotalReleased
  <2>6. sub[s \ {x}] = sub[s] - f[x] /\ sub[s] \in Nat
    BY <2>4, <2>5, FS_CardinalityType DEF IsTotal
  <2>7. sub[s] = f[x] + sub[s \ {x}]
    BY <2>3, <2>6
  <2> QED BY <2>2, <2>7
<1>3. sub[{}] = 0
  <2>1. Units(f, {}) = {}
    BY DEF Units
  <2> QED BY <2>1, FS_EmptySet
<1>4. \A s \in SUBSET S : sub[s] = IF s = {} THEN 0 ELSE f[First(s)] + sub[s \ {First(s)}]
  BY <1>2, <1>3
<1> DEFINE rhs == [s \in SUBSET S |-> IF s = {} THEN 0 ELSE f[First(s)] + sub[s \ {First(s)}]]
<1>5. sub = rhs
  BY <1>4
<1> QED BY <1>5 DEF Recursion

\* The total of a finite table of numbers is what SumFunction computes from it.
LEMMA TotalIsSum ==
    ASSUME NEW S, IsFiniteSet(S), NEW f, DOMAIN f = S, \A k \in S : f[k] \in Nat,
           NEW total, IsTotal(f, S, total)
    PROVE  SumFunction(f) = total
<1> DEFINE sub == [s \in SUBSET S |-> Cardinality(Units(f, s))]
           iter == CHOOSE iter : Recursion(f, S, iter)
<1>1. sub[S] = total
  BY DEF IsTotal
<1>2. Recursion(f, S, sub)
  BY CountSolves
<1> HIDE DEF sub
<1>3. Recursion(f, S, iter)
  BY <1>2
<1>4. SumFunctionOnSet(f, S) = iter[S]
  BY Zenon DEF SumFunctionOnSet, FoldFunctionOnSet, MapThenFoldSet, Recursion, First
<1> HIDE DEF iter
<1>5. iter[S] = sub[S]
  BY <1>2, <1>3, RecursionUnique
<1>6. SumFunction(f) = SumFunctionOnSet(f, S)
  BY DEF SumFunction
<1> QED BY <1>1, <1>4, <1>5, <1>6

-----------------------------------------------------------------------------
(* The capacity *)

\* The request of a claim.
LEMMA OpType ==
    ASSUME NEW c \in Claim
    PROVE  Op(c) \in [cpus : Nat \ {0}, cpuset : {{}}, memory : Nat \ {0}]
BY LifecycleAssumption DEF Op

\* A new policy is a policy of the node.
LEMMA NewType == NewSimplePolicy \in NodePolicy
BY PolicyAssumption DEF NewSimplePolicy, Policy, NodePolicy, AllocatableMemory

\* A reservation that is not refused keeps the memory within the node's.
LEMMA AllocatedType ==
    ASSUME NEW p \in NodePolicy, NEW c \in Claim, CanAllocate(p, Op(c))
    PROVE  Allocated(p, Op(c)) \in NodePolicy
BY OpType, PolicyAssumption
DEF NodePolicy, CanAllocate, MemoryFits, Allocated, Assign, Policy, AllocatableMemory

\* So does a VM that the rebuild counts.
LEMMA AllocatedOrUpdatedType ==
    ASSUME NEW p \in NodePolicy, NEW c \in Claim, CanAllocateOrUpdate(p, Op(c))
    PROVE  AllocatedOrUpdated(p, Op(c)) \in NodePolicy
<1>1. Op(c).cpuset = {}
  BY OpType
<1> QED
  BY <1>1, OpType, PolicyAssumption
  DEF NodePolicy, CanAllocateOrUpdate, MemoryFits, AllocatedOrUpdated, Assign, Policy,
      AllocatableMemory

\* A release leaves a policy of the node, because it is refused when it would
\* take off more than is booked.
LEMMA ReleasedCapacityType ==
    ASSUME NEW c \in Claim, capacity \in NodePolicy \cup {NoPolicy}
    PROVE  ReleasedCapacity(Op(c)) \in NodePolicy \cup {NoPolicy}
<1>1. Op(c).cpuset = {}
  BY OpType
<1>2. CASE capacity # NoPolicy /\ CanRelease(capacity, Op(c))
  <2>1. capacity \in NodePolicy
    BY <1>2
  <2>2. Released(capacity, Op(c)) \in NodePolicy
    BY <1>1, <1>2, <2>1, OpType, PolicyAssumption
    DEF NodePolicy, CanRelease, Released, Assign, Policy, AllocatableMemory
  <2> QED BY <1>2, <2>2 DEF ReleasedCapacity
<1> QED BY <1>2 DEF ReleasedCapacity

-----------------------------------------------------------------------------
(* The inductive invariant: the types, an ID for every claim that is under   *)
(* way, a VM that was read for every claim about to release its capacity,    *)
(* and ownership.                                                            *)

HasID ==
    \A c \in Claim :
        phase[c] \in {"picked", "reserved", "cloned", "failing", "cleanup",
                      "running", "terminating", "deleted"}
        => id[c] \in VMID

HasRead == \A c \in Claim : phase[c] = "deleted" => read[c] \in Claim

IInv == TypeOK /\ HasID /\ HasRead /\ OwnsItsVM

\* The initial state satisfies the invariant.
LEMMA InitIInv == Init => IInv
<1> SUFFICES ASSUME Init PROVE IInv
  OBVIOUS
<1>1. sync \in [on : BOOLEAN, left : SUBSET VMID, policy : NodePolicy, drift : BOOLEAN]
  BY NewType DEF Init, Idle
<1>2. drift \in BOOLEAN /\ alien \in BOOLEAN
  BY DEF Init
<1>3. TypeOK
  BY <1>1, <1>2, NewType DEF Init, TypeOK, Phases
<1> QED BY <1>3 DEF Init, IInv, HasID, HasRead, OwnsItsVM

\* Every step of a create keeps the types.
LEMMA CreateType ==
    ASSUME IInv, NEW c \in Claim, Create(c)
    PROVE  TypeOK'
<1> USE DEF IInv, TypeOK, Goto, Phases
<1>1. CASE GetNextID(c)
  BY <1>1 DEF GetNextID
<1>2. CASE Reserve(c)
  BY <1>2, AllocatedType DEF Reserve
<1>3. CASE CloneVM(c)
  BY <1>3 DEF CloneVM, VMState
<1>4. CASE CloneFails(c)
  BY <1>4 DEF CloneFails
<1>5. ASSUME NEW i \in VMID, vm[i] # NoVM
      PROVE  [vm EXCEPT ![i] = Started(vm[i])] \in [VMID -> VMState \cup {NoVM}]
  BY <1>5 DEF VMState, Started
<1>6. CASE StartVM(c)
  BY <1>5, <1>6 DEF StartVM, HasID
<1>7. CASE SetupFails(c)
  BY <1>5, <1>7 DEF SetupFails, HasID
<1>8. CASE CleanupRelease(c)
  BY <1>8, ReleasedCapacityType DEF CleanupRelease
<1>9. CASE CleanupDelete(c)
  BY <1>9 DEF CleanupDelete
<1> QED BY <1>1, <1>2, <1>3, <1>4, <1>6, <1>7, <1>8, <1>9 DEF Create

\* Every step of a Delete keeps the types.
LEMMA DeleteType ==
    ASSUME IInv, NEW c \in Claim, Delete(c)
    PROVE  TypeOK'
<1> USE DEF IInv, TypeOK, Goto, Phases
<1>1. CASE Terminate(c)
  BY <1>1 DEF Terminate
<1>2. CASE DeleteNotFound(c)
  BY <1>2 DEF DeleteNotFound
<1>3. CASE DeleteVM(c)
  <2>1. id[c] \in VMID /\ vm[id[c]] \in VMState
    BY <1>3 DEF DeleteVM, HasID
  <2> QED BY <1>3, <2>1 DEF DeleteVM, VMState
<1>4. CASE ReleaseCapacity(c)
  BY <1>4, ReleasedCapacityType DEF ReleaseCapacity, HasRead
<1> QED BY <1>1, <1>2, <1>3, <1>4 DEF Delete

\* So do the rebuild and the restart.
LEMMA SyncType ==
    ASSUME IInv, Sync \/ SyncFails \/ Restart
    PROVE  TypeOK'
<1> USE DEF IInv, TypeOK, Phases
<1>0. Idle \in [on : BOOLEAN, left : SUBSET VMID, policy : NodePolicy, drift : BOOLEAN]
  BY NewType DEF Idle
<1>1. CASE SyncList
  BY <1>1, NewType DEF SyncList, ListedVMs, InFlight
<1>2. ASSUME NEW i \in VMID, SyncVM(i)
      PROVE  TypeOK'
  <2>1. CASE vm[i] = NoVM
    BY <1>0, <1>2, <2>1 DEF SyncVM
  <2>2. CASE vm[i] # NoVM
    <3>1. vm[i].owner \in Claim
      BY <2>2 DEF VMState
    <3>2. sync.policy \in NodePolicy /\ sync.left \in SUBSET VMID /\ sync.drift \in BOOLEAN
      OBVIOUS
    <3> DEFINE op == Op(vm[i].owner)
               p == IF CanAllocateOrUpdate(sync.policy, op)
                    THEN AllocatedOrUpdated(sync.policy, op) ELSE sync.policy
    <3>3. p \in NodePolicy
      BY <3>1, <3>2, AllocatedOrUpdatedType
    <3>4. sync' = [on |-> TRUE, left |-> sync.left \ {i}, policy |-> p,
                   drift |-> sync.drift \/ ~CanAllocateOrUpdate(sync.policy, op) \/ ~Running(i)]
      BY <1>2, <2>2 DEF SyncVM
    <3>5. sync' \in [on : BOOLEAN, left : SUBSET VMID, policy : NodePolicy, drift : BOOLEAN]
      BY <3>2, <3>3, <3>4
    <3> QED BY <1>2, <2>2, <3>5 DEF SyncVM
  <2> QED BY <2>1, <2>2
<1>3. CASE SyncDone
  BY <1>0, <1>3 DEF SyncDone
<1>4. CASE SyncFails
  BY <1>4 DEF SyncFails
<1>5. CASE Restart
  BY <1>0, <1>5 DEF Restart, AfterRestart
<1> QED BY <1>1, <1>2, <1>3, <1>4, <1>5 DEF Sync

-----------------------------------------------------------------------------
(* Ownership *)

\* Every step of a create keeps the rest of the invariant.  A clone succeeds
\* only on a free ID, so it takes no VM from another claim, and a clean-up
\* deletes the VM that this claim owns.
LEMMA CreateOwns ==
    ASSUME IInv, NEW c \in Claim, Create(c)
    PROVE  (HasID /\ HasRead /\ OwnsItsVM)'
<1> USE DEF IInv, TypeOK, Goto, HasID, HasRead, OwnsItsVM
<1>1. CASE GetNextID(c)
  BY <1>1 DEF GetNextID
<1>2. CASE Reserve(c)
  BY <1>2 DEF Reserve
<1>3. CASE CloneVM(c)
  <2>1. (HasID /\ HasRead)'
    BY <1>3 DEF CloneVM
  <2>2. OwnsItsVM'
    <3>1. id[c] \in VMID
      BY <1>3 DEF CloneVM
    <3>2. vm'[id[c]] # NoVM /\ vm'[id[c]].owner = c
      BY <1>3, <3>1, NoVMAssumption DEF CloneVM, VMState
    <3> QED BY <1>3, <3>1, <3>2 DEF CloneVM
  <2> QED BY <2>1, <2>2
<1>4. CASE CloneFails(c)
  BY <1>4 DEF CloneFails
<1>5. ASSUME NEW i \in VMID, vm[i] # NoVM, vm' = [vm EXCEPT ![i] = Started(vm[i])]
      PROVE  \A j \in VMID : /\ vm'[j] # NoVM <=> vm[j] # NoVM
                             /\ vm[j] # NoVM => vm'[j].owner = vm[j].owner
  <2>1. vm[i] \in VMState
    BY <1>5
  <2>2. vm'[i] = Started(vm[i])
    BY <1>5
  <2>3. vm'[i] \in VMState /\ vm'[i].owner = vm[i].owner
    BY <2>1, <2>2 DEF VMState, Started
  <2> QED BY <1>5, <2>3, NoVMAssumption
<1>6. CASE StartVM(c)
  <2>1. id[c] \in VMID /\ id' = id /\ alien' = alien
    BY <1>6 DEF StartVM
  <2>2. \A j \in VMID : /\ vm'[j] # NoVM <=> vm[j] # NoVM
                        /\ vm[j] # NoVM => vm'[j].owner = vm[j].owner
    BY <1>5, <1>6, <2>1 DEF StartVM
  <2> QED BY <1>6, <2>1, <2>2 DEF StartVM
<1>7. CASE SetupFails(c)
  <2>1. id[c] \in VMID /\ id' = id /\ alien' = alien
    BY <1>7 DEF SetupFails
  <2>2. \A j \in VMID : /\ vm'[j] # NoVM <=> vm[j] # NoVM
                        /\ vm[j] # NoVM => vm'[j].owner = vm[j].owner
    BY <1>5, <1>7, <2>1 DEF SetupFails
  <2> QED BY <1>7, <2>1, <2>2 DEF SetupFails
<1>8. CASE CleanupRelease(c)
  BY <1>8 DEF CleanupRelease
<1>9. CASE CleanupDelete(c)
  <2>1. (HasID /\ HasRead)'
    BY <1>9 DEF CleanupDelete
  <2>2. OwnsItsVM'
    <3> SUFFICES ASSUME ~alien', NEW d \in Claim,
                        phase'[d] \in {"cloned", "failing", "cleanup", "running"}
                 PROVE  vm'[id'[d]] # NoVM /\ vm'[id'[d]].owner = d
      OBVIOUS
    <3>1. d # c /\ phase'[d] = phase[d] /\ id'[d] = id[d] /\ ~alien
      BY <1>9 DEF CleanupDelete
    <3>2. vm[id[d]] # NoVM /\ vm[id[d]].owner = d /\ id[d] \in VMID
      BY <3>1
    <3>3. vm[id[c]].owner = c
      BY <1>9, <3>1 DEF CleanupDelete
    <3>4. id[d] # id[c]
      BY <3>1, <3>2, <3>3
    <3> QED BY <1>9, <3>1, <3>2, <3>4 DEF CleanupDelete
  <2> QED BY <2>1, <2>2
<1> QED BY <1>1, <1>2, <1>3, <1>4, <1>6, <1>7, <1>8, <1>9 DEF Create

\* Every step of a Delete keeps the rest of the invariant: it deletes the VM of
\* the claim or it sets alien.
LEMMA DeleteOwns ==
    ASSUME IInv, NEW c \in Claim, Delete(c)
    PROVE  (HasID /\ HasRead /\ OwnsItsVM)'
<1> USE DEF IInv, TypeOK, Goto, HasID, HasRead, OwnsItsVM
<1>1. CASE Terminate(c)
  BY <1>1 DEF Terminate
<1>2. CASE DeleteNotFound(c)
  BY <1>2 DEF DeleteNotFound
<1>3. CASE DeleteVM(c)
  <2>1. id[c] \in VMID /\ vm[id[c]] \in VMState
    BY <1>3 DEF DeleteVM
  <2>2. (HasID /\ HasRead)'
    BY <1>3, <2>1 DEF DeleteVM, VMState
  <2>3. OwnsItsVM'
    <3> SUFFICES ASSUME ~alien', NEW d \in Claim,
                        phase'[d] \in {"cloned", "failing", "cleanup", "running"}
                 PROVE  vm'[id'[d]] # NoVM /\ vm'[id'[d]].owner = d
      OBVIOUS
    <3>1. d # c /\ phase'[d] = phase[d] /\ id'[d] = id[d] /\ ~alien
      BY <1>3 DEF DeleteVM
    <3>2. vm[id[d]] # NoVM /\ vm[id[d]].owner = d /\ id[d] \in VMID
      BY <3>1
    <3>3. vm[id[c]].owner = c
      BY <1>3 DEF DeleteVM
    <3>4. id[d] # id[c]
      BY <3>1, <3>2, <3>3
    <3> QED BY <1>3, <2>1, <3>1, <3>2, <3>4 DEF DeleteVM
  <2> QED BY <2>2, <2>3
<1>4. CASE ReleaseCapacity(c)
  BY <1>4 DEF ReleaseCapacity
<1> QED BY <1>1, <1>2, <1>3, <1>4 DEF Delete

\* The rebuild touches no claim, and a restart gives up the claims whose VM it
\* forgets.
LEMMA SyncOwns ==
    ASSUME IInv, Sync \/ SyncFails \/ Restart
    PROVE  (HasID /\ HasRead /\ OwnsItsVM)'
<1> USE DEF IInv, TypeOK, HasID, HasRead, OwnsItsVM
<1>1. CASE Sync
  BY <1>1 DEF Sync, SyncList, SyncVM, SyncDone
<1>2. CASE SyncFails
  BY <1>2 DEF SyncFails
<1>3. CASE Restart
  BY <1>3 DEF Restart, AfterRestart, Phases
<1> QED BY <1>1, <1>2, <1>3

-----------------------------------------------------------------------------
\* Every reachable state satisfies the inductive invariant.
THEOREM Inductive == Spec => []IInv
<1>1. IInv /\ [Next]_vars => IInv'
  <2> SUFFICES ASSUME IInv, [Next]_vars PROVE IInv'
    OBVIOUS
  <2>1. ASSUME NEW c \in Claim, Create(c) PROVE IInv'
    BY <2>1, CreateType, CreateOwns DEF IInv
  <2>2. ASSUME NEW c \in Claim, Delete(c) PROVE IInv'
    BY <2>2, DeleteType, DeleteOwns DEF IInv
  <2>3. CASE Sync \/ SyncFails \/ Restart
    BY <2>3, SyncType, SyncOwns DEF IInv
  <2>4. CASE UNCHANGED vars
    BY <2>4 DEF vars, IInv, TypeOK, HasID, HasRead, OwnsItsVM
  <2> QED BY <2>1, <2>2, <2>3, <2>4 DEF Next
<1> QED BY <1>1, InitIInv, PTL DEF Spec

\* The capacity stays a policy with counters that are natural numbers and with
\* memory within the node's, however reservations, releases, failed creates,
\* rebuilds and restarts interleave.
THEOREM TypeCorrect == Spec => []TypeOK
BY Inductive, PTL DEF IInv

\* Two creates that picked the same ID never harm each other: as long as no
\* repeated Delete hits a foreign VM, each claim finds its own VM behind its ID
\* (instance_utils.go:61, 125-144).
THEOREM Ownership == Spec => []OwnsItsVM
BY Inductive, PTL DEF IInv

-----------------------------------------------------------------------------
(* The booked capacity is a sum of three totals: over the running VMs R of   *)
(* Proxmox m, the reservations S, and the deleted VMs D as they were read.   *)
(* w gives the size of every claim, in memory or in CPUs.                    *)

MemoryOf == [c \in Claim |-> SizeOf[c].memory]

CPUsOf == [c \in Claim |-> SizeOf[c].cpus]

RunTable(w, m) == [i \in VMID |-> w[m[i].owner]]

ReadTable(w, rd) == [c \in Claim |-> w[rd[c]]]

Sums(w, m, R, S, rd, D, n) ==
    \E r, b, d \in Nat :
        /\ IsTotal(RunTable(w, m), R, r)
        /\ IsTotal(w, S, b)
        /\ IsTotal(ReadTable(w, rd), D, d)
        /\ n = r + b + d

\* The sizes are numbers.
LEMMA SizesType == MemoryOf \in [Claim -> Nat] /\ CPUsOf \in [Claim -> Nat]
BY LifecycleAssumption DEF MemoryOf, CPUsOf

\* Nothing is booked when there is nothing.
LEMMA SumsEmpty ==
    ASSUME NEW w, NEW m, NEW rd
    PROVE  Sums(w, m, {}, {}, rd, {}, 0)
<1>1. 0 \in Nat /\ 0 = 0 + 0 + 0
  OBVIOUS
<1>2. /\ IsTotal(RunTable(w, m), {}, 0) /\ IsTotal(w, {}, 0)
      /\ IsTotal(ReadTable(w, rd), {}, 0)
  BY TotalEmpty
<1> QED BY <1>1, <1>2 DEF Sums

\* Changes elsewhere do not matter.
LEMMA SumsSame ==
    ASSUME NEW w, NEW m, NEW m2, NEW R \in SUBSET VMID, NEW S, NEW rd, NEW rd2,
           NEW D \in SUBSET Claim, NEW n, Sums(w, m, R, S, rd, D, n),
           \A i \in R : m2[i].owner = m[i].owner, \A c \in D : rd2[c] = rd[c]
    PROVE  Sums(w, m2, R, S, rd2, D, n)
<1>1. PICK r, b, d \in Nat : /\ IsTotal(RunTable(w, m), R, r)
                             /\ IsTotal(w, S, b)
                             /\ IsTotal(ReadTable(w, rd), D, d)
                             /\ n = r + b + d
  BY DEF Sums
<1>2. /\ \A i \in R : RunTable(w, m2)[i] = RunTable(w, m)[i]
      /\ \A c \in D : ReadTable(w, rd2)[c] = ReadTable(w, rd)[c]
  BY DEF RunTable, ReadTable
<1>3. IsTotal(RunTable(w, m2), R, r) /\ IsTotal(ReadTable(w, rd2), D, d)
  BY <1>1, <1>2, TotalSame
<1> QED BY <1>1, <1>3 DEF Sums

\* A reservation.
LEMMA SumsReserve ==
    ASSUME NEW w \in [Claim -> Nat], NEW m, NEW R, NEW S \in SUBSET Claim, NEW rd, NEW D,
           NEW n, Sums(w, m, R, S, rd, D, n), NEW c \in Claim \ S
    PROVE  Sums(w, m, R, S \cup {c}, rd, D, n + w[c])
<1>1. PICK r, b, d \in Nat : /\ IsTotal(RunTable(w, m), R, r)
                             /\ IsTotal(w, S, b)
                             /\ IsTotal(ReadTable(w, rd), D, d)
                             /\ n = r + b + d
  BY DEF Sums
<1>2. w[c] \in Nat /\ \A j \in S : w[j] = w[j] /\ w[j] \in Nat
  OBVIOUS
<1>3. IsTotal(w, S \cup {c}, b + w[c])
  BY <1>1, <1>2, TotalBooked
<1>4. b + w[c] \in Nat /\ n + w[c] = r + (b + w[c]) + d
  BY <1>1, <1>2
<1> QED BY <1>1, <1>3, <1>4 DEF Sums

\* A reservation that is given up.
LEMMA SumsUnreserve ==
    ASSUME NEW w \in [Claim -> Nat], NEW m, NEW R, NEW S \in SUBSET Claim, NEW rd, NEW D,
           NEW n, Sums(w, m, R, S, rd, D, n), NEW c \in S
    PROVE  w[c] <= n /\ Sums(w, m, R, S \ {c}, rd, D, n - w[c])
<1>1. PICK r, b, d \in Nat : /\ IsTotal(RunTable(w, m), R, r)
                             /\ IsTotal(w, S, b)
                             /\ IsTotal(ReadTable(w, rd), D, d)
                             /\ n = r + b + d
  BY DEF Sums
<1>2. w[c] \in Nat /\ \A j \in S \ {c} : w[j] = w[j]
  OBVIOUS
<1>3. w[c] <= b
  BY <1>1, <1>2, TotalBound
<1>4. IsTotal(w, S \ {c}, b - w[c])
  BY <1>1, <1>2, TotalReleased
<1>5. b - w[c] \in Nat /\ n - w[c] = r + (b - w[c]) + d /\ w[c] <= n
  BY <1>1, <1>2, <1>3
<1> QED BY <1>1, <1>4, <1>5 DEF Sums

\* A VM that comes to run, or is counted by the rebuild.
LEMMA SumsRun ==
    ASSUME NEW w \in [Claim -> Nat], NEW m, NEW m2, NEW R \in SUBSET VMID, NEW S, NEW rd,
           NEW D, NEW n, Sums(w, m, R, S, rd, D, n), NEW i \in VMID \ R,
           \A j \in R : m2[j].owner = m[j].owner /\ m[j].owner \in Claim,
           m2[i].owner \in Claim
    PROVE  Sums(w, m2, R \cup {i}, S, rd, D, n + w[m2[i].owner])
<1>1. PICK r, b, d \in Nat : /\ IsTotal(RunTable(w, m), R, r)
                             /\ IsTotal(w, S, b)
                             /\ IsTotal(ReadTable(w, rd), D, d)
                             /\ n = r + b + d
  BY DEF Sums
<1>2. RunTable(w, m2)[i] = w[m2[i].owner] /\ w[m2[i].owner] \in Nat
  BY DEF RunTable
<1>3. \A j \in R : RunTable(w, m2)[j] = RunTable(w, m)[j] /\ RunTable(w, m)[j] \in Nat
  BY DEF RunTable
<1>4. IsTotal(RunTable(w, m2), R \cup {i}, r + RunTable(w, m2)[i])
  BY <1>1, <1>2, <1>3, TotalBooked
<1>5. r + w[m2[i].owner] \in Nat /\ n + w[m2[i].owner] = (r + w[m2[i].owner]) + b + d
  BY <1>1, <1>2
<1> QED BY <1>1, <1>2, <1>4, <1>5 DEF Sums

\* A running VM that is deleted becomes a release to come.
LEMMA SumsDelete ==
    ASSUME NEW w \in [Claim -> Nat], NEW m, NEW m2, NEW R \in SUBSET VMID, NEW S,
           NEW rd, NEW rd2, NEW D \in SUBSET Claim, NEW n, Sums(w, m, R, S, rd, D, n),
           NEW i \in R, NEW c \in Claim \ D, m[i].owner \in Claim, rd2[c] = m[i].owner,
           \A j \in R \ {i} : m2[j].owner = m[j].owner,
           \A e \in D : rd2[e] = rd[e] /\ rd[e] \in Claim
    PROVE  Sums(w, m2, R \ {i}, S, rd2, D \cup {c}, n)
<1>1. PICK r, b, d \in Nat : /\ IsTotal(RunTable(w, m), R, r)
                             /\ IsTotal(w, S, b)
                             /\ IsTotal(ReadTable(w, rd), D, d)
                             /\ n = r + b + d
  BY DEF Sums
<1> DEFINE a == w[m[i].owner]
<1>2. /\ RunTable(w, m)[i] = a /\ a \in Nat /\ ReadTable(w, rd2)[c] = a
      /\ \A j \in R \ {i} : RunTable(w, m2)[j] = RunTable(w, m)[j]
      /\ \A e \in D : ReadTable(w, rd2)[e] = ReadTable(w, rd)[e] /\ ReadTable(w, rd)[e] \in Nat
  BY DEF RunTable, ReadTable
<1> HIDE DEF a
<1>3. a <= r /\ IsTotal(RunTable(w, m2), R \ {i}, r - a)
  <2>1. IsTotal(RunTable(w, m2), R \ {i}, r - RunTable(w, m)[i])
    BY <1>1, <1>2, TotalReleased
  <2>2. RunTable(w, m)[i] <= r
    BY <1>1, <1>2, TotalBound
  <2> QED BY <1>2, <2>1, <2>2
<1>4. IsTotal(ReadTable(w, rd2), D \cup {c}, d + a)
  <2>1. IsTotal(ReadTable(w, rd2), D \cup {c}, d + ReadTable(w, rd2)[c])
    BY <1>1, <1>2, TotalBooked
  <2> QED BY <1>2, <2>1
<1>5. r - a \in Nat /\ d + a \in Nat /\ n = (r - a) + b + (d + a)
  BY <1>1, <1>2, <1>3
<1> QED BY <1>1, <1>3, <1>4, <1>5 DEF Sums

\* The release.
LEMMA SumsRelease ==
    ASSUME NEW w \in [Claim -> Nat], NEW m, NEW R, NEW S, NEW rd, NEW rd2,
           NEW D \in SUBSET Claim, NEW n, Sums(w, m, R, S, rd, D, n),
           NEW c \in D, rd[c] \in Claim, \A e \in D \ {c} : rd2[e] = rd[e]
    PROVE  w[rd[c]] <= n /\ Sums(w, m, R, S, rd2, D \ {c}, n - w[rd[c]])
<1>1. PICK r, b, d \in Nat : /\ IsTotal(RunTable(w, m), R, r)
                             /\ IsTotal(w, S, b)
                             /\ IsTotal(ReadTable(w, rd), D, d)
                             /\ n = r + b + d
  BY DEF Sums
<1> DEFINE a == w[rd[c]]
<1>2. /\ ReadTable(w, rd)[c] = a /\ a \in Nat
      /\ \A e \in D \ {c} : ReadTable(w, rd2)[e] = ReadTable(w, rd)[e]
  BY DEF ReadTable
<1> HIDE DEF a
<1>3. a <= d /\ IsTotal(ReadTable(w, rd2), D \ {c}, d - a)
  BY <1>1, <1>2, TotalBound, TotalReleased
<1>4. d - a \in Nat /\ n - a = r + b + (d - a) /\ a <= n
  BY <1>1, <1>2, <1>3
<1>5. Sums(w, m, R, S, rd2, D \ {c}, n - a)
  BY <1>1, <1>3, <1>4 DEF Sums
<1> QED BY <1>4, <1>5 DEF a

-----------------------------------------------------------------------------
(* Where the VM of a claim is, in the phases in which it matters             *)

\* The VM behind the ID that a create has picked is not its own.
NotYetCloned ==
    \A c \in Claim :
        phase[c] \in {"picked", "reserved"} => vm[id[c]] = NoVM \/ vm[id[c]].owner # c

\* The VM of a claim that came to run stays running.
StaysStarted ==
    \A c \in Claim :
        /\ phase[c] \in {"running", "terminating", "deleted"}
        /\ vm[id[c]] # NoVM
        /\ vm[id[c]].owner = c
        => vm[id[c]].status = "running"

\* A VM that runs after its reservation was given up is recorded as drift.
CleanupStarted ==
    ~alien => \A c \in Claim : phase[c] = "cleanup" /\ OwnRunning(c) => drift

Located == NotYetCloned /\ StaysStarted /\ CleanupStarted

\* A start changes the status of one VM.
LEMMA StartedVM ==
    ASSUME TypeOK, NEW i \in VMID, vm[i] # NoVM, vm' = [vm EXCEPT ![i] = Started(vm[i])]
    PROVE  /\ \A j \in VMID \ {i} : vm'[j] = vm[j]
           /\ vm'[i] # NoVM /\ vm'[i].owner = vm[i].owner /\ vm'[i].status = "running"
           /\ vm[i].owner \in Claim
<1>1. vm[i] \in VMState /\ vm'[i] = Started(vm[i])
  BY DEF TypeOK
<1>2. vm'[i] \in VMState /\ vm'[i].owner = vm[i].owner /\ vm'[i].status = "running"
  BY <1>1 DEF VMState, Started
<1> QED BY <1>1, <1>2, NoVMAssumption DEF TypeOK, VMState

\* Every step of a create keeps the VMs located.
LEMMA CreateLocated ==
    ASSUME IInv, Located, NEW c \in Claim, Create(c)
    PROVE  Located'
<1> USE DEF Goto, Located, NotYetCloned, StaysStarted, CleanupStarted
<1>0. TypeOK /\ HasID /\ OwnsItsVM
  BY DEF IInv
<1>1. CASE GetNextID(c)
  <2>1. PICK i \in VMID : vm[i] = NoVM /\ id' = [id EXCEPT ![c] = i]
    BY <1>1 DEF GetNextID
  <2> QED BY <1>0, <1>1, <2>1 DEF GetNextID, TypeOK, OwnRunning, Running
<1>2. CASE Reserve(c)
  BY <1>0, <1>2 DEF Reserve, TypeOK, OwnRunning, Running
<1>3. CASE CloneVM(c)
  <2> DEFINE i == id[c]
  <2>1. i \in VMID /\ vm[i] = NoVM /\ phase[c] = "reserved"
    BY <1>0, <1>3 DEF CloneVM, HasID
  <2>2. /\ \A j \in VMID \ {i} : vm'[j] = vm[j]
        /\ vm'[i] = [owner |-> c, status |-> "stopped"]
    BY <1>0, <1>3, <2>1 DEF CloneVM, TypeOK
  <2>3. vm'[i] # NoVM /\ vm'[i].owner = c /\ vm'[i].status = "stopped"
    <3>1. vm'[i] \in VMState /\ vm'[i].owner = c /\ vm'[i].status = "stopped"
      BY <2>2 DEF VMState
    <3> QED BY <3>1, NoVMAssumption
  <2>4. /\ id' = id /\ phase' = [phase EXCEPT ![c] = "cloned"]
        /\ drift' = drift /\ alien' = alien
    BY <1>3 DEF CloneVM
  <2>5. phase'[c] = "cloned" /\ \A d \in Claim \ {c} : phase'[d] = phase[d]
    BY <1>0, <2>4 DEF TypeOK
  <2>6. NotYetCloned'
    BY <1>0, <2>2, <2>3, <2>4, <2>5 DEF TypeOK, HasID
  <2>7. StaysStarted'
    BY <1>0, <2>2, <2>3, <2>4, <2>5 DEF TypeOK, HasID
  <2>8. CleanupStarted'
    <3> SUFFICES ASSUME ~alien', NEW d \in Claim, phase'[d] = "cleanup", OwnRunning(d)'
                 PROVE  drift'
      OBVIOUS
    <3>1. d # c /\ phase[d] = "cleanup" /\ id[d] \in VMID
      BY <1>0, <2>5 DEF HasID
    <3>2. id[d] # i
      BY <2>3, <2>4 DEF OwnRunning, Running
    <3>3. OwnRunning(d)
      BY <2>2, <2>4, <3>1, <3>2 DEF OwnRunning, Running
    <3> QED BY <2>4, <3>1, <3>3
  <2> QED BY <2>6, <2>7, <2>8
<1>4. CASE CloneFails(c)
  BY <1>0, <1>4 DEF CloneFails, TypeOK, OwnRunning, Running
<1>5. ASSUME NEW p \in {"running", "failing"}, phase[c] = "cloned", vm[id[c]] # NoVM,
             vm' = [vm EXCEPT ![id[c]] = Started(vm[id[c]])],
             phase' = [phase EXCEPT ![c] = p],
             UNCHANGED <<id, drift, alien>>
      PROVE  Located'
  <2> DEFINE i == id[c]
  <2>1. i \in VMID
    BY <1>0, <1>5 DEF HasID
  <2>2. /\ \A j \in VMID \ {i} : vm'[j] = vm[j]
        /\ vm'[i] # NoVM /\ vm'[i].owner = vm[i].owner /\ vm'[i].status = "running"
    BY <1>0, <1>5, <2>1, StartedVM
  <2>3. phase'[c] = p /\ \A d \in Claim \ {c} : phase'[d] = phase[d]
    BY <1>0, <1>5 DEF TypeOK
  <2>4. NotYetCloned' /\ StaysStarted'
    BY <1>0, <1>5, <2>2, <2>3 DEF TypeOK, HasID
  <2>5. CleanupStarted'
    <3> SUFFICES ASSUME ~alien', NEW d \in Claim, phase'[d] = "cleanup", OwnRunning(d)'
                 PROVE  drift'
      OBVIOUS
    <3>1. d # c /\ phase[d] = "cleanup" /\ id[d] \in VMID /\ ~alien
      BY <1>0, <1>5, <2>3 DEF HasID
    <3>2. vm[i].owner = c
      BY <1>0, <1>5, <3>1 DEF OwnsItsVM
    <3>3. id[d] # i
      BY <1>5, <2>2, <3>1, <3>2 DEF OwnRunning
    <3>4. OwnRunning(d)
      BY <1>5, <2>2, <3>1, <3>3 DEF OwnRunning, Running
    <3> QED BY <1>5, <3>1, <3>4
  <2> QED BY <2>4, <2>5
<1>6. CASE StartVM(c)
  BY <1>5, <1>6 DEF StartVM
<1>7. CASE SetupFails(c)
  <2>1. CASE vm' = vm
    BY <1>0, <1>7, <2>1 DEF SetupFails, TypeOK, OwnRunning, Running
  <2>2. CASE vm' # vm
    BY <1>5, <1>7, <2>2 DEF SetupFails
  <2> QED BY <2>1, <2>2
<1>8. CASE CleanupRelease(c)
  <2>1. /\ phase[c] = "failing" /\ phase' = [phase EXCEPT ![c] = "cleanup"]
        /\ UNCHANGED <<vm, id, alien>> /\ drift' = (drift \/ OwnRunning(c))
    BY <1>8 DEF CleanupRelease
  <2>2. NotYetCloned' /\ StaysStarted'
    BY <1>0, <2>1 DEF TypeOK
  <2>3. CleanupStarted'
    <3> SUFFICES ASSUME ~alien', NEW d \in Claim, phase'[d] = "cleanup", OwnRunning(d)'
                 PROVE  drift'
      OBVIOUS
    <3>1. OwnRunning(d)
      BY <2>1 DEF OwnRunning, Running
    <3>2. CASE d = c
      BY <2>1, <3>1, <3>2
    <3>3. CASE d # c
      BY <1>0, <2>1, <3>1, <3>3 DEF TypeOK
    <3> QED BY <3>2, <3>3
  <2> QED BY <2>2, <2>3
<1>9. CASE CleanupDelete(c)
  <2>1. /\ phase[c] = "cleanup" /\ phase' = [phase EXCEPT ![c] = "absent"]
        /\ id' = [id EXCEPT ![c] = 0] /\ UNCHANGED <<drift, alien>>
        /\ id[c] \in VMID
    BY <1>0, <1>9 DEF CleanupDelete, HasID
  <2>2. \A j \in VMID : vm'[j] = vm[j] \/ vm'[j] = NoVM
    BY <1>0, <1>9, <2>1 DEF CleanupDelete, TypeOK
  <2>3. \A d \in Claim \ {c} : phase'[d] = phase[d] /\ id'[d] = id[d]
    BY <1>0, <2>1 DEF TypeOK
  <2>4. phase'[c] = "absent"
    BY <1>0, <2>1 DEF TypeOK
  <2>5. NotYetCloned' /\ StaysStarted'
    BY <1>0, <2>2, <2>3, <2>4 DEF HasID
  <2>6. \A d \in Claim \ {c} : OwnRunning(d)' => OwnRunning(d)
    BY <2>2, <2>3 DEF OwnRunning, Running
  <2>7. CleanupStarted'
    BY <2>1, <2>3, <2>4, <2>6
  <2> QED BY <2>5, <2>7
<1> QED BY <1>1, <1>2, <1>3, <1>4, <1>6, <1>7, <1>8, <1>9 DEF Create

\* So does every step of a Delete.
LEMMA DeleteLocated ==
    ASSUME IInv, Located, NEW c \in Claim, Delete(c)
    PROVE  Located'
<1> USE DEF Goto, Located, NotYetCloned, StaysStarted, CleanupStarted
<1>0. TypeOK /\ HasID /\ OwnsItsVM
  BY DEF IInv
<1>1. CASE Terminate(c)
  BY <1>0, <1>1 DEF Terminate, TypeOK, OwnRunning, Running
<1>2. CASE DeleteNotFound(c)
  BY <1>0, <1>2 DEF DeleteNotFound, TypeOK, OwnRunning, Running
<1>3. CASE DeleteVM(c)
  <2>1. /\ phase[c] = "terminating" /\ phase' = [phase EXCEPT ![c] = "deleted"]
        /\ id' = id /\ id[c] \in VMID /\ vm' = [vm EXCEPT ![id[c]] = NoVM]
        /\ drift' = (drift \/ ~Running(id[c])) /\ alien' = (alien \/ vm[id[c]].owner # c)
    BY <1>0, <1>3 DEF DeleteVM, HasID
  <2>2. \A j \in VMID : vm'[j] = vm[j] \/ vm'[j] = NoVM
    BY <1>0, <2>1 DEF TypeOK
  <2>3. vm'[id[c]] = NoVM /\ phase'[c] = "deleted" /\ \A d \in Claim \ {c} : phase'[d] = phase[d]
    BY <1>0, <2>1 DEF TypeOK
  <2>4. NotYetCloned' /\ StaysStarted'
    BY <1>0, <2>1, <2>2, <2>3 DEF HasID
  <2>5. \A d \in Claim : OwnRunning(d)' => OwnRunning(d)
    BY <2>1, <2>2 DEF OwnRunning, Running
  <2>6. CleanupStarted'
    <3> SUFFICES ASSUME ~alien', NEW d \in Claim, phase'[d] = "cleanup", OwnRunning(d)'
                 PROVE  drift'
      OBVIOUS
    <3>1. d # c /\ phase[d] = "cleanup" /\ OwnRunning(d)
      BY <2>3, <2>5
    <3>2. ~alien
      BY <2>1
    <3> QED BY <2>1, <3>1, <3>2
  <2> QED BY <2>4, <2>6
<1>4. CASE ReleaseCapacity(c)
  BY <1>0, <1>4 DEF ReleaseCapacity, TypeOK, OwnRunning, Running
<1> QED BY <1>1, <1>2, <1>3, <1>4 DEF Delete

-----------------------------------------------------------------------------
(* The accounts.  BookedExact says what the capacity is; RebuildExact says   *)
(* the same of a rebuild that is under way and began when no create or       *)
(* delete was: it counts the VMs it has passed, and the ones deleted since,  *)
(* unless it is bound to meet a VM of its list that is gone.                 *)

BookedExact ==
    capacity # NoPolicy /\ ~drift /\ ~alien
    => /\ Sums(MemoryOf, vm, RunningVMs, Reserved, read, Deleted, capacity.assignedMemory)
       /\ Sums(CPUsOf, vm, RunningVMs, Reserved, read, Deleted, capacity.assignedCPUs)

CleanRebuild == sync.on /\ ~sync.drift /\ ~alien

NoCreate == \A c \in Claim : phase[c] \notin {"reserved", "cloned", "failing", "cleanup"}

MeetsGoneVM == \E i \in sync.left : vm[i] = NoVM

Counted(w, n) == Sums(w, vm, RunningVMs \ sync.left, {}, read, Deleted, n)

RebuildExact ==
    CleanRebuild
    => /\ NoCreate
       /\ \/ MeetsGoneVM
          \/ /\ Counted(MemoryOf, sync.policy.assignedMemory)
             /\ Counted(CPUsOf, sync.policy.assignedCPUs)

\* Nothing that the accounts of the capacity depend on changes.
AccountsUnchanged ==
    /\ UNCHANGED <<capacity, RunningVMs, Reserved, Deleted>>
    /\ \A i \in RunningVMs : vm'[i].owner = vm[i].owner
    /\ \A c \in Deleted : read'[c] = read[c]

\* Then they are kept.
LEMMA AccountsKept ==
    ASSUME BookedExact, AccountsUnchanged, drift' = drift, alien' = alien
    PROVE  BookedExact'
<1> SUFFICES ASSUME capacity # NoPolicy, ~drift, ~alien
             PROVE  /\ Sums(MemoryOf, vm', RunningVMs, Reserved, read', Deleted, capacity.assignedMemory)
                    /\ Sums(CPUsOf, vm', RunningVMs, Reserved, read', Deleted, capacity.assignedCPUs)
  BY DEF BookedExact, AccountsUnchanged
<1>1. RunningVMs \in SUBSET VMID /\ Deleted \in SUBSET Claim
  BY DEF RunningVMs, Deleted
<1>2. /\ Sums(MemoryOf, vm, RunningVMs, Reserved, read, Deleted, capacity.assignedMemory)
      /\ Sums(CPUsOf, vm, RunningVMs, Reserved, read, Deleted, capacity.assignedCPUs)
  BY DEF BookedExact
<1> QED BY <1>1, <1>2, SumsSame DEF AccountsUnchanged

\* What a policy of the node books for a claim, and gives back.
LEMMA Counters ==
    ASSUME NEW p \in NodePolicy, NEW c \in Claim
    PROVE  /\ p.assignedMemory \in Nat /\ p.assignedCPUs \in Nat
           /\ MemoryOf[c] = SizeOf[c].memory /\ CPUsOf[c] = SizeOf[c].cpus
           /\ Allocated(p, Op(c)).assignedMemory = p.assignedMemory + MemoryOf[c]
           /\ Allocated(p, Op(c)).assignedCPUs = p.assignedCPUs + CPUsOf[c]
           /\ AllocatedOrUpdated(p, Op(c)).assignedMemory = p.assignedMemory + MemoryOf[c]
           /\ AllocatedOrUpdated(p, Op(c)).assignedCPUs = p.assignedCPUs + CPUsOf[c]
           /\ Released(p, Op(c)).assignedMemory = p.assignedMemory - MemoryOf[c]
           /\ Released(p, Op(c)).assignedCPUs = p.assignedCPUs - CPUsOf[c]
           /\ MemoryOf[c] <= p.assignedMemory /\ CPUsOf[c] <= p.assignedCPUs
                => CanRelease(p, Op(c))
<1>1. /\ Op(c).cpuset = {} /\ Op(c).memory = MemoryOf[c] /\ Op(c).cpus = CPUsOf[c]
      /\ MemoryOf[c] = SizeOf[c].memory /\ CPUsOf[c] = SizeOf[c].cpus
  BY DEF Op, MemoryOf, CPUsOf
<1>2. p.assignedMemory \in Nat /\ p.assignedCPUs \in Nat
  BY PolicyAssumption DEF NodePolicy, AllocatableMemory
<1>3. MemoryOf[c] \in Nat /\ CPUsOf[c] \in Nat
  BY SizesType
<1>4. /\ Allocated(p, Op(c)).assignedMemory = p.assignedMemory + MemoryOf[c]
      /\ Allocated(p, Op(c)).assignedCPUs = p.assignedCPUs + CPUsOf[c]
  BY <1>1 DEF Allocated, Assign, Policy
<1>5. /\ AllocatedOrUpdated(p, Op(c)).assignedMemory = p.assignedMemory + MemoryOf[c]
      /\ AllocatedOrUpdated(p, Op(c)).assignedCPUs = p.assignedCPUs + CPUsOf[c]
  BY <1>1 DEF AllocatedOrUpdated, Assign, Policy
<1>6. /\ Released(p, Op(c)).assignedMemory = p.assignedMemory - MemoryOf[c]
      /\ Released(p, Op(c)).assignedCPUs = p.assignedCPUs - CPUsOf[c]
  BY <1>1, <1>2, <1>3 DEF Released, Assign, Policy
<1>7. MemoryOf[c] <= p.assignedMemory /\ CPUsOf[c] <= p.assignedCPUs => CanRelease(p, Op(c))
  BY <1>1 DEF CanRelease
<1> QED BY <1>1, <1>2, <1>4, <1>5, <1>6, <1>7

\* A start, after which the create goes on or fails, moves the claim's size
\* from the reservations to the running VMs.
LEMMA StartBooked ==
    ASSUME IInv, BookedExact, NEW c \in Claim, NEW p \in {"running", "failing"},
           phase[c] = "cloned", vm[id[c]] # NoVM,
           vm' = [vm EXCEPT ![id[c]] = Started(vm[id[c]])],
           phase' = [phase EXCEPT ![c] = p],
           UNCHANGED <<capacity, id, read, drift, alien>>
    PROVE  BookedExact'
<1>0. TypeOK /\ HasID /\ OwnsItsVM
  BY DEF IInv
<1> SUFFICES ASSUME capacity # NoPolicy, ~drift, ~alien
             PROVE  /\ Sums(MemoryOf, vm', RunningVMs', Reserved', read, Deleted', capacity.assignedMemory)
                    /\ Sums(CPUsOf, vm', RunningVMs', Reserved', read, Deleted', capacity.assignedCPUs)
  BY DEF BookedExact
<1>1. PICK i \in VMID : i = id[c]
  BY <1>0 DEF HasID
<1>2. /\ \A j \in VMID \ {i} : vm'[j] = vm[j]
      /\ vm'[i] # NoVM /\ vm'[i].owner = vm[i].owner /\ vm'[i].status = "running"
  BY <1>0, <1>1, StartedVM
<1>3. vm[i] # NoVM /\ vm[i].owner = c
  BY <1>0, <1>1 DEF OwnsItsVM
<1>4. phase'[c] = p /\ \A d \in Claim \ {c} : phase'[d] = phase[d]
  BY <1>0 DEF TypeOK
<1>5. RunningVMs' = RunningVMs \cup {i}
  BY <1>2 DEF RunningVMs, Running
<1>6. Deleted' = Deleted
  BY <1>4 DEF Deleted
<1>7. \A d \in Claim \ {c} : OwnRunning(d)' <=> OwnRunning(d)
  BY <1>2, <1>3 DEF OwnRunning, Running
<1>8. Reserved' = Reserved \ {c}
  <2>1. OwnRunning(c)'
    BY <1>1, <1>2, <1>3 DEF OwnRunning, Running
  <2>2. c \notin Reserved'
    BY <2>1 DEF Reserved
  <2>3. \A d \in Claim \ {c} : d \in Reserved' <=> d \in Reserved
    BY <1>4, <1>7 DEF Reserved
  <2> QED BY <2>2, <2>3 DEF Reserved
<1>9. /\ RunningVMs \in SUBSET VMID /\ Deleted \in SUBSET Claim /\ Reserved \in SUBSET Claim
      /\ \A j \in RunningVMs : vm'[j].owner = vm[j].owner /\ vm[j].owner \in Claim
  <2>1. RunningVMs \in SUBSET VMID /\ Deleted \in SUBSET Claim /\ Reserved \in SUBSET Claim
    BY DEF RunningVMs, Deleted, Reserved
  <2>2. \A j \in RunningVMs : vm[j] \in VMState
    BY <1>0 DEF RunningVMs, Running, TypeOK
  <2> QED BY <1>2, <2>1, <2>2 DEF VMState
<1>10. /\ Sums(MemoryOf, vm, RunningVMs, Reserved, read, Deleted, capacity.assignedMemory)
       /\ Sums(CPUsOf, vm, RunningVMs, Reserved, read, Deleted, capacity.assignedCPUs)
  BY DEF BookedExact
<1>11. CASE i \in RunningVMs
  <2>1. RunningVMs' = RunningVMs /\ Reserved' = Reserved
    <3>1. OwnRunning(c)
      BY <1>1, <1>3, <1>11 DEF OwnRunning, RunningVMs
    <3> QED BY <1>5, <1>8, <1>11, <3>1 DEF Reserved
  <2> QED BY <1>6, <1>9, <1>10, <2>1, SumsSame
<1>12. CASE i \notin RunningVMs
  <2>1. c \in Reserved
    BY <1>1, <1>12 DEF Reserved, OwnRunning, RunningVMs
  <2>2. ASSUME NEW w \in [Claim -> Nat], NEW n \in Nat,
               Sums(w, vm, RunningVMs, Reserved, read, Deleted, n)
        PROVE  Sums(w, vm', RunningVMs', Reserved', read, Deleted', n)
    <3>1. Sums(w, vm, RunningVMs, Reserved \ {c}, read, Deleted, n - w[c])
      BY <1>9, <2>1, <2>2, SumsUnreserve
    <3>2. vm'[i].owner = c
      BY <1>2, <1>3
    <3>3. Sums(w, vm', RunningVMs \cup {i}, Reserved \ {c}, read, Deleted, (n - w[c]) + w[vm'[i].owner])
      BY <1>9, <1>12, <3>1, <3>2, SumsRun
    <3>4. (n - w[c]) + w[vm'[i].owner] = n
      BY <3>2
    <3> QED BY <1>5, <1>6, <1>8, <3>3, <3>4
  <2>3. capacity.assignedMemory \in Nat /\ capacity.assignedCPUs \in Nat
    BY <1>0, Counters DEF TypeOK
  <2> QED BY <1>10, <2>2, <2>3, SizesType
<1> QED BY <1>11, <1>12

\* Every step of a create keeps the accounts.
LEMMA CreateBooked ==
    ASSUME IInv, Located, BookedExact, NEW c \in Claim, Create(c)
    PROVE  BookedExact'
<1> USE DEF Goto
<1>0. TypeOK /\ HasID /\ OwnsItsVM
  BY DEF IInv
<1>1. CASE GetNextID(c)
  <2>1. /\ phase[c] = "absent" /\ phase' = [phase EXCEPT ![c] = "picked"]
        /\ \A d \in Claim \ {c} : id'[d] = id[d]
        /\ UNCHANGED <<capacity, vm, read, drift, alien>>
    BY <1>0, <1>1 DEF GetNextID, TypeOK
  <2>2. phase'[c] = "picked" /\ \A d \in Claim \ {c} : phase'[d] = phase[d]
    BY <1>0, <2>1 DEF TypeOK
  <2>3. \A d \in Claim \ {c} : OwnRunning(d)' <=> OwnRunning(d)
    BY <2>1 DEF OwnRunning, Running
  <2>4. RunningVMs' = RunningVMs /\ Deleted' = Deleted
    BY <2>1, <2>2 DEF RunningVMs, Running, Deleted
  <2>5. Reserved' = Reserved
    BY <2>1, <2>2, <2>3 DEF Reserved
  <2> QED BY <2>1, <2>4, <2>5, AccountsKept DEF AccountsUnchanged
<1>2. CASE Reserve(c)
  <2>1. /\ phase[c] = "picked" /\ UNCHANGED <<vm, id, read, drift, alien>>
    BY <1>2 DEF Reserve
  <2>2. \A d \in Claim : OwnRunning(d)' <=> OwnRunning(d)
    BY <2>1 DEF OwnRunning, Running
  <2>3. RunningVMs' = RunningVMs
    BY <2>1 DEF RunningVMs, Running
  <2>4. CASE capacity # NoPolicy /\ CanAllocate(capacity, Op(c))
    <3>1. /\ capacity' = Allocated(capacity, Op(c))
          /\ phase' = [phase EXCEPT ![c] = "reserved"]
      BY <1>2, <2>4 DEF Reserve
    <3>2. phase'[c] = "reserved" /\ \A d \in Claim \ {c} : phase'[d] = phase[d]
      BY <1>0, <3>1 DEF TypeOK
    <3>3. ~OwnRunning(c)
      BY <2>1 DEF Located, NotYetCloned, OwnRunning, Running
    <3>4. /\ Reserved' = Reserved \cup {c} /\ c \notin Reserved /\ Deleted' = Deleted
          /\ Reserved \in SUBSET Claim
      BY <2>1, <2>2, <3>2, <3>3 DEF Reserved, Deleted
    <3>5. capacity \in NodePolicy
      BY <1>0, <2>4 DEF TypeOK
    <3>6. /\ capacity'.assignedMemory = capacity.assignedMemory + MemoryOf[c]
          /\ capacity'.assignedCPUs = capacity.assignedCPUs + CPUsOf[c]
      BY <3>1, <3>5, Counters
    <3>7. ASSUME ~drift, ~alien
          PROVE  /\ Sums(MemoryOf, vm, RunningVMs, Reserved \cup {c}, read, Deleted, capacity.assignedMemory + MemoryOf[c])
                 /\ Sums(CPUsOf, vm, RunningVMs, Reserved \cup {c}, read, Deleted, capacity.assignedCPUs + CPUsOf[c])
      BY <2>4, <3>4, <3>7, SizesType, SumsReserve DEF BookedExact
    <3> QED BY <2>1, <2>3, <3>4, <3>6, <3>7 DEF BookedExact
  <2>5. CASE ~(capacity # NoPolicy /\ CanAllocate(capacity, Op(c)))
    <3>1. capacity' = capacity /\ phase' = [phase EXCEPT ![c] = "absent"]
      BY <1>2, <2>5 DEF Reserve
    <3>2. phase'[c] = "absent" /\ \A d \in Claim \ {c} : phase'[d] = phase[d]
      BY <1>0, <3>1 DEF TypeOK
    <3>3. Reserved' = Reserved /\ Deleted' = Deleted
      BY <2>1, <2>2, <3>2 DEF Reserved, Deleted
    <3> QED BY <2>1, <2>3, <3>1, <3>3, AccountsKept DEF AccountsUnchanged
  <2> QED BY <2>4, <2>5
<1>3. CASE CloneVM(c)
  <2>1. PICK i \in VMID : i = id[c]
    BY <1>0, <1>3 DEF CloneVM, HasID
  <2>2. /\ \A j \in VMID \ {i} : vm'[j] = vm[j]
        /\ vm[i] = NoVM
        /\ vm'[i] = [owner |-> c, status |-> "stopped"]
    BY <1>0, <1>3, <2>1 DEF CloneVM, TypeOK
  <2>3. ~Running(i) /\ ~Running(i)'
    BY <2>2 DEF Running
  <2>4. \A j \in VMID : Running(j)' <=> Running(j)
    BY <2>2, <2>3 DEF Running
  <2>5. \A d \in Claim : OwnRunning(d)' <=> OwnRunning(d)
    BY <1>3, <2>2, <2>3, <2>4 DEF OwnRunning, CloneVM
  <2>6. /\ phase[c] = "reserved" /\ phase' = [phase EXCEPT ![c] = "cloned"]
        /\ UNCHANGED <<capacity, read, drift, alien>>
    BY <1>3 DEF CloneVM
  <2>7. phase'[c] = "cloned" /\ \A d \in Claim \ {c} : phase'[d] = phase[d]
    BY <1>0, <2>6 DEF TypeOK
  <2>8. RunningVMs' = RunningVMs /\ \A j \in RunningVMs : vm'[j].owner = vm[j].owner
    BY <2>2, <2>3, <2>4 DEF RunningVMs
  <2>9. Reserved' = Reserved /\ Deleted' = Deleted
    BY <2>5, <2>6, <2>7 DEF Reserved, Deleted
  <2> QED BY <2>6, <2>8, <2>9, AccountsKept DEF AccountsUnchanged
<1>4. CASE CloneFails(c)
  BY <1>4 DEF CloneFails, BookedExact
<1>5. CASE StartVM(c)
  BY <1>5, StartBooked DEF StartVM
<1>6. CASE SetupFails(c)
  <2>1. CASE vm' = vm
    <3>1. /\ phase[c] = "cloned" /\ phase' = [phase EXCEPT ![c] = "failing"]
          /\ UNCHANGED <<capacity, vm, id, read, drift, alien>>
      BY <1>6, <2>1 DEF SetupFails
    <3>2. phase'[c] = "failing" /\ \A d \in Claim \ {c} : phase'[d] = phase[d]
      BY <1>0, <3>1 DEF TypeOK
    <3>3. \A d \in Claim : OwnRunning(d)' <=> OwnRunning(d)
      BY <3>1 DEF OwnRunning, Running
    <3>4. RunningVMs' = RunningVMs /\ Reserved' = Reserved /\ Deleted' = Deleted
      BY <3>1, <3>2, <3>3 DEF RunningVMs, Running, Reserved, Deleted
    <3> QED BY <3>1, <3>4, AccountsKept DEF AccountsUnchanged
  <2>2. CASE vm' # vm
    BY <1>6, <2>2, StartBooked DEF SetupFails
  <2> QED BY <2>1, <2>2
<1>7. CASE CleanupRelease(c)
  <2>1. /\ phase[c] = "failing" /\ phase' = [phase EXCEPT ![c] = "cleanup"]
        /\ UNCHANGED <<vm, id, read, alien>> /\ drift' = (drift \/ OwnRunning(c))
        /\ capacity' = ReleasedCapacity(Op(c))
    BY <1>7 DEF CleanupRelease
  <2> SUFFICES ASSUME capacity' # NoPolicy, ~drift', ~alien
               PROVE  /\ Sums(MemoryOf, vm, RunningVMs', Reserved', read, Deleted', capacity'.assignedMemory)
                      /\ Sums(CPUsOf, vm, RunningVMs', Reserved', read, Deleted', capacity'.assignedCPUs)
    BY <2>1 DEF BookedExact
  <2>2. capacity # NoPolicy /\ capacity \in NodePolicy
    BY <1>0, <2>1 DEF ReleasedCapacity, TypeOK
  <2>3. phase'[c] = "cleanup" /\ \A d \in Claim \ {c} : phase'[d] = phase[d]
    BY <1>0, <2>1 DEF TypeOK
  <2>4. \A d \in Claim : OwnRunning(d)' <=> OwnRunning(d)
    BY <2>1 DEF OwnRunning, Running
  <2>5. ~drift /\ ~OwnRunning(c)
    BY <2>1
  <2>6. /\ RunningVMs' = RunningVMs /\ Deleted' = Deleted
        /\ Reserved' = Reserved \ {c} /\ c \in Reserved /\ Reserved \in SUBSET Claim
    BY <2>1, <2>3, <2>4, <2>5 DEF RunningVMs, Running, Reserved, Deleted
  <2>7. /\ Sums(MemoryOf, vm, RunningVMs, Reserved, read, Deleted, capacity.assignedMemory)
        /\ Sums(CPUsOf, vm, RunningVMs, Reserved, read, Deleted, capacity.assignedCPUs)
    BY <2>2, <2>5 DEF BookedExact
  <2>8. /\ MemoryOf[c] <= capacity.assignedMemory
        /\ Sums(MemoryOf, vm, RunningVMs, Reserved \ {c}, read, Deleted, capacity.assignedMemory - MemoryOf[c])
    BY <2>6, <2>7, SizesType, SumsUnreserve
  <2>9. /\ CPUsOf[c] <= capacity.assignedCPUs
        /\ Sums(CPUsOf, vm, RunningVMs, Reserved \ {c}, read, Deleted, capacity.assignedCPUs - CPUsOf[c])
    BY <2>6, <2>7, SizesType, SumsUnreserve
  <2>10. /\ capacity'.assignedMemory = capacity.assignedMemory - MemoryOf[c]
         /\ capacity'.assignedCPUs = capacity.assignedCPUs - CPUsOf[c]
    BY <2>1, <2>2, <2>8, <2>9, Counters DEF ReleasedCapacity
  <2> QED BY <2>6, <2>8, <2>9, <2>10
<1>8. CASE CleanupDelete(c)
  <2>1. /\ phase[c] = "cleanup" /\ phase' = [phase EXCEPT ![c] = "absent"]
        /\ id' = [id EXCEPT ![c] = 0] /\ UNCHANGED <<capacity, read, drift, alien>>
    BY <1>8 DEF CleanupDelete
  <2>2. CASE drift \/ alien
    BY <2>1, <2>2 DEF BookedExact
  <2>3. CASE ~drift /\ ~alien
    <3>1. PICK i \in VMID : i = id[c]
      BY <1>0, <2>1 DEF HasID
    <3>2. vm[i] # NoVM /\ vm[i].owner = c
      BY <1>0, <2>1, <2>3, <3>1 DEF OwnsItsVM
    <3>3. ~Running(i)
      BY <2>1, <2>3, <3>1, <3>2 DEF Located, CleanupStarted, OwnRunning
    <3>4. (\A j \in VMID \ {i} : vm'[j] = vm[j]) /\ (vm'[i] = vm[i] \/ vm'[i] = NoVM)
      BY <1>0, <1>8, <3>1 DEF CleanupDelete, TypeOK
    <3>5. \A j \in VMID : Running(j)' <=> Running(j)
      BY <3>3, <3>4 DEF Running
    <3>6. RunningVMs' = RunningVMs /\ \A j \in RunningVMs : vm'[j].owner = vm[j].owner
      BY <3>3, <3>4, <3>5 DEF RunningVMs
    <3>7. phase'[c] = "absent" /\ \A d \in Claim \ {c} : phase'[d] = phase[d] /\ id'[d] = id[d]
      BY <1>0, <2>1 DEF TypeOK
    <3>8. \A d \in Claim \ {c} : OwnRunning(d)' <=> OwnRunning(d)
      BY <3>3, <3>4, <3>5, <3>7 DEF OwnRunning
    <3>9. Reserved' = Reserved /\ Deleted' = Deleted
      BY <2>1, <3>7, <3>8 DEF Reserved, Deleted
    <3> QED BY <2>1, <3>6, <3>9, AccountsKept DEF AccountsUnchanged
  <2> QED BY <2>2, <2>3
<1> QED BY <1>1, <1>2, <1>3, <1>4, <1>5, <1>6, <1>7, <1>8 DEF Create

\* A Delete of the claim's own running VM, as a change of the accounts over any
\* set of running VMs that holds it.
LEMMA DeleteStep ==
    ASSUME IInv, NEW c \in Claim, DeleteVM(c), ~alien',
           NEW i \in VMID, i = id[c], NEW R \in SUBSET RunningVMs, i \in R,
           NEW S, NEW w \in [Claim -> Nat], NEW n, Sums(w, vm, R, S, read, Deleted, n)
    PROVE  Sums(w, vm', R \ {i}, S, read', Deleted \cup {c}, n)
<1>0. TypeOK /\ HasRead
  BY DEF IInv
<1>1. /\ phase[c] = "terminating" /\ vm[i] # NoVM /\ vm[i].owner = c
      /\ vm' = [vm EXCEPT ![i] = NoVM] /\ read' = [read EXCEPT ![c] = vm[i].owner]
  BY DEF DeleteVM
<1>2. c \in Claim \ Deleted /\ Deleted \in SUBSET Claim
  BY <1>1 DEF Deleted
<1>3. read'[c] = vm[i].owner /\ \A e \in Claim \ {c} : read'[e] = read[e]
  BY <1>0, <1>1 DEF TypeOK
<1>4. \A j \in VMID \ {i} : vm'[j] = vm[j]
  BY <1>0, <1>1 DEF TypeOK
<1>5. R \in SUBSET VMID
  BY DEF RunningVMs
<1>6. \A j \in R \ {i} : vm'[j].owner = vm[j].owner
  BY <1>4, <1>5
<1>7. \A e \in Deleted : read'[e] = read[e] /\ read[e] \in Claim
  BY <1>0, <1>2, <1>3 DEF HasRead, Deleted
<1>8. vm[i].owner \in Claim
  BY <1>1
<1> QED BY <1>2, <1>3, <1>5, <1>6, <1>7, <1>8, SumsDelete

\* What a Delete of the claim's own VM leaves.
LEMMA DeleteEffect ==
    ASSUME IInv, NEW c \in Claim, DeleteVM(c), ~alien', NEW i \in VMID, i = id[c]
    PROVE  /\ RunningVMs' = RunningVMs \ {i}
           /\ Deleted' = Deleted \cup {c}
           /\ Reserved' = Reserved
           /\ vm'[i] = NoVM /\ vm[i] # NoVM /\ vm[i].owner = c
           /\ \A j \in VMID \ {i} : vm'[j] = vm[j]
           /\ phase'[c] = "deleted" /\ \A d \in Claim \ {c} : phase'[d] = phase[d]
<1>0. TypeOK
  BY DEF IInv
<1>1. /\ phase[c] = "terminating" /\ vm[i] # NoVM /\ vm[i].owner = c
      /\ vm' = [vm EXCEPT ![i] = NoVM] /\ phase' = [phase EXCEPT ![c] = "deleted"]
      /\ id' = id
  BY DEF DeleteVM, Goto
<1>2. vm'[i] = NoVM /\ \A j \in VMID \ {i} : vm'[j] = vm[j]
  BY <1>0, <1>1 DEF TypeOK
<1>3. phase'[c] = "deleted" /\ \A d \in Claim \ {c} : phase'[d] = phase[d]
  BY <1>0, <1>1 DEF TypeOK
<1>4. RunningVMs' = RunningVMs \ {i}
  BY <1>2 DEF RunningVMs, Running
<1>5. Deleted' = Deleted \cup {c}
  BY <1>3 DEF Deleted
<1>6. \A d \in Claim \ {c} : OwnRunning(d)' <=> OwnRunning(d)
  BY <1>1, <1>2 DEF OwnRunning, Running
<1>7. Reserved' = Reserved
  BY <1>1, <1>3, <1>6 DEF Reserved
<1> QED BY <1>1, <1>2, <1>3, <1>4, <1>5, <1>7

\* Every step of a Delete keeps the accounts.
LEMMA DeleteBooked ==
    ASSUME IInv, Located, BookedExact, NEW c \in Claim, Delete(c)
    PROVE  BookedExact'
<1> USE DEF Goto
<1>0. TypeOK /\ HasID /\ HasRead
  BY DEF IInv
<1>1. ASSUME NEW p \in {"terminating", "gone"}, phase[c] \in {"running", "terminating"},
             phase' = [phase EXCEPT ![c] = p], UNCHANGED <<capacity, vm, id, read, drift, alien>>
      PROVE  BookedExact'
  <2>1. phase'[c] = p /\ \A d \in Claim \ {c} : phase'[d] = phase[d]
    BY <1>0, <1>1 DEF TypeOK
  <2>2. \A d \in Claim : OwnRunning(d)' <=> OwnRunning(d)
    BY <1>1 DEF OwnRunning, Running
  <2>3. RunningVMs' = RunningVMs
    BY <1>1 DEF RunningVMs, Running
  <2>4. Reserved' = Reserved /\ Deleted' = Deleted
    BY <1>1, <2>1, <2>2 DEF Reserved, Deleted
  <2> QED BY <1>1, <2>3, <2>4, AccountsKept DEF AccountsUnchanged
<1>2. CASE Terminate(c)
  BY <1>1, <1>2 DEF Terminate
<1>3. CASE DeleteNotFound(c)
  BY <1>1, <1>3 DEF DeleteNotFound
<1>4. CASE DeleteVM(c)
  <2> SUFFICES ASSUME capacity' # NoPolicy, ~drift', ~alien'
               PROVE  /\ Sums(MemoryOf, vm', RunningVMs', Reserved', read', Deleted', capacity'.assignedMemory)
                      /\ Sums(CPUsOf, vm', RunningVMs', Reserved', read', Deleted', capacity'.assignedCPUs)
    BY DEF BookedExact
  <2>1. PICK i \in VMID : i = id[c]
    BY <1>0, <1>4 DEF DeleteVM, HasID
  <2>2. capacity' = capacity /\ ~drift /\ ~alien /\ Running(i)
    BY <1>4, <2>1 DEF DeleteVM
  <2>3. i \in RunningVMs
    BY <2>2 DEF RunningVMs
  <2>4. /\ Sums(MemoryOf, vm, RunningVMs, Reserved, read, Deleted, capacity.assignedMemory)
        /\ Sums(CPUsOf, vm, RunningVMs, Reserved, read, Deleted, capacity.assignedCPUs)
    BY <2>2 DEF BookedExact
  <2>5. ASSUME NEW w \in [Claim -> Nat], NEW n, Sums(w, vm, RunningVMs, Reserved, read, Deleted, n)
        PROVE  Sums(w, vm', RunningVMs \ {i}, Reserved, read', Deleted \cup {c}, n)
    <3>1. RunningVMs \in SUBSET RunningVMs
      OBVIOUS
    <3> QED BY <1>4, <2>1, <2>3, <2>5, <3>1, DeleteStep
  <2>6. RunningVMs' = RunningVMs \ {i} /\ Reserved' = Reserved /\ Deleted' = Deleted \cup {c}
    BY <1>4, <2>1, DeleteEffect
  <2> QED BY <2>2, <2>4, <2>5, <2>6, SizesType
<1>5. CASE ReleaseCapacity(c)
  <2>1. /\ phase[c] = "deleted" /\ phase' = [phase EXCEPT ![c] = "terminating"]
        /\ UNCHANGED <<vm, id, drift, alien>> /\ read' = [read EXCEPT ![c] = NoClaim]
        /\ capacity' = ReleasedCapacity(Op(read[c])) /\ read[c] \in Claim
    BY <1>0, <1>5 DEF ReleaseCapacity, HasRead
  <2> SUFFICES ASSUME capacity' # NoPolicy, ~drift, ~alien
               PROVE  /\ Sums(MemoryOf, vm, RunningVMs', Reserved', read', Deleted', capacity'.assignedMemory)
                      /\ Sums(CPUsOf, vm, RunningVMs', Reserved', read', Deleted', capacity'.assignedCPUs)
    BY <2>1 DEF BookedExact
  <2>2. capacity # NoPolicy /\ capacity \in NodePolicy
    BY <1>0, <2>1 DEF ReleasedCapacity, TypeOK
  <2>3. phase'[c] = "terminating" /\ \A d \in Claim \ {c} : phase'[d] = phase[d]
    BY <1>0, <2>1 DEF TypeOK
  <2>4. \A d \in Claim : OwnRunning(d)' <=> OwnRunning(d)
    BY <2>1 DEF OwnRunning, Running
  <2>5. RunningVMs' = RunningVMs
    BY <2>1 DEF RunningVMs, Running
  <2>6. Reserved' = Reserved
    BY <2>1, <2>3, <2>4 DEF Reserved
  <2>7. Deleted' = Deleted \ {c} /\ c \in Deleted /\ Deleted \in SUBSET Claim
    BY <2>1, <2>3 DEF Deleted
  <2>8. \A e \in Deleted \ {c} : read'[e] = read[e]
    BY <1>0, <2>1, <2>7 DEF TypeOK
  <2>9. /\ Sums(MemoryOf, vm, RunningVMs, Reserved, read, Deleted, capacity.assignedMemory)
        /\ Sums(CPUsOf, vm, RunningVMs, Reserved, read, Deleted, capacity.assignedCPUs)
    BY <2>2 DEF BookedExact
  <2>10. /\ MemoryOf[read[c]] <= capacity.assignedMemory
         /\ Sums(MemoryOf, vm, RunningVMs, Reserved, read', Deleted \ {c},
                 capacity.assignedMemory - MemoryOf[read[c]])
    BY <2>1, <2>7, <2>8, <2>9, SizesType, SumsRelease
  <2>11. /\ CPUsOf[read[c]] <= capacity.assignedCPUs
         /\ Sums(CPUsOf, vm, RunningVMs, Reserved, read', Deleted \ {c},
                 capacity.assignedCPUs - CPUsOf[read[c]])
    BY <2>1, <2>7, <2>8, <2>9, SizesType, SumsRelease
  <2>12. /\ capacity'.assignedMemory = capacity.assignedMemory - MemoryOf[read[c]]
         /\ capacity'.assignedCPUs = capacity.assignedCPUs - CPUsOf[read[c]]
    BY <2>1, <2>2, <2>10, <2>11, Counters DEF ReleasedCapacity
  <2> QED BY <2>5, <2>6, <2>7, <2>10, <2>11, <2>12
<1> QED BY <1>2, <1>3, <1>4, <1>5 DEF Delete

\* A rebuild that holds the lock is not disturbed by creates: none is past its
\* reservation, and none can make one.
LEMMA CreateRebuild ==
    ASSUME IInv, RebuildExact, NEW c \in Claim, Create(c)
    PROVE  RebuildExact'
<1>0. TypeOK
  BY DEF IInv
<1> SUFFICES ASSUME CleanRebuild'
             PROVE  /\ NoCreate'
                    /\ \/ MeetsGoneVM'
                       \/ /\ Counted(MemoryOf, sync.policy.assignedMemory)'
                          /\ Counted(CPUsOf, sync.policy.assignedCPUs)'
  BY DEF RebuildExact
<1>1. sync' = sync /\ alien' = alien
  BY DEF Create, GetNextID, Reserve, CloneVM, CloneFails, StartVM, SetupFails,
         CleanupRelease, CleanupDelete
<1>2. CleanRebuild /\ sync.on
  BY <1>1 DEF CleanRebuild
<1>3. NoCreate
  BY <1>2 DEF RebuildExact
<1>4. GetNextID(c)
  BY <1>2, <1>3 DEF Create, Reserve, Unlocked, CloneVM, CloneFails, StartVM, SetupFails,
                    CleanupRelease, CleanupDelete, NoCreate
<1>5. UNCHANGED <<vm, read>> /\ phase[c] = "absent" /\ phase' = [phase EXCEPT ![c] = "picked"]
  BY <1>4 DEF GetNextID, Goto
<1>6. phase'[c] = "picked" /\ \A d \in Claim \ {c} : phase'[d] = phase[d]
  BY <1>0, <1>5 DEF TypeOK
<1>7. NoCreate'
  BY <1>3, <1>6 DEF NoCreate
<1>8. Deleted' = Deleted /\ RunningVMs' = RunningVMs
  BY <1>5, <1>6 DEF Deleted, RunningVMs, Running
<1>9. MeetsGoneVM \/ (Counted(MemoryOf, sync.policy.assignedMemory) /\ Counted(CPUsOf, sync.policy.assignedCPUs))
  BY <1>2 DEF RebuildExact
<1> QED BY <1>1, <1>5, <1>7, <1>8, <1>9 DEF MeetsGoneVM, Counted

\* A VM that is deleted during the rebuild was counted, and becomes a release
\* to come, or the rebuild will meet that it is gone.
LEMMA DeleteRebuild ==
    ASSUME IInv, Located, RebuildExact, NEW c \in Claim, Delete(c)
    PROVE  RebuildExact'
<1>0. TypeOK /\ HasID
  BY DEF IInv
<1> SUFFICES ASSUME CleanRebuild'
             PROVE  /\ NoCreate'
                    /\ \/ MeetsGoneVM'
                       \/ /\ Counted(MemoryOf, sync.policy.assignedMemory)'
                          /\ Counted(CPUsOf, sync.policy.assignedCPUs)'
  BY DEF RebuildExact
<1>1. sync' = sync /\ (~alien' => ~alien)
  <2>1. CASE DeleteVM(c)
    BY <2>1 DEF DeleteVM
  <2>2. CASE Terminate(c) \/ DeleteNotFound(c) \/ ReleaseCapacity(c)
    BY <2>2 DEF Terminate, DeleteNotFound, ReleaseCapacity
  <2> QED BY <2>1, <2>2 DEF Delete
<1>2. CleanRebuild /\ sync.on /\ ~alien'
  BY <1>1 DEF CleanRebuild
<1>3. NoCreate
  BY <1>2 DEF RebuildExact
<1>4. MeetsGoneVM \/ (Counted(MemoryOf, sync.policy.assignedMemory) /\ Counted(CPUsOf, sync.policy.assignedCPUs))
  BY <1>2 DEF RebuildExact
<1>5. CASE Terminate(c) \/ DeleteNotFound(c)
  <2>1. PICK p \in {"terminating", "gone"} :
             /\ phase[c] \in {"running", "terminating"}
             /\ phase' = [phase EXCEPT ![c] = p]
    BY <1>5 DEF Terminate, DeleteNotFound, Goto
  <2>2. UNCHANGED <<vm, read>>
    BY <1>5 DEF Terminate, DeleteNotFound
  <2>3. phase'[c] = p /\ \A d \in Claim \ {c} : phase'[d] = phase[d]
    BY <1>0, <2>1 DEF TypeOK
  <2>4. NoCreate'
    BY <1>3, <2>3 DEF NoCreate
  <2>5. Deleted' = Deleted /\ RunningVMs' = RunningVMs
    BY <2>1, <2>2, <2>3 DEF Deleted, RunningVMs, Running
  <2> QED BY <1>1, <1>4, <2>2, <2>4, <2>5 DEF MeetsGoneVM, Counted
<1>6. CASE DeleteVM(c)
  <2>1. PICK i \in VMID : i = id[c]
    BY <1>0, <1>6 DEF DeleteVM, HasID
  <2>2. /\ RunningVMs' = RunningVMs \ {i} /\ Deleted' = Deleted \cup {c}
        /\ vm'[i] = NoVM /\ vm[i] # NoVM /\ vm[i].owner = c
        /\ \A j \in VMID \ {i} : vm'[j] = vm[j]
        /\ phase'[c] = "deleted" /\ \A d \in Claim \ {c} : phase'[d] = phase[d]
    BY <1>2, <1>6, <2>1, DeleteEffect
  <2>3. NoCreate'
    BY <1>3, <2>2 DEF NoCreate
  <2>4. sync.left \in SUBSET VMID
    BY <1>0 DEF TypeOK
  <2>5. CASE i \in sync.left
    BY <1>1, <2>2, <2>3, <2>5 DEF MeetsGoneVM
  <2>6. CASE MeetsGoneVM
    BY <1>1, <2>2, <2>3, <2>4, <2>6 DEF MeetsGoneVM
  <2>7. CASE i \notin sync.left /\ ~MeetsGoneVM
    <3>1. i \in RunningVMs
      BY <1>6, <2>1, <2>2 DEF Located, StaysStarted, DeleteVM, RunningVMs, Running
    <3>2. /\ RunningVMs \ sync.left \in SUBSET RunningVMs
          /\ i \in RunningVMs \ sync.left
          /\ RunningVMs' \ sync.left = (RunningVMs \ sync.left) \ {i}
      BY <2>2, <2>7, <3>1
    <3>3. /\ Sums(MemoryOf, vm, RunningVMs \ sync.left, {}, read, Deleted, sync.policy.assignedMemory)
          /\ Sums(CPUsOf, vm, RunningVMs \ sync.left, {}, read, Deleted, sync.policy.assignedCPUs)
      BY <1>4, <2>7 DEF Counted
    <3>4. /\ Sums(MemoryOf, vm', (RunningVMs \ sync.left) \ {i}, {}, read', Deleted \cup {c},
                  sync.policy.assignedMemory)
          /\ Sums(CPUsOf, vm', (RunningVMs \ sync.left) \ {i}, {}, read', Deleted \cup {c},
                  sync.policy.assignedCPUs)
      BY <1>2, <1>6, <2>1, <3>2, <3>3, SizesType, DeleteStep
    <3> QED BY <1>1, <2>2, <2>3, <3>2, <3>4 DEF Counted
  <2> QED BY <2>5, <2>6, <2>7
<1>7. CASE ReleaseCapacity(c)
  BY <1>2, <1>7 DEF ReleaseCapacity, Unlocked
<1> QED BY <1>5, <1>6, <1>7 DEF Delete

\* The rebuild, a failed one and a restart keep the VMs located.
LEMMA SyncLocated ==
    ASSUME IInv, Located, RebuildExact, Sync \/ SyncFails \/ Restart
    PROVE  Located'
<1>0. TypeOK
  BY DEF IInv
<1>1. CASE SyncList \/ (\E i \in VMID : SyncVM(i)) \/ SyncFails
  <2>1. UNCHANGED <<vm, phase, id, drift, alien>>
    BY <1>1 DEF SyncList, SyncVM, SyncFails
  <2>2. \A c \in Claim : OwnRunning(c)' <=> OwnRunning(c)
    BY <2>1 DEF OwnRunning, Running
  <2> QED BY <2>1, <2>2 DEF Located, NotYetCloned, StaysStarted, CleanupStarted
<1>2. CASE SyncDone
  <2>1. UNCHANGED <<vm, phase, id, alien>> /\ drift' = sync.drift /\ sync.on
    BY <1>2 DEF SyncDone
  <2>2. NotYetCloned' /\ StaysStarted'
    BY <2>1 DEF Located, NotYetCloned, StaysStarted
  <2>3. CleanupStarted'
    <3>1. ~alien => drift' \/ NoCreate
      BY <2>1 DEF RebuildExact, CleanRebuild
    <3> QED BY <2>1, <3>1 DEF CleanupStarted, NoCreate
  <2> QED BY <2>2, <2>3 DEF Located
<1>3. CASE Restart
  <2>1. \A c \in Claim : /\ phase'[c] = AfterRestart(phase[c])
                         /\ phase[c] \in {"running", "terminating", "deleted"} => id'[c] = id[c]
    BY <1>3 DEF Restart
  <2>2. \A c \in Claim : /\ phase'[c] \notin {"picked", "reserved", "cleanup"}
                         /\ phase'[c] \in {"running", "terminating", "deleted"}
                              => phase[c] \in {"running", "terminating", "deleted"}
    BY <2>1 DEF AfterRestart
  <2>3. vm' = vm
    BY <1>3 DEF Restart
  <2> QED BY <2>1, <2>2, <2>3 DEF Located, NotYetCloned, StaysStarted, CleanupStarted
<1> QED BY <1>1, <1>2, <1>3 DEF Sync

\* A rebuild begins with nothing counted.
LEMMA SyncListRebuild ==
    ASSUME IInv, SyncList
    PROVE  RebuildExact'
<1> SUFFICES ASSUME CleanRebuild'
             PROVE  /\ NoCreate'
                    /\ Counted(MemoryOf, sync.policy.assignedMemory)'
                    /\ Counted(CPUsOf, sync.policy.assignedCPUs)'
  BY DEF RebuildExact
<1>1. /\ sync'.left = RunningVMs /\ sync'.policy = NewSimplePolicy
      /\ sync'.drift = (InFlight # {}) /\ UNCHANGED <<vm, phase, read>>
  BY DEF SyncList, ListedVMs, RunningVMs
<1>2. InFlight = {}
  BY <1>1 DEF CleanRebuild
<1>3. NoCreate' /\ Deleted' = {}
  BY <1>1, <1>2 DEF InFlight, NoCreate, Deleted
<1>4. RunningVMs' \ sync'.left = {}
  BY <1>1 DEF RunningVMs, Running
<1>5. sync'.policy.assignedMemory = 0 /\ sync'.policy.assignedCPUs = 0
  BY <1>1 DEF NewSimplePolicy, Policy
<1> QED BY <1>3, <1>4, <1>5, SumsEmpty DEF Counted

\* It counts the VMs one by one.
LEMMA SyncVMRebuild ==
    ASSUME IInv, RebuildExact, NEW i \in VMID, SyncVM(i)
    PROVE  RebuildExact'
<1>0. TypeOK
  BY DEF IInv
<1> SUFFICES ASSUME CleanRebuild'
             PROVE  /\ NoCreate'
                    /\ \/ MeetsGoneVM'
                       \/ /\ Counted(MemoryOf, sync.policy.assignedMemory)'
                          /\ Counted(CPUsOf, sync.policy.assignedCPUs)'
  BY DEF RebuildExact
<1>1. vm[i] # NoVM
  BY DEF SyncVM, CleanRebuild, Idle
<1> DEFINE op == Op(vm[i].owner)
<1>2. /\ sync.on /\ i \in sync.left /\ sync'.left = sync.left \ {i}
      /\ sync'.drift = (sync.drift \/ ~CanAllocateOrUpdate(sync.policy, op) \/ ~Running(i))
      /\ sync'.policy = IF CanAllocateOrUpdate(sync.policy, op)
                        THEN AllocatedOrUpdated(sync.policy, op) ELSE sync.policy
      /\ UNCHANGED <<vm, phase, read, alien>>
  BY <1>1 DEF SyncVM
<1>3. CleanRebuild /\ Running(i) /\ sync'.policy = AllocatedOrUpdated(sync.policy, op)
  BY <1>2 DEF CleanRebuild
<1>4. NoCreate' /\ Deleted' = Deleted /\ RunningVMs' = RunningVMs
  BY <1>2, <1>3 DEF RebuildExact, NoCreate, Deleted, RunningVMs, Running
<1>5. CASE MeetsGoneVM
  BY <1>1, <1>2, <1>4, <1>5 DEF MeetsGoneVM
<1>6. CASE ~MeetsGoneVM
  <2>1. /\ Sums(MemoryOf, vm, RunningVMs \ sync.left, {}, read, Deleted, sync.policy.assignedMemory)
        /\ Sums(CPUsOf, vm, RunningVMs \ sync.left, {}, read, Deleted, sync.policy.assignedCPUs)
    BY <1>3, <1>6 DEF RebuildExact, Counted
  <2>2. /\ RunningVMs \ sync.left \in SUBSET VMID
        /\ i \in VMID \ (RunningVMs \ sync.left)
        /\ RunningVMs \ (sync.left \ {i}) = (RunningVMs \ sync.left) \cup {i}
    BY <1>2, <1>3 DEF RunningVMs
  <2>3. \A j \in RunningVMs : vm[j] \in VMState
    BY <1>0 DEF RunningVMs, Running, TypeOK
  <2>4. vm[i].owner \in Claim /\ \A j \in RunningVMs \ sync.left : vm[j].owner = vm[j].owner /\ vm[j].owner \in Claim
    BY <1>3, <2>3 DEF VMState, RunningVMs
  <2>5. /\ Sums(MemoryOf, vm, (RunningVMs \ sync.left) \cup {i}, {}, read, Deleted,
                sync.policy.assignedMemory + MemoryOf[vm[i].owner])
        /\ Sums(CPUsOf, vm, (RunningVMs \ sync.left) \cup {i}, {}, read, Deleted,
                sync.policy.assignedCPUs + CPUsOf[vm[i].owner])
    BY <2>1, <2>2, <2>4, SizesType, SumsRun
  <2>6. sync.policy \in NodePolicy
    BY <1>0 DEF TypeOK
  <2>7. /\ sync'.policy.assignedMemory = sync.policy.assignedMemory + MemoryOf[vm[i].owner]
        /\ sync'.policy.assignedCPUs = sync.policy.assignedCPUs + CPUsOf[vm[i].owner]
    BY <1>3, <2>4, <2>6, Counters
  <2> QED BY <1>2, <1>4, <2>2, <2>5, <2>7 DEF Counted
<1> QED BY <1>5, <1>6

\* The swap makes what the rebuild counted the booked capacity; a rebuild that
\* met a VM that is gone never comes to the swap.
LEMMA SyncBooked ==
    ASSUME IInv, RebuildExact, BookedExact, Sync \/ SyncFails \/ Restart
    PROVE  RebuildExact' /\ BookedExact'
<1>1. CASE SyncList
  <2>1. UNCHANGED <<capacity, vm, phase, id, read, drift, alien>>
    BY <1>1 DEF SyncList
  <2> QED BY <1>1, <2>1, SyncListRebuild
          DEF BookedExact, RunningVMs, Reserved, Deleted, OwnRunning, Running
<1>2. ASSUME NEW i \in VMID, SyncVM(i)
      PROVE  RebuildExact' /\ BookedExact'
  <2>1. UNCHANGED <<vm, phase, id, read, drift, alien>> /\ (capacity' = NoPolicy \/ capacity' = capacity)
    BY <1>2 DEF SyncVM
  <2>2. BookedExact'
    BY <2>1 DEF BookedExact, RunningVMs, Reserved, Deleted, OwnRunning, Running
  <2> QED BY <1>2, <2>2, SyncVMRebuild
<1>3. CASE SyncDone
  <2>1. /\ sync.on /\ sync.left = {} /\ capacity' = sync.policy /\ drift' = sync.drift
        /\ sync' = Idle /\ UNCHANGED <<vm, phase, id, read, alien>>
    BY <1>3 DEF SyncDone
  <2>2. RebuildExact'
    BY <2>1 DEF RebuildExact, CleanRebuild, Idle
  <2>3. BookedExact'
    <3> SUFFICES ASSUME ~sync.drift, ~alien
                 PROVE  /\ Sums(MemoryOf, vm, RunningVMs', Reserved', read, Deleted', sync.policy.assignedMemory)
                        /\ Sums(CPUsOf, vm, RunningVMs', Reserved', read, Deleted', sync.policy.assignedCPUs)
      BY <2>1 DEF BookedExact
    <3>1. NoCreate /\ ~MeetsGoneVM /\ CleanRebuild
      BY <2>1 DEF RebuildExact, CleanRebuild, MeetsGoneVM
    <3>2. /\ Sums(MemoryOf, vm, RunningVMs \ sync.left, {}, read, Deleted, sync.policy.assignedMemory)
          /\ Sums(CPUsOf, vm, RunningVMs \ sync.left, {}, read, Deleted, sync.policy.assignedCPUs)
      BY <3>1 DEF RebuildExact, Counted
    <3>3. Reserved' = {} /\ Deleted' = Deleted /\ RunningVMs' = RunningVMs \ sync.left
      BY <2>1, <3>1 DEF NoCreate, Reserved, Deleted, RunningVMs, Running
    <3> QED BY <3>2, <3>3
  <2> QED BY <2>2, <2>3
<1>4. CASE SyncFails
  BY <1>4 DEF SyncFails, RebuildExact, CleanRebuild, Unlocked, BookedExact
<1>5. CASE Restart
  BY <1>5 DEF Restart, RebuildExact, CleanRebuild, Idle, BookedExact
<1> QED BY <1>1, <1>2, <1>3, <1>4, <1>5 DEF Sync

-----------------------------------------------------------------------------
EInv == IInv /\ Located /\ RebuildExact /\ BookedExact

\* Nothing is booked, and nothing runs, in the beginning.
LEMMA InitEInv == Init => EInv
<1> SUFFICES ASSUME Init PROVE EInv
  OBVIOUS
<1>1. IInv
  BY InitIInv
<1>2. \A c \in Claim : phase[c] = "absent"
  BY DEF Init
<1>3. \A i \in VMID : vm[i] = NoVM
  BY DEF Init
<1>4. Located
  BY <1>2 DEF Located, NotYetCloned, StaysStarted, CleanupStarted
<1>5. RebuildExact
  BY DEF Init, Idle, RebuildExact, CleanRebuild
<1>6. BookedExact
  <2>1. RunningVMs = {} /\ Reserved = {} /\ Deleted = {}
    BY <1>2, <1>3 DEF RunningVMs, Running, Reserved, Deleted
  <2>2. capacity.assignedMemory = 0 /\ capacity.assignedCPUs = 0
    BY DEF Init, NewSimplePolicy, Policy
  <2> QED BY <2>1, <2>2, SumsEmpty DEF BookedExact
<1> QED BY <1>1, <1>4, <1>5, <1>6 DEF EInv

\* Every reachable state satisfies the accounts.
THEOREM Accounts == Spec => []EInv
<1>1. IInv /\ IInv' /\ EInv /\ [Next]_vars => EInv'
  <2> SUFFICES ASSUME IInv, IInv', Located, RebuildExact, BookedExact, [Next]_vars
               PROVE  Located' /\ RebuildExact' /\ BookedExact'
    BY DEF EInv
  <2>1. ASSUME NEW c \in Claim, Create(c) PROVE Located' /\ RebuildExact' /\ BookedExact'
    BY <2>1, CreateLocated, CreateRebuild, CreateBooked
  <2>2. ASSUME NEW c \in Claim, Delete(c) PROVE Located' /\ RebuildExact' /\ BookedExact'
    BY <2>2, DeleteLocated, DeleteRebuild, DeleteBooked
  <2>3. CASE Sync \/ SyncFails \/ Restart
    BY <2>3, SyncLocated, SyncBooked
  <2>4. CASE UNCHANGED vars
    <3>1. UNCHANGED <<capacity, sync, vm, phase, id, read, drift, alien>>
      BY <2>4 DEF vars
    <3>2. (\A c \in Claim : OwnRunning(c)' <=> OwnRunning(c)) /\ RunningVMs' = RunningVMs
      BY <3>1 DEF OwnRunning, RunningVMs, Running
    <3>3. Reserved' = Reserved /\ Deleted' = Deleted
      BY <3>1, <3>2 DEF Reserved, Deleted
    <3>4. Located'
      BY <3>1, <3>2 DEF Located, NotYetCloned, StaysStarted, CleanupStarted
    <3>5. BookedExact'
      BY <3>1, <3>2, <3>3 DEF BookedExact
    <3>6. RebuildExact'
      BY <3>1, <3>2, <3>3 DEF RebuildExact, CleanRebuild, NoCreate, MeetsGoneVM, Counted
    <3> QED BY <3>4, <3>5, <3>6
  <2> QED BY <2>1, <2>2, <2>3, <2>4 DEF Next
<1> QED BY <1>1, InitEInv, Inductive, PTL DEF Spec

\* The totals are the sums that CapacityExact takes.
LEMMA SumsAre ==
    ASSUME IInv, NEW w \in [Claim -> Nat], NEW n,
           Sums(w, vm, RunningVMs, Reserved, read, Deleted, n)
    PROVE  n = SumFunction([i \in RunningVMs |-> w[vm[i].owner]])
                 + SumFunction([c \in Reserved |-> w[c]])
                 + SumFunction([c \in Deleted |-> w[read[c]]])
<1>0. TypeOK /\ HasRead
  BY DEF IInv
<1> DEFINE f == [i \in RunningVMs |-> w[vm[i].owner]]
           g == [c \in Reserved |-> w[c]]
           h == [c \in Deleted |-> w[read[c]]]
<1>1. PICK r, b, d \in Nat : /\ IsTotal(RunTable(w, vm), RunningVMs, r)
                             /\ IsTotal(w, Reserved, b)
                             /\ IsTotal(ReadTable(w, read), Deleted, d)
                             /\ n = r + b + d
  BY DEF Sums
<1>2. RunningVMs \subseteq VMID /\ Reserved \subseteq Claim /\ Deleted \subseteq Claim
  BY DEF RunningVMs, Reserved, Deleted
<1>3. IsFiniteSet(RunningVMs) /\ IsFiniteSet(Reserved) /\ IsFiniteSet(Deleted)
  BY <1>2, LifecycleAssumption, FS_Subset
<1>4. /\ \A i \in RunningVMs : RunTable(w, vm)[i] = f[i]
      /\ \A c \in Reserved : w[c] = g[c]
      /\ \A c \in Deleted : ReadTable(w, read)[c] = h[c]
  BY <1>2 DEF RunTable, ReadTable
<1>5. \A i \in RunningVMs : vm[i] \in VMState
  BY <1>0 DEF RunningVMs, Running, TypeOK
<1>6. f \in [RunningVMs -> Nat] /\ g \in [Reserved -> Nat] /\ h \in [Deleted -> Nat]
  BY <1>0, <1>2, <1>5 DEF VMState, HasRead, Deleted
<1> HIDE DEF f, g, h
<1>7. IsTotal(f, RunningVMs, r) /\ IsTotal(g, Reserved, b) /\ IsTotal(h, Deleted, d)
  BY <1>1, <1>4, TotalSame
<1>8. SumFunction(f) = r /\ SumFunction(g) = b /\ SumFunction(h) = d
  BY <1>3, <1>6, <1>7, TotalIsSum
<1> QED BY <1>1, <1>8 DEF f, g, h

\* The booked capacity is what the running VMs, the reservations and the
\* releases to come add up to, in every interleaving of creates, deletes and
\* rebuilds that CapacityExact does not except (cloudcapacity.go,
\* instance_utils.go).
THEOREM CapacityAccounted == Spec => []CapacityExact
<1>1. EInv => CapacityExact
  <2> SUFFICES ASSUME EInv, capacity # NoPolicy, ~drift, ~alien
               PROVE  /\ capacity.assignedMemory = RunningMemory
                           + SumFunction([c \in Reserved |-> SizeOf[c].memory])
                           + SumFunction([c \in Deleted |-> SizeOf[read[c]].memory])
                      /\ capacity.assignedCPUs = RunningCPUs
                           + SumFunction([c \in Reserved |-> SizeOf[c].cpus])
                           + SumFunction([c \in Deleted |-> SizeOf[read[c]].cpus])
    BY DEF CapacityExact
  <2>1. /\ Sums(MemoryOf, vm, RunningVMs, Reserved, read, Deleted, capacity.assignedMemory)
        /\ Sums(CPUsOf, vm, RunningVMs, Reserved, read, Deleted, capacity.assignedCPUs)
        /\ IInv
    BY DEF EInv, BookedExact
  <2>2. /\ capacity.assignedMemory = SumFunction([i \in RunningVMs |-> MemoryOf[vm[i].owner]])
                 + SumFunction([c \in Reserved |-> MemoryOf[c]])
                 + SumFunction([c \in Deleted |-> MemoryOf[read[c]]])
        /\ capacity.assignedCPUs = SumFunction([i \in RunningVMs |-> CPUsOf[vm[i].owner]])
                 + SumFunction([c \in Reserved |-> CPUsOf[c]])
                 + SumFunction([c \in Deleted |-> CPUsOf[read[c]]])
    BY <2>1, SizesType, SumsAre
  <2>3. \A i \in RunningVMs : vm[i] \in VMState
    BY <2>1 DEF IInv, RunningVMs, Running, TypeOK
  <2>4. \A c \in Deleted : read[c] \in Claim
    BY <2>1 DEF IInv, HasRead, Deleted
  <2>5. \A c \in Claim : MemoryOf[c] = SizeOf[c].memory /\ CPUsOf[c] = SizeOf[c].cpus
    BY DEF MemoryOf, CPUsOf
  <2>6. /\ [i \in RunningVMs |-> MemoryOf[vm[i].owner]] = [i \in RunningVMs |-> SizeOf[vm[i].owner].memory]
        /\ [i \in RunningVMs |-> CPUsOf[vm[i].owner]] = [i \in RunningVMs |-> SizeOf[vm[i].owner].cpus]
    BY <2>3, <2>5 DEF VMState
  <2>7. /\ [c \in Reserved |-> MemoryOf[c]] = [c \in Reserved |-> SizeOf[c].memory]
        /\ [c \in Reserved |-> CPUsOf[c]] = [c \in Reserved |-> SizeOf[c].cpus]
    BY <2>5 DEF Reserved
  <2>8. /\ [c \in Deleted |-> MemoryOf[read[c]]] = [c \in Deleted |-> SizeOf[read[c]].memory]
        /\ [c \in Deleted |-> CPUsOf[read[c]]] = [c \in Deleted |-> SizeOf[read[c]].cpus]
    BY <2>4, <2>5
  <2> QED BY <2>2, <2>6, <2>7, <2>8 DEF RunningMemory, RunningCPUs
<1> QED BY <1>1, Accounts, PTL

=============================================================================
