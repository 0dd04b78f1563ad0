--------------------------- MODULE NodeIpamProofs ---------------------------
(***************************************************************************)
(* Proofs about NodeIpam: for any number of VMs, bridges and subnets, and  *)
(* subnets of any size, addresses are unique, hosts keep theirs, and every *)
(* bit that is set has a reason.                                           *)
(*                                                                         *)
(* Everything here is for subnets that are equal or disjoint; with nested  *)
(* subnets the code makes no promise.                                      *)
(***************************************************************************)
EXTENDS NodeIpam, SequenceTheorems, WellFoundedInduction, NaturalsInduction, TLAPS

-----------------------------------------------------------------------------
(* The inductive invariant *)

Nets == {i.net : i \in HostIfaces} \cup {t.net : t \in Templates}

Pool == [net : Nets, bits : SUBSET Nat]

BitsInRange(p) == \A i \in p.bits : i = 0 \/ i \in 0 .. MaxIPs(p.net) - 1

\* Every variable has its type.  A VM that holds an address has it from the
\* subnet of its template.
Shapes ==
    /\ todo \in SUBSET HostIfaces
    /\ pools \in Seq(Pool)
    /\ \A k \in DOMAIN pools : BitsInRange(pools[k])
    /\ subnets \in Seq(DOMAIN pools)
    /\ phase \in [VM -> Phases]
    /\ template \in [VM -> Templates \cup {NoTemplate}]
    /\ \A v \in VM : phase[v] # "absent" => template[v] \in Templates
    /\ seen \in [VM -> Seq(DOMAIN pools)]
    /\ addr \in [VM -> Int]
    /\ \A v \in Holding : HasBit(template[v].net, addr[v])
    /\ nodes \subseteq VM
    /\ pending \subseteq nodes
    /\ faults \subseteq {"unseen", "lost", "full", "restart"}

\* No VM is being created before the bridges are done.
Working == \A v \in VM : phase[v] \in {"config", "append", "occupy"} => Ready

\* The address that a VM holds is set in the pool that serves it.
Marked(v) ==
    /\ Matches(addr[v]) # {}
    /\ HostIndex(template[v].net, addr[v]) \in pools[Serving(addr[v])].bits

Served == faults \subseteq {"unseen"} => \A v \in Holding : Marked(v)

Distinct ==
    faults \subseteq {"unseen"} => \A v, w \in Holding : v # w => addr[v] # addr[w]

\* The list has a pool for the subnet of the bridge.
HasPool(list, i) == \E j \in DOMAIN list : pools[list[j]].net = i.net

\* Each bridge that was visited has its pool in the list and in every copy.
Listed ==
    \A i \in HostIfaces \ todo :
        /\ HasPool(subnets, i)
        /\ \A v \in VM : phase[v] = "append" => HasPool(seen[v], i)

\* No create makes another pool for the subnet of a host.
Foreign ==
    \A v \in VM : phase[v] = "append" => \A i \in HostIfaces : template[v].net # i.net

\* During the start-up each subnet has one pool, and it is in the list.
Starting ==
    todo # {} =>
        /\ \A k \in DOMAIN pools : \E j \in DOMAIN subnets : subnets[j] = k
        /\ \A k, l \in DOMAIN pools : pools[k].net = pools[l].net => k = l

\* What holds when every bridge could be read.
Bridged == "unseen" \notin faults => Listed /\ Foreign /\ Starting

\* Every pool of a bridge's subnet has the bit of the bridge.
HostBits ==
    faults \cap {"unseen", "full"} = {} =>
        \A k \in DOMAIN pools : \A i \in HostIfaces \ todo :
            pools[k].net = i.net => HostIndex(i.net, i.ip) \in pools[k].bits

HostsApart ==
    faults \cap {"unseen", "full"} = {} =>
        \A v \in Holding, i \in HostIfaces : addr[v] # i.ip

\* The reasons for a bit.
Reason(ip) ==
    \/ ip \in leaked \cup {addr[v] : v \in Holding} \cup {NoAddress}
    \/ \E i \in HostIfaces : ip \in {i.ip, i.gateway}

Explained ==
    "lost" \notin faults =>
        \A k \in DOMAIN subnets : \A bit \in pools[subnets[k]].bits :
            LET ip == HostAddress(pools[subnets[k]].net, bit)
            IN  Reason(ip) \/ Serving(ip) # subnets[k]

IInv == /\ Shapes /\ Working /\ Served /\ Distinct
        /\ Bridged /\ HostBits /\ HostsApart /\ Explained

-----------------------------------------------------------------------------
(* Addresses, subnets and pools *)

\* The least of a set of natural numbers.
LEMMA MinOf ==
    ASSUME NEW S, S \subseteq Nat, S # {}
    PROVE  Min(S) \in S /\ \A y \in S : Min(S) <= y
<1> DEFINE R == {ss \in Nat \X Nat : ss[1] < ss[2]}
<1>1. IsWellFoundedOn(R, Nat)
  BY NatLessThanWellFounded, Zenon DEF OpToRel
<1>2. PICK m \in S : \A n \in S : ~(<<n, m>> \in R)
  <2> HIDE DEF R
  <2> QED BY <1>1, WFMin
<1>3. ASSUME NEW n \in S PROVE m <= n
  <2>1. m \in Nat /\ n \in Nat /\ <<n, m>> \notin R
    BY <1>2
  <2> QED BY <2>1
<1>4. \E x \in S : \A y \in S : x <= y
  BY <1>3
<1> QED BY <1>4 DEF Min

\* Subnets have a base and a size.
LEMMA NetsOf ==
    ASSUME NEW net \in Nets
    PROVE  net \in Subnet /\ net.base \in Nat /\ net.size \in Nat /\ net.size > 0
<1>1. \A i \in HostIfaces : i.net \in Subnet
  BY IpamAssumption DEF Iface
<1>2. \A t \in Templates : t.net \in Subnet
  BY IpamAssumption
<1> QED BY <1>1, <1>2 DEF Nets, Subnet

\* Two subnets with an address in common are the same.
LEMMA SameNet ==
    ASSUME SubnetsDisjoint, NEW m \in Nets, NEW n \in Nets, NEW ip \in Int,
           Contains(m, ip), Contains(n, ip)
    PROVE  m = n
<1>1. m = n \/ m.base + m.size <= n.base \/ n.base + n.size <= m.base
  BY DEF SubnetsDisjoint, Nets
<1>2. /\ m.base \in Nat /\ m.size \in Nat /\ n.base \in Nat /\ n.size \in Nat
  BY NetsOf
<1> QED BY <1>1, <1>2 DEF Contains

\* Bits and addresses of a subnet correspond to each other.
LEMMA BitAndAddress ==
    ASSUME NEW net \in Nets, NEW ip \in Int, HasBit(net, ip)
    PROVE  /\ HostIndex(net, ip) \in 0 .. MaxIPs(net) - 1
           /\ HostIndex(net, ip) \in Nat
           /\ HostAddress(net, HostIndex(net, ip)) = ip
           /\ ip # NoAddress
BY NetsOf DEF HasBit, Contains, HostIndex, HostAddress, MaxIPs, NoAddress

\* Different addresses have different bits.
LEMMA BitsDiffer ==
    ASSUME NEW net \in Nets, NEW a \in Int, NEW b \in Int, a # b
    PROVE  HostIndex(net, a) # HostIndex(net, b)
BY NetsOf DEF HostIndex

\* A bit of a pool is that of an address of the subnet, unless the subnet has
\* none.
LEMMA AddressOfBit ==
    ASSUME NEW net \in Nets, NEW bit \in Nat,
           bit = 0 \/ bit \in 0 .. MaxIPs(net) - 1
    PROVE  /\ HostAddress(net, bit) \in Int
           /\ HostAddress(net, bit) # NoAddress =>
                  /\ HasBit(net, HostAddress(net, bit))
                  /\ HostIndex(net, HostAddress(net, bit)) = bit
BY NetsOf DEF HasBit, Contains, HostIndex, HostAddress, MaxIPs, NoAddress

\* Occupy sets the bit of the address and no other.
LEMMA OccupiedPool ==
    ASSUME NEW p \in Pool, BitsInRange(p), NEW ip \in Int
    PROVE  /\ Occupied(p, ip) \in Pool /\ BitsInRange(Occupied(p, ip))
           /\ Occupied(p, ip).net = p.net /\ p.bits \subseteq Occupied(p, ip).bits
           /\ HasBit(p.net, ip) => HostIndex(p.net, ip) \in Occupied(p, ip).bits
           /\ \A bit \in Occupied(p, ip).bits \ p.bits : HostAddress(p.net, bit) = ip
<1>1. p.net \in Nets /\ p.bits \in SUBSET Nat
  BY DEF Pool
<1>2. CASE HasBit(p.net, ip)
  <2>1. PICK b \in Nat : b = HostIndex(p.net, ip) /\ b \in 0 .. MaxIPs(p.net) - 1
                          /\ HostAddress(p.net, b) = ip
    BY <1>1, <1>2, BitAndAddress
  <2>2. Occupied(p, ip) = [p EXCEPT !.bits = p.bits \cup {b}]
    BY <1>2, <2>1 DEF Occupied
  <2>3. PICK q : q = Occupied(p, ip)
    OBVIOUS
  <2>4. q \in Pool /\ q.net = p.net /\ q.bits = p.bits \cup {b}
    BY <1>1, <2>2, <2>3 DEF Pool
  <2> QED BY <1>2, <2>1, <2>3, <2>4 DEF BitsInRange
<1>3. CASE ~HasBit(p.net, ip)
  BY <1>3 DEF Occupied
<1> QED BY <1>2, <1>3

\* Release clears the bit of the address and no other.
LEMMA FreedPool ==
    ASSUME NEW p \in Pool, BitsInRange(p), NEW ip \in Int
    PROVE  /\ Freed(p, ip) \in Pool /\ BitsInRange(Freed(p, ip))
           /\ Freed(p, ip).net = p.net
           /\ HasBit(p.net, ip) => Freed(p, ip).bits = p.bits \ {HostIndex(p.net, ip)}
           /\ ~HasBit(p.net, ip) => Freed(p, ip).bits = p.bits
<1>1. p.net \in Nets /\ p.bits \in SUBSET Nat
  BY DEF Pool
<1>2. CASE HasBit(p.net, ip)
  <2>1. PICK b : b = HostIndex(p.net, ip)
    OBVIOUS
  <2>2. Freed(p, ip) = [p EXCEPT !.bits = p.bits \ {b}]
    BY <1>2, <2>1 DEF Freed
  <2>3. PICK q : q = Freed(p, ip)
    OBVIOUS
  <2>4. q \in Pool /\ q.net = p.net /\ q.bits = p.bits \ {b}
    BY <1>1, <2>2, <2>3 DEF Pool
  <2> QED BY <1>2, <2>1, <2>3, <2>4 DEF BitsInRange
<1>3. CASE ~HasBit(p.net, ip)
  BY <1>3 DEF Freed
<1> QED BY <1>2, <1>3

\* The search of Next finds a clear bit if there is one, and else the bit that
\* it started from.
LEMMA CandidateOf ==
    ASSUME NEW p \in Pool, BitsInRange(p), NEW hint \in Int
    PROVE  /\ Candidate(p, hint) \in Nat
           /\ Candidate(p, hint) = 0 \/ Candidate(p, hint) \in 0 .. MaxIPs(p.net) - 1
           /\ FreeBits(p) # {} => Candidate(p, hint) \notin p.bits
<1>0. p.net \in Nets /\ p.net.base \in Nat /\ p.net.size \in Nat
  BY NetsOf DEF Pool
<1>1. PICK free \in SUBSET Nat : free = FreeBits(p)
  <2>1. \A b \in FreeBits(p) : b \in Nat
    BY <1>0 DEF FreeBits, MaxIPs
  <2> QED BY <2>1
<1>2. PICK first : first = FirstBit(p, hint)
  OBVIOUS
<1>3. first \in Nat /\ (first = 0 \/ first \in 0 .. MaxIPs(p.net) - 1)
  BY <1>0, <1>2 DEF FirstBit, HostIndex, Contains, MaxIPs
<1> DEFINE ahead == {i \in free : first <= i}
<1>4. Candidate(p, hint) = IF ahead # {} THEN Min(ahead)
                           ELSE IF free # {} THEN Min(free) ELSE first
  BY <1>1, <1>2 DEF Candidate
<1>5. free # {} => Candidate(p, hint) \in free
  <2>1. CASE ahead # {}
    <3>1. ahead \subseteq Nat /\ ahead \subseteq free
      OBVIOUS
    <3> HIDE DEF ahead
    <3>2. Min(ahead) \in ahead
      BY <2>1, <3>1, MinOf
    <3> QED BY <1>4, <2>1, <3>1, <3>2
  <2>2. CASE ahead = {} /\ free # {}
    <3>1. Min(free) \in free
      BY <2>2, MinOf
    <3> HIDE DEF ahead
    <3> QED BY <1>4, <2>2, <3>1
  <2> QED BY <2>1, <2>2
<1>6. free = {} => Candidate(p, hint) = first
  <2>1. free = {} => ahead = {}
    OBVIOUS
  <2> HIDE DEF ahead
  <2> QED BY <1>4, <2>1
<1>7. \A b \in free : b \in Nat /\ b \in 0 .. MaxIPs(p.net) - 1 /\ b \notin p.bits
  BY <1>1 DEF FreeBits
<1> QED BY <1>1, <1>3, <1>5, <1>6, <1>7

\* Next sets one bit, the one of the address that it returns.
LEMMA TakenPool ==
    ASSUME NEW p \in Pool, BitsInRange(p), NEW hint \in Int
    PROVE  /\ Taken(p, hint) \in Pool /\ BitsInRange(Taken(p, hint))
           /\ Taken(p, hint).net = p.net
           /\ Taken(p, hint).bits = p.bits \cup {Candidate(p, hint)}
           /\ NextAddress(p, hint) \in Int
           /\ NextAddress(p, hint) # NoAddress =>
                  /\ HasBit(p.net, NextAddress(p, hint))
                  /\ HostIndex(p.net, NextAddress(p, hint)) = Candidate(p, hint)
<1>1. p.net \in Nets /\ p.bits \in SUBSET Nat
  BY DEF Pool
<1>2. PICK b \in Nat :
        /\ b = Candidate(p, hint)
        /\ b = 0 \/ b \in 0 .. MaxIPs(p.net) - 1
  BY CandidateOf
<1>3. Taken(p, hint) = [p EXCEPT !.bits = p.bits \cup {b}]
  BY <1>2 DEF Taken
<1>4. PICK q : q = Taken(p, hint)
  OBVIOUS
<1>5. q \in Pool /\ q.net = p.net /\ q.bits = p.bits \cup {b}
  BY <1>1, <1>3, <1>4 DEF Pool
<1>6. NextAddress(p, hint) = HostAddress(p.net, b)
  BY <1>2 DEF NextAddress
<1>7. /\ HostAddress(p.net, b) \in Int
      /\ HostAddress(p.net, b) # NoAddress =>
            /\ HasBit(p.net, HostAddress(p.net, b))
            /\ HostIndex(p.net, HostAddress(p.net, b)) = b
  BY <1>1, <1>2, AddressOfBit
<1> QED BY <1>2, <1>4, <1>5, <1>6, <1>7 DEF BitsInRange

-----------------------------------------------------------------------------
(* The list of pools *)

\* A function over the places of a list is a list.
LEMMA FunctionIsList ==
    ASSUME NEW S, NEW s \in Seq(S), NEW T, NEW f \in [DOMAIN s -> T]
    PROVE  f \in Seq(T) /\ DOMAIN f = DOMAIN s
<1>1. Len(s) \in Nat /\ DOMAIN s = 1 .. Len(s)
  BY LenProperties
<1> QED BY <1>1, SeqDef

\* What Shapes says of the pool at a place of a list.
LEMMA PoolAt ==
    ASSUME Shapes, NEW list \in Seq(DOMAIN pools), NEW j \in DOMAIN list
    PROVE  /\ list[j] \in DOMAIN pools /\ pools[list[j]] \in Pool
           /\ pools[list[j]].net \in Nets /\ BitsInRange(pools[list[j]])
<1>1. list[j] \in DOMAIN pools
  BY ElementOfSeq, LenProperties
<1>2. pools[list[j]] \in Pool
  BY <1>1, ElementOfSeq, LenProperties DEF Shapes
<1> QED BY <1>1, <1>2 DEF Shapes, Pool

\* The pool that serves an address is one of the list, and contains it.
LEMMA ServingOf ==
    ASSUME Shapes, NEW ip \in Int, Matches(ip) # {}
    PROVE  /\ Serving(ip) \in DOMAIN pools /\ pools[Serving(ip)] \in Pool
           /\ BitsInRange(pools[Serving(ip)])
           /\ pools[Serving(ip)].net \in Nets /\ Contains(pools[Serving(ip)].net, ip)
           /\ \E j \in DOMAIN subnets : subnets[j] = Serving(ip)
<1>1. Matches(ip) \subseteq Nat /\ Matches(ip) \subseteq DOMAIN subnets
  BY LenProperties DEF Matches, Shapes
<1>2. PICK j \in Matches(ip) : j = Min(Matches(ip))
  BY <1>1, MinOf
<1>3. j \in DOMAIN subnets /\ Contains(pools[subnets[j]].net, ip) /\ subnets[j] = Serving(ip)
  BY <1>2 DEF Matches, Serving
<1>4. subnets \in Seq(DOMAIN pools)
  BY DEF Shapes
<1> QED BY <1>3, <1>4, PoolAt

\* Two addresses of a subnet are served by the same pool, of that subnet.
LEMMA SameServing ==
    ASSUME SubnetsDisjoint, Shapes, NEW net \in Nets, NEW a \in Int, NEW b \in Int,
           Contains(net, a), Contains(net, b)
    PROVE  /\ Matches(a) = Matches(b) /\ Serving(a) = Serving(b)
           /\ Matches(a) # {} => pools[Serving(a)].net = net
<1>1. ASSUME NEW j \in DOMAIN subnets
      PROVE  /\ Contains(pools[subnets[j]].net, a) <=> pools[subnets[j]].net = net
             /\ Contains(pools[subnets[j]].net, b) <=> pools[subnets[j]].net = net
  <2>1. pools[subnets[j]].net \in Nets
    BY PoolAt DEF Shapes
  <2> QED BY <2>1, SameNet
<1>2. Matches(a) = Matches(b)
  BY <1>1 DEF Matches
<1>3. Serving(a) = Serving(b)
  BY <1>2 DEF Serving
<1>4. Matches(a) # {} => pools[Serving(a)].net = net
  BY ServingOf, SameNet
<1> QED BY <1>2, <1>3, <1>4

\* A step keeps the pools with their subnets, and may add others ...
PoolsStay ==
    /\ DOMAIN pools \subseteq DOMAIN pools'
    /\ \A k \in DOMAIN pools : pools'[k].net = pools[k].net

\* ... and the list, which others may be appended to.
ListStays ==
    /\ DOMAIN subnets \subseteq DOMAIN subnets'
    /\ \A j \in DOMAIN subnets : subnets'[j] = subnets[j]
    /\ \A j \in DOMAIN subnets' \ DOMAIN subnets :
           subnets'[j] \notin DOMAIN pools /\ \A i \in DOMAIN subnets : i < j

\* An address that is served stays with its pool.
LEMMA ServingStays ==
    ASSUME Shapes, Shapes', PoolsStay, ListStays, NEW ip \in Int, Matches(ip) # {}
    PROVE  Matches(ip)' # {} /\ Serving(ip)' = Serving(ip)
<1> DEFINE S == Matches(ip)
           T == Matches(ip)'
<1>1. S \subseteq Nat /\ T \subseteq Nat /\ S \subseteq DOMAIN subnets
      /\ T \subseteq DOMAIN subnets'
  BY LenProperties DEF Matches, Shapes
<1>2. ASSUME NEW j \in DOMAIN subnets PROVE j \in S <=> j \in T
  <2>1. subnets[j] \in DOMAIN pools
    BY PoolAt DEF Shapes
  <2>2. subnets'[j] = subnets[j] /\ pools'[subnets[j]].net = pools[subnets[j]].net
        /\ j \in DOMAIN subnets'
    BY <2>1 DEF ListStays, PoolsStay
  <2> QED BY <2>2 DEF Matches
<1>3. PICK s \in S : s = Min(S) /\ \A y \in S : s <= y
  BY <1>1, MinOf
<1>4. T # {}
  BY <1>1, <1>2, <1>3
<1>5. PICK t \in T : t = Min(T) /\ \A y \in T : t <= y
  <2> HIDE DEF T
  <2> QED BY <1>1, <1>4, MinOf
<1>6. s = t
  <2>1. s \in T /\ t <= s
    BY <1>1, <1>2, <1>3, <1>5
  <2>2. t \in DOMAIN subnets
    BY <1>1, <1>3, <1>5, <2>1 DEF ListStays
  <2> QED BY <1>1, <1>2, <1>3, <1>5, <2>1, <2>2
<1>7. Serving(ip) = subnets[s] /\ Serving(ip)' = subnets'[t]
  BY <1>3, <1>5 DEF Serving
<1>8. subnets'[s] = subnets[s]
  BY <1>1, <1>3 DEF ListStays
<1> QED BY <1>4, <1>6, <1>7, <1>8

-----------------------------------------------------------------------------
(* Steps in general *)

HoldingPhases == {"starting", "running", "deleted"}
CreatingPhases == {"config", "append", "occupy"}

\* A step of VM v, to phase ph with template t, address a and copy l of the list.
VMStep(v, ph, t, a, l) ==
    /\ phase' = [phase EXCEPT ![v] = ph]
    /\ template' = [template EXCEPT ![v] = t]
    /\ addr' = [addr EXCEPT ![v] = a]
    /\ seen' = [seen EXCEPT ![v] = l]

\* The pools may change, their subnets and the list do not.
SameList ==
    /\ UNCHANGED <<todo, subnets>>
    /\ pools' \in Seq(Pool)
    /\ DOMAIN pools' = DOMAIN pools
    /\ \A k \in DOMAIN pools : pools'[k].net = pools[k].net /\ BitsInRange(pools'[k])

BitsGrow == \A k \in DOMAIN pools : pools[k].bits \subseteq pools'[k].bits

\* Nobody gets an address in the step.
HoldersStay ==
    \A v \in Holding' :
        v \in Holding /\ addr'[v] = addr[v] /\ template'[v] = template[v]

\* What a step of one VM does to the functions over VMs.
LEMMA VMStepOf ==
    ASSUME Shapes, NEW v \in VM, NEW ph, NEW t, NEW a, NEW l, VMStep(v, ph, t, a, l)
    PROVE  /\ phase'[v] = ph /\ template'[v] = t /\ addr'[v] = a /\ seen'[v] = l
           /\ \A w \in VM \ {v} : /\ phase'[w] = phase[w] /\ template'[w] = template[w]
                                  /\ addr'[w] = addr[w] /\ seen'[w] = seen[w]
           /\ v \in Holding' <=> ph \in HoldingPhases
           /\ \A w \in VM \ {v} : w \in Holding' <=> w \in Holding
BY DEF VMStep, Shapes, Holding, HoldingPhases

\* A list that is not touched stays.
LEMMA SameListStays ==
    ASSUME SameList
    PROVE  PoolsStay /\ ListStays
BY DEF SameList, PoolsStay, ListStays

\* Types after a step of one VM.
LEMMA ShapesKept ==
    ASSUME Shapes, SameList, NEW v \in VM, NEW ph \in Phases, NEW t \in Templates \cup {NoTemplate},
           NEW a \in Int, NEW l \in Seq(DOMAIN pools), VMStep(v, ph, t, a, l),
           ph # "absent" => t \in Templates,
           ph \in HoldingPhases => HasBit(t.net, a),
           nodes' \subseteq VM, pending' \subseteq nodes',
           faults' \subseteq {"unseen", "lost", "full", "restart"}
    PROVE  Shapes'
<1>1. /\ phase' \in [VM -> Phases] /\ template' \in [VM -> Templates \cup {NoTemplate}]
      /\ addr' \in [VM -> Int] /\ seen' \in [VM -> Seq(DOMAIN pools)]
  BY DEF VMStep, Shapes
<1>2. /\ todo' \in SUBSET HostIfaces /\ pools' \in Seq(Pool)
      /\ \A k \in DOMAIN pools' : BitsInRange(pools'[k])
      /\ subnets' \in Seq(DOMAIN pools') /\ seen' \in [VM -> Seq(DOMAIN pools')]
  BY <1>1 DEF SameList, Shapes
<1>3. \A w \in VM : phase'[w] # "absent" => template'[w] \in Templates
  <2>1. phase'[v] # "absent" => template'[v] \in Templates
    BY VMStepOf
  <2>2. \A w \in VM \ {v} : phase'[w] # "absent" => template'[w] \in Templates
    BY VMStepOf DEF Shapes
  <2> QED BY <2>1, <2>2
<1>4. \A w \in Holding' : HasBit(template'[w].net, addr'[w])
  <2> SUFFICES ASSUME NEW w \in Holding' PROVE HasBit(template'[w].net, addr'[w])
    OBVIOUS
  <2>1. w \in VM
    BY DEF Holding
  <2>2. CASE w = v
    BY <2>2, VMStepOf
  <2>3. CASE w # v
    BY <2>1, <2>3, VMStepOf DEF Shapes
  <2> QED BY <2>2, <2>3
<1> QED BY <1>1, <1>2, <1>3, <1>4 DEF Shapes

\* Creates run only when the bridges are done.
LEMMA WorkingKept ==
    ASSUME Shapes, Working, todo' = todo, NEW v \in VM, NEW ph, NEW t, NEW a, NEW l,
           VMStep(v, ph, t, a, l), ph \in CreatingPhases => Ready
    PROVE  Working'
BY VMStepOf DEF Working, Ready, CreatingPhases

\* Bits that stay serve the VMs that hold an address.
LEMMA ServedKept ==
    ASSUME Shapes, Shapes', PoolsStay, ListStays, BitsGrow, HoldersStay,
           faults \subseteq faults', Served, Distinct
    PROVE  Served' /\ Distinct'
<1>1. Distinct'
  BY DEF Distinct, HoldersStay
<1>2. Served'
  <2> SUFFICES ASSUME faults' \subseteq {"unseen"}, NEW v \in Holding'
               PROVE  Marked(v)'
    BY DEF Served
  <2>1. /\ v \in Holding /\ addr'[v] = addr[v] /\ template'[v] = template[v]
        /\ v \in VM /\ addr[v] \in Int
    BY DEF HoldersStay, Holding, Shapes
  <2>2. Marked(v)
    BY <2>1 DEF Served
  <2>3. PICK ip \in Int : ip = addr[v]
    BY <2>1
  <2>4. Matches(ip) # {} /\ HostIndex(template[v].net, ip) \in pools[Serving(ip)].bits
    BY <2>2, <2>3 DEF Marked
  <2>5. Matches(ip)' # {} /\ Serving(ip)' = Serving(ip) /\ Serving(ip) \in DOMAIN pools
    BY <2>4, ServingStays, ServingOf
  <2>6. HostIndex(template[v].net, ip) \in pools'[Serving(ip)].bits
    BY <2>4, <2>5 DEF BitsGrow
  <2>7. Matches(addr[v])' = Matches(ip)' /\ Serving(addr[v])' = Serving(ip)'
    BY <2>1, <2>3 DEF Matches, Serving
  <2> QED BY <2>1, <2>3, <2>5, <2>6, <2>7 DEF Marked
<1> QED BY <1>1, <1>2

\* Who keeps an address keeps it apart from the bridges.
LEMMA ApartKept ==
    ASSUME HoldersStay, faults \subseteq faults', HostsApart
    PROVE  HostsApart'
BY DEF HoldersStay, HostsApart

\* A list that stays has the pools of the bridges.
LEMMA BridgedKept ==
    ASSUME Shapes, SameList, Bridged, faults \subseteq faults',
           \A v \in VM : phase'[v] = "append" =>
               phase[v] = "append" /\ seen'[v] = seen[v] /\ template'[v] = template[v]
    PROVE  Bridged'
<1> SUFFICES ASSUME "unseen" \notin faults' PROVE (Listed /\ Foreign /\ Starting)'
  BY DEF Bridged
<1>0. Listed /\ Foreign /\ Starting
  BY DEF Bridged
<1>1. ASSUME NEW list \in Seq(DOMAIN pools), NEW i, HasPool(list, i) PROVE HasPool(list, i)'
  BY <1>1, PoolAt DEF HasPool, SameList
<1>2. /\ subnets \in Seq(DOMAIN pools) /\ \A v \in VM : seen[v] \in Seq(DOMAIN pools)
      /\ UNCHANGED <<todo, subnets>>
  BY DEF Shapes, SameList
<1>3. ASSUME NEW i \in HostIfaces \ todo'
      PROVE  /\ HasPool(subnets, i)'
             /\ \A v \in VM : phase'[v] = "append" => HasPool(seen[v], i)'
  <2>1. HasPool(subnets, i)'
    <3>1. HasPool(subnets, i)
      BY <1>0, <1>2 DEF Listed
    <3> QED BY <1>1, <1>2, <3>1 DEF HasPool
  <2>2. ASSUME NEW v \in VM, phase'[v] = "append" PROVE HasPool(seen[v], i)'
    <3>1. PICK list \in Seq(DOMAIN pools) : list = seen[v] /\ list = seen'[v]
      BY <1>2, <2>2
    <3>2. HasPool(list, i)
      BY <1>0, <1>2, <2>2, <3>1 DEF Listed
    <3>3. HasPool(list, i)'
      BY <1>1, <3>2
    <3> QED BY <3>1, <3>3 DEF HasPool
  <2> QED BY <2>1, <2>2
<1>4. \A v \in VM : phase'[v] = "append" => \A i \in HostIfaces : template'[v].net # i.net
  BY <1>0 DEF Foreign
<1>5. todo' # {} =>
        /\ \A k \in DOMAIN pools' : \E j \in DOMAIN subnets' : subnets'[j] = k
        /\ \A k, l \in DOMAIN pools' : pools'[k].net = pools'[l].net => k = l
  BY <1>0 DEF Starting, SameList
<1> QED BY <1>3, <1>4, <1>5 DEF Listed, Foreign, Starting

\* Bits that stay keep the bridges apart.
LEMMA HostBitsKept ==
    ASSUME SameList, BitsGrow, faults \subseteq faults', HostBits
    PROVE  HostBits'
BY DEF HostBits, SameList, BitsGrow

\* New bits have a reason, and old bits keep theirs.
LEMMA ExplainedKept ==
    ASSUME Shapes, Shapes', PoolsStay, ListStays, "lost" \in faults => "lost" \in faults', Explained,
           \A ip : Reason(ip) => Reason(ip)',
           \A k \in DOMAIN pools : \A bit \in pools'[k].bits \ pools[k].bits : \A ip :
               ip = HostAddress(pools[k].net, bit) => Reason(ip)',
           \A k \in DOMAIN pools' \ DOMAIN pools : \A bit \in pools'[k].bits : \A ip :
               ip = HostAddress(pools'[k].net, bit) => Reason(ip)'
    PROVE  Explained'
<1> SUFFICES ASSUME "lost" \notin faults', NEW j \in DOMAIN subnets',
                    NEW bit \in pools'[subnets'[j]].bits,
                    NEW ip, ip = HostAddress(pools'[subnets'[j]].net, bit)
             PROVE  Reason(ip)' \/ Serving(ip)' # subnets'[j]
  BY DEF Explained, Reason, Serving, Matches
<1>0. subnets'[j] \in DOMAIN pools'
  BY PoolAt, ElementOfSeq, LenProperties DEF Shapes
<1>1. CASE j \notin DOMAIN subnets
  <2>1. subnets'[j] \notin DOMAIN pools
    BY <1>1 DEF ListStays
  <2> QED BY <1>0, <2>1
<1>2. CASE j \in DOMAIN subnets
  <2>1. PICK k \in DOMAIN pools : k = subnets[j] /\ pools[k] \in Pool /\ BitsInRange(pools[k])
    BY <1>2, PoolAt DEF Shapes
  <2>2. subnets'[j] = k /\ pools'[k].net = pools[k].net
    BY <1>2, <2>1 DEF ListStays, PoolsStay
  <2>3. CASE bit \notin pools[k].bits
    BY <2>1, <2>2, <2>3
  <2>4. CASE bit \in pools[k].bits
    <3>1. pools[k].net \in Nets /\ bit \in Nat /\ (bit = 0 \/ bit \in 0 .. MaxIPs(pools[k].net) - 1)
      BY <2>1, <2>4 DEF Pool, BitsInRange
    <3>2. /\ ip = HostAddress(pools[k].net, bit) /\ ip \in Int
          /\ ip # NoAddress => HasBit(pools[k].net, ip)
      BY <2>2, <3>1, AddressOfBit
    <3>3. Reason(ip) \/ Serving(ip) # k
      BY <1>2, <2>1, <2>4, <3>2 DEF Explained
    <3>4. CASE Reason(ip)
      BY <2>2, <3>2, <3>4
    <3>5. CASE ~Reason(ip)
      <4>1. ip # NoAddress
        BY <3>5 DEF Reason
      <4>2. Matches(ip) # {}
        <5>1. Contains(pools[subnets[j]].net, ip)
          BY <2>1, <3>2, <4>1 DEF HasBit
        <5> QED BY <1>2, <5>1 DEF Matches
      <4>3. Serving(ip)' = Serving(ip)
        BY <3>2, <4>2, ServingStays
      <4> QED BY <2>2, <3>2, <3>3, <3>5, <4>3
    <3> QED BY <3>4, <3>5
  <2> QED BY <2>3, <2>4
<1> QED BY <1>1, <1>2

\* A step of one VM in which nobody gets an address and no bit is cleared.
LEMMA StepKeeps ==
    ASSUME IInv, SameList, BitsGrow, Bridged', faults \subseteq faults',
           faults' \subseteq {"unseen", "lost", "full", "restart"},
           NEW v \in VM, NEW ph \in Phases, NEW t \in Templates \cup {NoTemplate},
           NEW a \in Int, NEW l \in Seq(DOMAIN pools), VMStep(v, ph, t, a, l),
           ph # "absent" => t \in Templates,
           ph \in HoldingPhases =>
               phase[v] \in HoldingPhases /\ t = template[v] /\ a = addr[v],
           phase[v] \in HoldingPhases => ph \in HoldingPhases \/ addr[v] \in leaked',
           ph \in CreatingPhases => Ready,
           leaked \subseteq leaked', nodes' \subseteq VM, pending' \subseteq nodes',
           \A k \in DOMAIN pools : \A bit \in pools'[k].bits \ pools[k].bits : \A ip :
               ip = HostAddress(pools[k].net, bit) => Reason(ip)'
    PROVE  IInv'
<1>0. /\ Shapes /\ Working /\ Served /\ Distinct /\ Bridged /\ HostBits /\ HostsApart
      /\ Explained /\ PoolsStay /\ ListStays
  BY SameListStays DEF IInv
<1>1. v \in Holding <=> phase[v] \in HoldingPhases
  BY DEF Holding, HoldingPhases
<1>2. HoldersStay
  <2> SUFFICES ASSUME NEW w \in Holding'
               PROVE  w \in Holding /\ addr'[w] = addr[w] /\ template'[w] = template[w]
    BY DEF HoldersStay
  <2>1. w \in VM
    BY DEF Holding
  <2>2. CASE w = v
    BY <1>0, <1>1, <2>2, VMStepOf
  <2>3. CASE w # v
    BY <1>0, <2>1, <2>3, VMStepOf
  <2> QED BY <2>2, <2>3
<1>3. Shapes'
  <2>1. ph \in HoldingPhases => HasBit(t.net, a)
    BY <1>0, <1>1 DEF Shapes
  <2> QED BY <1>0, <2>1, ShapesKept
<1>4. Working'
  BY <1>0, WorkingKept DEF SameList
<1>5. Served' /\ Distinct' /\ HostsApart' /\ HostBits'
  BY <1>0, <1>2, <1>3, ServedKept, ApartKept, HostBitsKept
<1>6. ASSUME NEW ip, Reason(ip) PROVE Reason(ip)'
  <2>1. CASE \E w \in Holding : ip = addr[w]
    <3>1. PICK w \in Holding : ip = addr[w]
      BY <2>1
    <3>2. w \in VM
      BY DEF Holding
    <3>3. CASE w = v
      <4>1. (v \in Holding' /\ addr'[v] = addr[v]) \/ addr[v] \in leaked'
        BY <1>0, <1>1, <3>3, VMStepOf
      <4> QED BY <3>1, <3>3, <4>1 DEF Reason
    <3>4. CASE w # v
      <4>1. w \in Holding' /\ addr'[w] = ip
        BY <1>0, <3>1, <3>2, <3>4, VMStepOf
      <4> QED BY <4>1 DEF Reason
    <3> QED BY <3>3, <3>4
  <2>2. CASE ip \in leaked \cup {NoAddress} \/ \E i \in HostIfaces : ip \in {i.ip, i.gateway}
    BY <2>2 DEF Reason
  <2> QED BY <1>6, <2>1, <2>2 DEF Reason
<1>7. Explained'
  <2>1. DOMAIN pools' \ DOMAIN pools = {}
    BY DEF SameList
  <2> QED BY <1>0, <1>3, <1>6, <2>1, ExplainedKept
<1> QED BY <1>3, <1>4, <1>5, <1>7 DEF IInv

\* The same with all pools as they were, in a VM that does not append.
LEMMA QuietKeeps ==
    ASSUME IInv, UNCHANGED <<todo, ipamVars, faults>>,
           NEW v \in VM, NEW ph \in Phases, NEW t \in Templates \cup {NoTemplate},
           NEW a \in Int, NEW l \in Seq(DOMAIN pools), VMStep(v, ph, t, a, l),
           ph # "absent" => t \in Templates, ph # "append",
           ph \in HoldingPhases =>
               phase[v] \in HoldingPhases /\ t = template[v] /\ a = addr[v],
           phase[v] \in HoldingPhases => ph \in HoldingPhases \/ addr[v] \in leaked',
           ph \in CreatingPhases => Ready,
           leaked \subseteq leaked', nodes' \subseteq VM, pending' \subseteq nodes'
    PROVE  IInv'
<1>0. Shapes /\ Bridged
  BY DEF IInv
<1>1. SameList /\ BitsGrow
  BY <1>0 DEF SameList, BitsGrow, ipamVars, Shapes
<1>2. \A w \in VM : phase'[w] = "append" =>
          phase[w] = "append" /\ seen'[w] = seen[w] /\ template'[w] = template[w]
  <2>1. phase'[v] # "append"
    BY <1>0, VMStepOf
  <2>2. \A w \in VM \ {v} : phase'[w] = phase[w] /\ seen'[w] = seen[w] /\ template'[w] = template[w]
    BY <1>0, VMStepOf
  <2> QED BY <2>1, <2>2
<1>3. Bridged'
  BY <1>0, <1>1, <1>2, BridgedKept
<1>4. \A k \in DOMAIN pools : pools'[k].bits \ pools[k].bits = {}
  BY DEF ipamVars
<1>5. faults' \subseteq {"unseen", "lost", "full", "restart"} /\ faults \subseteq faults'
  BY <1>0 DEF Shapes
<1> QED BY <1>1, <1>3, <1>4, <1>5, StepKeeps

\* A function that keeps its value at an argument.
LEMMA SameAt ==
    ASSUME Shapes, NEW v \in VM
    PROVE  /\ phase = [phase EXCEPT ![v] = phase[v]]
           /\ template = [template EXCEPT ![v] = template[v]]
           /\ addr = [addr EXCEPT ![v] = addr[v]]
           /\ seen = [seen EXCEPT ![v] = seen[v]]
           /\ phase[v] \in Phases /\ template[v] \in Templates \cup {NoTemplate}
           /\ addr[v] \in Int /\ seen[v] \in Seq(DOMAIN pools)
           /\ phase[v] # "absent" => template[v] \in Templates
BY DEF Shapes

-----------------------------------------------------------------------------
(* Steps that leave the pools alone *)

\* A new VM has no address yet.
LEMMA CloneKeeps ==
    ASSUME IInv, NEW v \in VM, NEW t \in Templates, Clone(v, t)
    PROVE  IInv'
<1>0. Shapes
  BY DEF IInv
<1>1. VMStep(v, "config", t, addr[v], seen[v])
  BY <1>0, SameAt DEF Clone, VMStep
<1>2. /\ UNCHANGED <<todo, ipamVars, faults, leaked, nodes, pending>>
      /\ Ready /\ phase[v] = "absent"
  BY DEF Clone, historyVars, nodeVars
<1>3. nodes' \subseteq VM /\ pending' \subseteq nodes'
  BY <1>0, <1>2 DEF Shapes
<1>4. "config" \in Phases /\ "config" \notin HoldingPhases /\ phase[v] \notin HoldingPhases
  BY <1>2 DEF Phases, HoldingPhases
<1> QED BY <1>0, <1>1, <1>2, <1>3, <1>4, SameAt, QuietKeeps

\* The list that a create goes on with has the pools of all bridges, so it has
\* none of their subnets to append.
LEMMA FindPoolKeeps ==
    ASSUME SubnetsDisjoint, IInv, NEW v \in VM, FindPool(v)
    PROVE  IInv'
<1>0. Shapes /\ Working /\ Bridged
  BY DEF IInv
<1>1. /\ UNCHANGED <<todo, ipamVars, template, addr, faults, leaked, nodes, pending>>
      /\ phase[v] = "config"
  BY DEF FindPool, historyVars, nodeVars
<1>2. Ready /\ phase[v] \notin HoldingPhases /\ template[v] \in Templates
  BY <1>0, <1>1 DEF Working, HoldingPhases, Shapes
<1>3. nodes' \subseteq VM /\ pending' \subseteq nodes'
  BY <1>0, <1>1 DEF Shapes
<1>4. CASE Matches(template[v].net.base) # {}
  <2>1. VMStep(v, "occupy", template[v], addr[v], seen[v])
    BY <1>0, <1>1, <1>4, SameAt DEF FindPool, VMStep
  <2>2. "occupy" \in Phases /\ "occupy" \notin HoldingPhases
    BY DEF Phases, HoldingPhases
  <2> QED BY <1>0, <1>1, <1>2, <1>3, <2>1, <2>2, SameAt, QuietKeeps
<1>5. CASE Matches(template[v].net.base) = {}
  <2>1. VMStep(v, "append", template[v], addr[v], subnets)
    BY <1>0, <1>1, <1>5, SameAt DEF FindPool, VMStep
  <2>2. "append" \in Phases /\ "append" \notin HoldingPhases
    BY DEF Phases, HoldingPhases
  <2>3. SameList /\ BitsGrow /\ subnets \in Seq(DOMAIN pools)
    BY <1>0, <1>1 DEF SameList, BitsGrow, ipamVars, Shapes
  <2>4. Bridged'
    <3> SUFFICES ASSUME "unseen" \notin faults PROVE (Listed /\ Foreign /\ Starting)'
      BY <1>1 DEF Bridged
    <3>1. Listed /\ Foreign /\ Starting
      BY <1>0 DEF Bridged
    <3>2. todo = {} /\ todo' = {} /\ pools' = pools /\ subnets' = subnets
      BY <1>1, <1>2 DEF Ready, ipamVars
    <3>3. ASSUME NEW i \in HostIfaces PROVE HasPool(subnets, i) /\ template[v].net # i.net
      <4>1. PICK j \in DOMAIN subnets : pools[subnets[j]].net = i.net
        BY <3>1, <3>2 DEF Listed, HasPool
      <4>2. template[v].net \in Nets /\ template[v].net.base \in Nat
            /\ Contains(template[v].net, template[v].net.base)
        <5>1. template[v].net \in Nets
          BY <1>2 DEF Nets
        <5> QED BY <5>1, NetsOf DEF Contains
      <4>3. ~Contains(pools[subnets[j]].net, template[v].net.base)
        BY <1>5 DEF Matches
      <4> QED BY <4>1, <4>2, <4>3 DEF HasPool
    <3>4. phase'[v] = "append" /\ seen'[v] = subnets /\ template'[v] = template[v]
      BY <1>0, <2>1, VMStepOf
    <3>5. \A w \in VM \ {v} : /\ phase'[w] = phase[w] /\ seen'[w] = seen[w]
                              /\ template'[w] = template[w]
      BY <1>0, <2>1, VMStepOf
    <3>6. Listed'
      BY <3>1, <3>2, <3>3, <3>4, <3>5 DEF Listed, HasPool
    <3>7. Foreign'
      BY <3>1, <3>3, <3>4, <3>5 DEF Foreign
    <3> QED BY <3>2, <3>6, <3>7 DEF Starting
  <2>5. \A k \in DOMAIN pools : pools'[k].bits \ pools[k].bits = {}
    BY <1>1 DEF ipamVars
  <2>6. faults' \subseteq {"unseen", "lost", "full", "restart"} /\ faults \subseteq faults'
    BY <1>0, <1>1 DEF Shapes
  <2> QED BY <1>0, <1>1, <1>2, <1>3, <2>1, <2>2, <2>3, <2>4, <2>5, <2>6, SameAt, StepKeeps
<1> QED BY <1>4, <1>5

\* A VM that starts, or that is deleted, holds on to its address.
LEMMA StartOrDeleteKeeps ==
    ASSUME IInv, NEW v \in VM, Start(v) \/ DeleteVM(v)
    PROVE  IInv'
<1>0. Shapes
  BY DEF IInv
<1>1. PICK ph \in {"running", "deleted"} :
        /\ VMStep(v, ph, template[v], addr[v], seen[v])
        /\ phase[v] \in {"starting", "running"}
  BY <1>0, SameAt DEF Start, DeleteVM, VMStep
<1>2. UNCHANGED <<todo, ipamVars, faults, leaked, nodes, pending>>
  BY DEF Start, DeleteVM, historyVars, nodeVars
<1>3. nodes' \subseteq VM /\ pending' \subseteq nodes'
  BY <1>0, <1>2 DEF Shapes
<1>4. /\ ph \in Phases /\ ph \in HoldingPhases /\ ph \notin CreatingPhases
      /\ phase[v] \in HoldingPhases /\ template[v] \in Templates
  BY <1>0, <1>1 DEF Phases, HoldingPhases, CreatingPhases, Shapes
<1> QED BY <1>0, <1>1, <1>2, <1>3, <1>4, SameAt, QuietKeeps

\* A create that fails leaks its address.
LEMMA CreateFailsKeeps ==
    ASSUME IInv, NEW v \in VM, CreateFails(v)
    PROVE  IInv'
<1>0. Shapes
  BY DEF IInv
<1>1. VMStep(v, "removed", template[v], NoAddress, seen[v])
  BY <1>0, SameAt DEF CreateFails, VMStep
<1>2. /\ UNCHANGED <<todo, ipamVars, faults, nodes, pending>>
      /\ phase[v] = "starting" /\ leaked' = leaked \cup {addr[v]}
  BY DEF CreateFails, historyVars, nodeVars
<1>3. nodes' \subseteq VM /\ pending' \subseteq nodes'
  BY <1>0, <1>2 DEF Shapes
<1>4. /\ "removed" \in Phases /\ "removed" \notin HoldingPhases
      /\ "removed" \notin CreatingPhases /\ template[v] \in Templates /\ NoAddress \in Int
  BY <1>0, <1>2 DEF Phases, HoldingPhases, CreatingPhases, Shapes, NoAddress
<1> QED BY <1>0, <1>1, <1>2, <1>3, <1>4, SameAt, QuietKeeps

\* A Node object appears.
LEMMA RegisterKeeps ==
    ASSUME IInv, NEW v \in VM, Register(v)
    PROVE  IInv'
<1>0. Shapes
  BY DEF IInv
<1>1. VMStep(v, "running", template[v], addr[v], seen[v])
  BY <1>0, SameAt DEF Register, VMStep, vmVars
<1>2. /\ UNCHANGED <<todo, ipamVars, faults, leaked>> /\ phase[v] = "running"
      /\ nodes' = nodes \cup {v} /\ pending' = pending \cup {v}
  BY DEF Register, historyVars
<1>3. nodes' \subseteq VM /\ pending' \subseteq nodes'
  BY <1>0, <1>2 DEF Shapes
<1>4. /\ "running" \in Phases /\ "running" \in HoldingPhases
      /\ "running" \notin CreatingPhases /\ template[v] \in Templates
  BY <1>0, <1>2 DEF Phases, HoldingPhases, CreatingPhases, Shapes
<1> QED BY <1>0, <1>1, <1>2, <1>3, <1>4, SameAt, QuietKeeps

\* The Node object of a VM that has given its address back.
LEMMA RemoveNodeKeeps ==
    ASSUME IInv, NEW v \in VM, RemoveNode(v)
    PROVE  IInv'
<1>0. Shapes
  BY DEF IInv
<1>1. VMStep(v, "removed", template[v], NoAddress, seen[v])
  BY <1>0, SameAt DEF RemoveNode, VMStep
<1>2. /\ UNCHANGED <<todo, ipamVars, faults, leaked>> /\ phase[v] = "released"
      /\ nodes' = nodes \ {v} /\ pending' = pending \ {v}
  BY DEF RemoveNode, historyVars
<1>3. nodes' \subseteq VM /\ pending' \subseteq nodes'
  BY <1>0, <1>2 DEF Shapes
<1>4. /\ "removed" \in Phases /\ "removed" \notin HoldingPhases
      /\ "removed" \notin CreatingPhases /\ template[v] \in Templates /\ NoAddress \in Int
      /\ phase[v] \notin HoldingPhases
  BY <1>0, <1>2 DEF Phases, HoldingPhases, CreatingPhases, Shapes, NoAddress
<1> QED BY <1>0, <1>1, <1>2, <1>3, <1>4, SameAt, QuietKeeps

-----------------------------------------------------------------------------
(* Steps that set or clear bits *)

\* The event of a node sets the bit of its address in every pool of the list.
LEMMA OccupyNodeIPsKeeps ==
    ASSUME IInv, NEW v \in VM, OccupyNodeIPs(v)
    PROVE  IInv'
<1>0. Shapes /\ Bridged
  BY DEF IInv
<1>1. VMStep(v, phase[v], template[v], addr[v], seen[v])
  BY <1>0, SameAt DEF OccupyNodeIPs, VMStep, vmVars
<1>2. /\ UNCHANGED <<todo, subnets, nodes, faults, phase, template, seen, addr>> /\ Ready
      /\ pending' = pending \ {v} /\ pools' = OccupiedInAll(pools, addr[v])
      /\ leaked' = IF v \in Holding THEN leaked ELSE leaked \cup {addr[v]}
  BY DEF OccupyNodeIPs, vmVars
<1>3. nodes' \subseteq VM /\ pending' \subseteq nodes'
      /\ faults' \subseteq {"unseen", "lost", "full", "restart"}
  BY <1>0, <1>2 DEF Shapes
<1>4. PICK ip \in Int : ip = addr[v]
  BY <1>0, SameAt
<1>5. ASSUME NEW k \in DOMAIN pools
      PROVE  /\ pools'[k] \in Pool /\ BitsInRange(pools'[k]) /\ pools'[k].net = pools[k].net
             /\ pools[k].bits \subseteq pools'[k].bits
             /\ \A bit \in pools'[k].bits \ pools[k].bits : HostAddress(pools[k].net, bit) = ip
  <2>1. pools[k] \in Pool /\ BitsInRange(pools[k])
    BY <1>0, ElementOfSeq, LenProperties DEF Shapes
  <2>2. pools'[k] = Occupied(pools[k], ip) \/ pools'[k] = pools[k]
    BY <1>2, <1>4 DEF OccupiedInAll
  <2> QED BY <2>1, <2>2, OccupiedPool
<1>6. SameList /\ BitsGrow
  <2>1. pools' \in [DOMAIN pools -> Pool]
    BY <1>2, <1>5 DEF OccupiedInAll
  <2>2. pools' \in Seq(Pool) /\ DOMAIN pools' = DOMAIN pools
    BY <1>0, <2>1, FunctionIsList DEF Shapes
  <2> QED BY <1>2, <1>5, <2>2 DEF SameList, BitsGrow
<1>7. Bridged'
  BY <1>0, <1>2, <1>6, BridgedKept
<1>8. Reason(ip)'
  <2>1. Holding' = Holding
    BY <1>2 DEF Holding
  <2>2. CASE v \in Holding
    BY <1>2, <1>4, <2>1, <2>2 DEF Reason
  <2>3. CASE v \notin Holding
    BY <1>2, <1>4, <2>3 DEF Reason
  <2> QED BY <2>2, <2>3
<1>9. \A k \in DOMAIN pools : \A bit \in pools'[k].bits \ pools[k].bits : \A x :
          x = HostAddress(pools[k].net, bit) => Reason(x)'
  BY <1>5, <1>8
<1>10. leaked \subseteq leaked' /\ faults \subseteq faults'
  BY <1>2
<1> QED BY <1>0, <1>1, <1>2, <1>3, <1>6, <1>7, <1>9, <1>10, SameAt, StepKeeps

\* The hint of OccupyIP is an address of the VM's subnet.
LEMMA HintOf ==
    ASSUME SubnetsDisjoint, NEW t \in Templates
    PROVE  t.net \in Nets /\ Hint(t) \in Int /\ Contains(t.net, Hint(t))
<1>1. t.net \in Nets
  BY DEF Nets
<1>2. CASE t.iface # NoIface /\ Contains(t.net, t.iface.net.base)
  <2>1. PICK i \in HostIfaces : i = t.iface
    BY <1>2, IpamAssumption
  <2>2. /\ i.ip \in Nat /\ i.net \in Nets /\ HasBit(i.net, i.ip)
    BY IpamAssumption DEF Iface, Nets
  <2>3. i.net.base \in Int /\ Contains(i.net, i.net.base)
    BY <2>2, NetsOf DEF Contains
  <2>4. t.net = i.net
    BY <1>1, <1>2, <2>1, <2>2, <2>3, SameNet
  <2> QED BY <1>1, <1>2, <2>1, <2>2, <2>4 DEF Hint, HasBit
<1>3. CASE ~(t.iface # NoIface /\ Contains(t.net, t.iface.net.base))
  BY <1>1, <1>3, NetsOf DEF Hint, Contains
<1> QED BY <1>2, <1>3

\* An address that is handed out is free in the pool that serves it, so it is
\* neither that of another VM nor that of a bridge, unless the pool was full.
LEMMA OccupyIPKeeps ==
    ASSUME SubnetsDisjoint, IInv, NEW v \in VM, OccupyIP(v)
    PROVE  IInv'
<1>0. /\ Shapes /\ Working /\ Served /\ Distinct /\ Bridged /\ HostBits /\ HostsApart
      /\ Explained
  BY DEF IInv
<1>1. /\ phase[v] = "occupy" /\ UNCHANGED <<todo, subnets, template, seen, nodes, pending, leaked>>
  BY DEF OccupyIP, nodeVars
<1>2. /\ template[v] \in Templates /\ phase[v] \notin HoldingPhases /\ todo = {}
      /\ v \notin Holding /\ nodes' \subseteq VM /\ pending' \subseteq nodes'
  BY <1>0, <1>1 DEF Shapes, Working, Ready, HoldingPhases, Holding
<1>3. PICK net \in Nets : net = template[v].net
  BY <1>2, HintOf
<1>4. PICK hint \in Int : hint = Hint(template[v]) /\ Contains(net, hint)
  BY <1>2, <1>3, HintOf
<1>5. /\ "removed" \in Phases /\ "starting" \in Phases
      /\ "removed" \notin HoldingPhases \cup CreatingPhases
      /\ "starting" \in HoldingPhases \ CreatingPhases /\ NoAddress \in Int
  BY DEF Phases, HoldingPhases, CreatingPhases, NoAddress
<1>6. CASE Matches(hint) = {}
  <2>1. UNCHANGED <<pools, addr, faults>> /\ phase' = [phase EXCEPT ![v] = "removed"]
    BY <1>4, <1>6 DEF OccupyIP
  <2>2. VMStep(v, "removed", template[v], addr[v], seen[v])
    BY <1>0, <1>1, <2>1, SameAt DEF VMStep
  <2>3. UNCHANGED <<todo, ipamVars, faults>> /\ leaked \subseteq leaked'
    BY <1>1, <2>1 DEF ipamVars
  <2> QED BY <1>0, <1>2, <1>5, <2>2, <2>3, SameAt, QuietKeeps
<1>7. CASE Matches(hint) # {}
  <2>1. PICK k \in DOMAIN pools : k = Serving(hint)
    BY <1>0, <1>7, ServingOf
  <2>2. PICK p \in Pool : p = pools[k] /\ BitsInRange(p)
    BY <1>0, <1>7, <2>1, ServingOf
  <2>3. p.net = net
    BY <1>0, <1>4, <1>7, <2>1, <2>2, SameServing
  <2>4. PICK b \in Nat : /\ b = Candidate(p, hint)
                         /\ FreeBits(p) # {} => b \notin p.bits
    BY <2>2, CandidateOf
  <2>5. PICK q \in Pool : /\ q = Taken(p, hint) /\ BitsInRange(q) /\ q.net = net
                          /\ q.bits = p.bits \cup {b}
    BY <2>2, <2>3, <2>4, TakenPool
  <2>6. PICK ip \in Int : /\ ip = NextAddress(p, hint)
                          /\ ip = HostAddress(net, b)
                          /\ ip # NoAddress => HasBit(net, ip) /\ HostIndex(net, ip) = b
    BY <2>2, <2>3, <2>4, TakenPool DEF NextAddress
  <2>7. /\ pools' = [pools EXCEPT ![k] = q]
        /\ phase' = [phase EXCEPT ![v] = IF ip = NoAddress THEN "removed" ELSE "starting"]
        /\ addr' = [addr EXCEPT ![v] = ip]
        /\ faults' = IF FreeBits(p) = {} THEN faults \cup {"full"} ELSE faults
    BY <1>4, <1>7, <2>1, <2>2, <2>5, <2>6 DEF OccupyIP
  <2>8. PICK ph \in {"removed", "starting"} :
          /\ ph = IF ip = NoAddress THEN "removed" ELSE "starting"
          /\ VMStep(v, ph, template[v], ip, seen[v])
    BY <1>0, <1>1, <2>7, SameAt DEF VMStep
  <2>9. pools \in Seq(Pool) /\ DOMAIN pools = 1 .. Len(pools)
    BY <1>0, LenProperties DEF Shapes
  <2>10. /\ pools' \in Seq(Pool) /\ DOMAIN pools' = DOMAIN pools /\ pools'[k] = q
         /\ \A m \in DOMAIN pools \ {k} : pools'[m] = pools[m]
    BY <2>7, <2>9, ExceptSeq
  <2>11. SameList /\ BitsGrow
    BY <1>0, <1>1, <2>2, <2>3, <2>5, <2>10 DEF SameList, BitsGrow, Shapes
  <2>12. \A w \in VM : phase'[w] = "append" =>
             phase[w] = "append" /\ seen'[w] = seen[w] /\ template'[w] = template[w]
    BY <1>0, <1>1, <2>8 DEF VMStep, Shapes
  <2>13. /\ faults \subseteq faults' /\ faults' \subseteq {"unseen", "lost", "full", "restart"}
         /\ "full" \notin faults' => FreeBits(p) # {}
    BY <1>0, <2>7 DEF Shapes
  <2>14. Bridged'
    BY <1>0, <2>11, <2>12, <2>13, BridgedKept
  <2>15. \A m \in DOMAIN pools : \A bit \in pools'[m].bits \ pools[m].bits : \A x :
            x = HostAddress(pools[m].net, bit) => x = ip
    BY <2>2, <2>3, <2>5, <2>6, <2>10
  <2>16. CASE ip = NoAddress
    <3>1. ph = "removed" /\ Reason(ip)'
      BY <2>8, <2>16 DEF Reason
    <3>2. \A m \in DOMAIN pools : \A bit \in pools'[m].bits \ pools[m].bits : \A x :
            x = HostAddress(pools[m].net, bit) => Reason(x)'
      BY <2>15, <3>1
    <3>3. VMStep(v, "removed", template[v], ip, seen[v]) /\ leaked \subseteq leaked'
      BY <1>1, <2>8, <3>1
    <3> QED BY <1>0, <1>2, <1>5, <2>11, <2>13, <2>14, <3>2, <3>3, SameAt, StepKeeps
  <2>17. CASE ip # NoAddress
    <3>1. /\ ph = "starting" /\ v \in Holding' /\ addr'[v] = ip /\ template'[v] = template[v]
          /\ \A w \in VM \ {v} : /\ w \in Holding' <=> w \in Holding
                                 /\ addr'[w] = addr[w] /\ template'[w] = template[w]
      <4>1. ph = "starting" /\ VMStep(v, "starting", template[v], ip, seen[v])
        BY <2>8, <2>17
      <4> QED BY <1>0, <1>5, <4>1, VMStepOf
    <3>2. HasBit(net, ip) /\ HostIndex(net, ip) = b /\ Contains(net, ip)
      BY <2>6, <2>17 DEF HasBit
    <3>3. Shapes'
      <4>1. VMStep(v, "starting", template[v], ip, seen[v]) /\ HasBit(template[v].net, ip)
        BY <1>3, <2>8, <2>17, <3>2
      <4> QED BY <1>0, <1>2, <1>5, <2>11, <2>13, <4>1, SameAt, ShapesKept
    <3>4. PoolsStay /\ ListStays
      BY <2>11, SameListStays
    <3>5. Working'
      <4>1. ph \notin CreatingPhases /\ todo' = todo
        BY <1>1, <1>5, <3>1
      <4> QED BY <1>0, <2>8, <4>1, WorkingKept
    <3>6. HostBits'
      BY <1>0, <2>11, <2>13, HostBitsKept
    <3>7. HostsApart'
      <4> SUFFICES ASSUME faults' \cap {"unseen", "full"} = {}, NEW w \in Holding', NEW i \in HostIfaces
                   PROVE  addr'[w] # i.ip
        BY DEF HostsApart
      <4>1. faults \cap {"unseen", "full"} = {} /\ FreeBits(p) # {} /\ w \in VM
        BY <2>13 DEF Holding
      <4>2. CASE w # v
        BY <1>0, <3>1, <4>1, <4>2 DEF HostsApart
      <4>3. CASE w = v /\ ip = i.ip
        <5>1. i.net \in Nets /\ HasBit(i.net, i.ip)
          BY IpamAssumption DEF Nets
        <5>2. i.net = net
          BY <3>2, <4>3, <5>1, SameNet DEF HasBit
        <5>3. HostIndex(net, ip) \in p.bits
          BY <1>0, <1>2, <2>2, <2>3, <4>1, <4>3, <5>2 DEF HostBits
        <5>4. b \in p.bits
          BY <3>2, <5>3
        <5> QED BY <2>4, <4>1, <5>4
      <4> QED BY <3>1, <4>2, <4>3
    <3>8. ASSUME faults' \subseteq {"unseen"}, NEW w \in Holding, w # v
          PROVE  Marked(w)' /\ addr[w] # ip /\ addr'[w] = addr[w]
      <4>1. /\ w \in VM /\ faults \subseteq {"unseen"} /\ FreeBits(p) # {}
            /\ addr'[w] = addr[w] /\ template'[w] = template[w]
        <5>1. w \in VM
          BY DEF Holding
        <5> QED BY <2>13, <3>1, <3>8, <5>1
      <4>2. PICK x \in Int : x = addr[w]
        BY <1>0, <4>1 DEF Shapes
      <4>3. Matches(x) # {} /\ HostIndex(template[w].net, x) \in pools[Serving(x)].bits
        BY <1>0, <4>1, <4>2, <3>8 DEF Served, Marked
      <4>4. Matches(x)' # {} /\ Serving(x)' = Serving(x) /\ Serving(x) \in DOMAIN pools
        BY <1>0, <3>3, <3>4, <4>3, ServingStays, ServingOf
      <4>5. HostIndex(template[w].net, x) \in pools'[Serving(x)].bits
        BY <2>11, <4>3, <4>4 DEF BitsGrow
      <4>6. Marked(w)'
        <5>1. Matches(addr[w])' = Matches(x)' /\ Serving(addr[w])' = Serving(x)'
          BY <4>1, <4>2 DEF Matches, Serving
        <5> QED BY <4>1, <4>2, <4>4, <4>5, <5>1 DEF Marked
      <4>7. x # ip
        <5> SUFFICES ASSUME x = ip PROVE FALSE
          OBVIOUS
        <5>1. template[w].net \in Nets /\ Contains(template[w].net, x)
          <6>1. template[w] \in Templates /\ HasBit(template[w].net, x)
            BY <1>0, <3>8, <4>1, <4>2 DEF Shapes, Holding
          <6> QED BY <6>1 DEF HasBit, Nets
        <5>2. template[w].net = net
          BY <3>2, <5>1, SameNet
        <5>3. Serving(x) = k
          BY <1>0, <1>4, <2>1, <3>2, SameServing
        <5>4. b \in p.bits
          BY <2>2, <3>2, <4>3, <5>2, <5>3
        <5> QED BY <2>4, <4>1, <5>4
      <4> QED BY <4>1, <4>2, <4>6, <4>7
    <3>9. Distinct'
      BY <3>1, <3>8, <1>0, <2>13 DEF Distinct, Holding
    <3>10. Served'
      <4> SUFFICES ASSUME faults' \subseteq {"unseen"}, NEW w \in Holding'
                   PROVE  Marked(w)'
        BY DEF Served
      <4>1. CASE w # v
        BY <3>1, <3>8, <4>1 DEF Holding
      <4>2. CASE w = v
        <5>1. Matches(ip) = Matches(hint) /\ Serving(ip) = Serving(hint)
          BY <1>0, <1>4, <3>2, SameServing
        <5>2. Matches(ip)' # {} /\ Serving(ip)' = k
          BY <1>0, <1>7, <2>1, <3>3, <3>4, <5>1, ServingStays
        <5>3. Matches(addr[v])' = Matches(ip)' /\ Serving(addr[v])' = Serving(ip)'
          BY <3>1 DEF Matches, Serving
        <5>4. HostIndex(template'[v].net, addr'[v]) \in pools'[k].bits
          BY <1>3, <2>5, <2>10, <3>1, <3>2
        <5> QED BY <4>2, <5>2, <5>3, <5>4 DEF Marked
      <4> QED BY <4>1, <4>2
    <3>11. Explained'
      <4>1. \A x : Reason(x) => Reason(x)'
        <5> SUFFICES ASSUME NEW x, Reason(x) PROVE Reason(x)'
          OBVIOUS
        <5>1. \A w \in Holding : w \in VM \ {v}
          BY <1>2 DEF Holding
        <5>2. \A w \in Holding : w \in Holding' /\ addr'[w] = addr[w]
          BY <3>1, <5>1
        <5> QED BY <1>1, <5>2 DEF Reason
      <4>2. Reason(ip)'
        BY <3>1 DEF Reason
      <4>3. \A m \in DOMAIN pools : \A bit \in pools'[m].bits \ pools[m].bits : \A x :
              x = HostAddress(pools[m].net, bit) => Reason(x)'
        BY <2>15, <4>2
      <4>4. DOMAIN pools' \ DOMAIN pools = {} /\ ("lost" \in faults => "lost" \in faults')
        BY <2>10, <2>13
      <4> QED BY <1>0, <3>3, <3>4, <4>1, <4>3, <4>4, ExplainedKept
    <3> QED BY <2>14, <3>3, <3>5, <3>6, <3>7, <3>9, <3>10, <3>11 DEF IInv
  <2> QED BY <2>16, <2>17
<1> QED BY <1>6, <1>7

\* The address that goes back is nobody else's, and no bridge's.
LEMMA ReleaseIPKeeps ==
    ASSUME SubnetsDisjoint, IInv, NEW v \in VM, ReleaseIP(v)
    PROVE  IInv'
<1>0. /\ Shapes /\ Working /\ Served /\ Distinct /\ Bridged /\ HostBits /\ HostsApart
      /\ Explained
  BY DEF IInv
<1>1. /\ phase[v] = "deleted" /\ phase' = [phase EXCEPT ![v] = "released"]
      /\ UNCHANGED <<todo, subnets, template, seen, addr, nodes, pending, faults, leaked>>
  BY DEF ReleaseIP, nodeVars, historyVars
<1>2. VMStep(v, "released", template[v], addr[v], seen[v])
  BY <1>0, <1>1, SameAt DEF VMStep
<1>3. /\ v \in Holding /\ template[v] \in Templates /\ nodes' \subseteq VM /\ pending' \subseteq nodes'
      /\ faults' \subseteq {"unseen", "lost", "full", "restart"}
      /\ "released" \in Phases /\ "released" \notin HoldingPhases \cup CreatingPhases
  BY <1>0, <1>1 DEF Shapes, Holding, Phases, HoldingPhases, CreatingPhases
<1>4. PICK net \in Nets : net = template[v].net
  BY <1>3 DEF Nets
<1>5. PICK ip \in Int : ip = addr[v]
  BY <1>0 DEF Shapes
<1>6. HasBit(net, ip) /\ Contains(net, ip)
  BY <1>0, <1>3, <1>4, <1>5 DEF Shapes, HasBit
<1>7. PICK gone : gone = HostIndex(net, ip)
  OBVIOUS
<1>8. \A k \in DOMAIN pools : pools[k] \in Pool /\ BitsInRange(pools[k]) /\ pools[k].net \in Nets
  <2>1. \A k \in DOMAIN pools : pools[k] \in Pool /\ BitsInRange(pools[k])
    BY <1>0, ElementOfSeq, LenProperties DEF Shapes
  <2> QED BY <2>1 DEF Pool
\* What becomes of the pools.
<1>9. /\ SameList
      /\ \A k \in DOMAIN pools :
            /\ pools'[k].bits \subseteq pools[k].bits
            /\ pools'[k].bits # pools[k].bits =>
                   Matches(ip) # {} /\ k = Serving(ip) /\ pools[k].net = net
            /\ pools[k].bits \ {gone} \subseteq pools'[k].bits
      /\ Matches(ip) # {} => gone \notin pools'[Serving(ip)].bits
  <2>1. CASE Matches(ip) = {}
    <3>1. pools' = pools
      BY <1>5, <2>1 DEF ReleaseIP
    <3> QED BY <1>0, <1>1, <2>1, <3>1 DEF SameList, Shapes
  <2>2. CASE Matches(ip) # {}
    <3>1. PICK k \in DOMAIN pools : k = Serving(ip) /\ pools[k].net = net
      BY <1>0, <1>6, <2>2, ServingOf, SameServing
    <3>2. PICK q \in Pool : /\ q = Freed(pools[k], ip) /\ BitsInRange(q) /\ q.net = net
                            /\ q.bits = pools[k].bits \ {gone}
      BY <1>6, <1>7, <1>8, <3>1, FreedPool
    <3>3. pools' = [pools EXCEPT ![k] = q]
      BY <1>5, <2>2, <3>1, <3>2 DEF ReleaseIP
    <3>4. pools \in Seq(Pool) /\ DOMAIN pools = 1 .. Len(pools)
      BY <1>0, LenProperties DEF Shapes
    <3>5. /\ pools' \in Seq(Pool) /\ DOMAIN pools' = DOMAIN pools /\ pools'[k] = q
          /\ \A m \in DOMAIN pools \ {k} : pools'[m] = pools[m]
      BY <3>3, <3>4, ExceptSeq
    <3>6. SameList
      BY <1>1, <1>8, <3>1, <3>2, <3>5 DEF SameList
    <3>7. ASSUME NEW m \in DOMAIN pools
          PROVE  /\ pools'[m].bits \subseteq pools[m].bits
                 /\ pools'[m].bits # pools[m].bits => m = k
                 /\ pools[m].bits \ {gone} \subseteq pools'[m].bits
      BY <3>2, <3>5
    <3> QED BY <2>2, <3>1, <3>2, <3>5, <3>6, <3>7
  <2> QED BY <2>1, <2>2
<1>10. Shapes'
  BY <1>0, <1>2, <1>3, <1>9, SameAt, ShapesKept
<1>11. PoolsStay /\ ListStays
  BY <1>9, SameListStays
<1>12. Working'
  BY <1>0, <1>1, <1>2, <1>3, WorkingKept
<1>13. Bridged'
  <2>1. \A w \in VM : phase'[w] = "append" =>
            phase[w] = "append" /\ seen'[w] = seen[w] /\ template'[w] = template[w]
    BY <1>0, <1>1 DEF Shapes
  <2> QED BY <1>0, <1>1, <1>9, <2>1, BridgedKept
<1>14. Holding' = Holding \ {v}
  BY <1>0, <1>1 DEF Holding, Shapes
<1>15. HoldersStay
  BY <1>1, <1>14 DEF HoldersStay
<1>16. HostsApart' /\ Distinct'
  BY <1>0, <1>1, <1>14, <1>15, ApartKept DEF Distinct
<1>17. HostBits'
  <2> SUFFICES ASSUME faults' \cap {"unseen", "full"} = {}, NEW k \in DOMAIN pools',
                      NEW i \in HostIfaces \ todo', pools'[k].net = i.net
               PROVE  HostIndex(i.net, i.ip) \in pools'[k].bits
    BY DEF HostBits
  <2>1. k \in DOMAIN pools /\ pools[k].net = i.net /\ i \in HostIfaces \ todo
    BY <1>1, <1>9 DEF SameList
  <2>2. HostIndex(i.net, i.ip) \in pools[k].bits /\ ip # i.ip
    BY <1>0, <1>1, <1>3, <1>5, <2>1 DEF HostBits, HostsApart
  <2>3. CASE pools'[k].bits = pools[k].bits
    BY <2>2, <2>3
  <2>4. CASE pools'[k].bits # pools[k].bits
    <3>1. i.net = net /\ i.ip \in Int
      BY <1>9, <2>1, <2>4, IpamAssumption DEF Iface
    <3>2. HostIndex(net, i.ip) # gone
      BY <1>7, <2>2, <3>1, BitsDiffer
    <3> QED BY <1>9, <2>1, <2>2, <3>1, <3>2
  <2> QED BY <2>3, <2>4
<1>18. Served'
  <2> SUFFICES ASSUME faults' \subseteq {"unseen"}, NEW w \in Holding'
               PROVE  Marked(w)'
    BY DEF Served
  <2>1. w \in Holding /\ w # v /\ w \in VM /\ faults \subseteq {"unseen"}
    BY <1>1, <1>14 DEF Holding
  <2>2. PICK x \in Int : x = addr[w] /\ x # ip
    BY <1>0, <1>3, <1>5, <2>1 DEF Shapes, Distinct
  <2>3. Matches(x) # {} /\ HostIndex(template[w].net, x) \in pools[Serving(x)].bits
    BY <1>0, <2>1, <2>2 DEF Served, Marked
  <2>4. Matches(x)' # {} /\ Serving(x)' = Serving(x) /\ Serving(x) \in DOMAIN pools
    BY <1>0, <1>10, <1>11, <2>3, ServingStays, ServingOf
  <2>5. HostIndex(template[w].net, x) \in pools'[Serving(x)].bits
    <3>1. CASE pools'[Serving(x)].bits = pools[Serving(x)].bits
      BY <2>3, <3>1
    <3>2. CASE pools'[Serving(x)].bits # pools[Serving(x)].bits
      <4>1. pools[Serving(x)].net = net /\ Contains(pools[Serving(x)].net, x)
        BY <1>0, <1>9, <2>3, <2>4, <3>2, ServingOf
      <4>2. template[w].net \in Nets /\ Contains(template[w].net, x)
        <5>1. template[w] \in Templates /\ HasBit(template[w].net, x)
          BY <1>0, <2>1, <2>2 DEF Shapes, Holding
        <5> QED BY <5>1 DEF HasBit, Nets
      <4>3. template[w].net = net
        BY <4>1, <4>2, SameNet
      <4>4. HostIndex(net, x) # gone
        BY <1>7, <2>2, BitsDiffer
      <4> QED BY <1>9, <2>3, <2>4, <4>3, <4>4
    <3> QED BY <3>1, <3>2
  <2>6. Matches(addr[w])' = Matches(x)' /\ Serving(addr[w])' = Serving(x)'
        /\ addr'[w] = x /\ template'[w] = template[w]
    BY <1>1, <2>2 DEF Matches, Serving
  <2> QED BY <2>4, <2>5, <2>6 DEF Marked
<1>19. Explained'
  <2> SUFFICES ASSUME "lost" \notin faults', NEW j \in DOMAIN subnets',
                      NEW bit \in pools'[subnets'[j]].bits,
                      NEW x, x = HostAddress(pools'[subnets'[j]].net, bit)
               PROVE  Reason(x)' \/ Serving(x)' # subnets'[j]
    BY DEF Explained, Reason, Serving, Matches
  <2>1. j \in DOMAIN subnets /\ subnets'[j] = subnets[j] /\ "lost" \notin faults
    BY <1>1
  <2>2. PICK k \in DOMAIN pools : k = subnets[j]
    BY <1>0, <2>1, PoolAt DEF Shapes
  <2>3. pools'[k].net = pools[k].net /\ bit \in pools[k].bits /\ bit \in pools'[k].bits
    BY <1>9, <2>1, <2>2 DEF SameList
  <2>4. /\ pools[k].net \in Nets /\ bit \in Nat
        /\ bit = 0 \/ bit \in 0 .. MaxIPs(pools[k].net) - 1
    BY <1>8, <2>3 DEF Pool, BitsInRange
  <2>5. /\ x = HostAddress(pools[k].net, bit) /\ x \in Int
        /\ x # NoAddress => HasBit(pools[k].net, x) /\ HostIndex(pools[k].net, x) = bit
    BY <2>1, <2>2, <2>3, <2>4, AddressOfBit
  <2>6. Reason(x) \/ Serving(x) # k
    BY <1>0, <2>1, <2>2, <2>3, <2>5 DEF Explained
  <2>7. CASE x = NoAddress
    BY <2>7 DEF Reason
  <2>8. CASE x # NoAddress
    <3>1. Contains(pools[subnets[j]].net, x)
      BY <2>2, <2>5, <2>8 DEF HasBit
    <3>2. Matches(x) # {}
      BY <2>1, <3>1 DEF Matches
    <3>3. Serving(x)' = Serving(x)
      BY <1>0, <1>10, <1>11, <2>5, <3>2, ServingStays
    <3>4. CASE Serving(x) # k
      BY <2>1, <2>2, <3>3, <3>4
    <3>5. CASE Serving(x) = k /\ x = ip
      <4>1. pools[k].net = net
        BY <1>4, <1>6, <2>2, <2>4, <3>1, <3>5, SameNet
      <4>2. bit = gone
        BY <1>7, <2>5, <2>8, <3>5, <4>1
      <4> QED BY <1>9, <2>3, <3>2, <3>5, <4>2
    <3>6. CASE Serving(x) = k /\ x # ip
      <4>1. Reason(x)
        BY <2>6, <3>6
      <4>2. Reason(x)'
        BY <1>1, <1>5, <1>14, <3>6, <4>1 DEF Reason
      <4> QED BY <4>2
    <3> QED BY <3>4, <3>5, <3>6
  <2> QED BY <2>7, <2>8
<1> QED BY <1>10, <1>12, <1>13, <1>16, <1>17, <1>18, <1>19 DEF IInv

-----------------------------------------------------------------------------
(* Steps that make pools *)

\* A list with one more pool at its end.
LEMMA AppendedList ==
    ASSUME NEW D, NEW E, D \subseteq E, NEW list \in Seq(D), NEW e \in E
    PROVE  /\ Append(list, e) \in Seq(E)
           /\ DOMAIN Append(list, e) = DOMAIN list \cup {Len(list) + 1}
           /\ \A j \in DOMAIN list : Append(list, e)[j] = list[j] /\ j < Len(list) + 1
           /\ Append(list, e)[Len(list) + 1] = e
           /\ DOMAIN list = 1 .. Len(list) /\ Len(list) \in Nat
<1>1. list \in Seq(E)
  BY SeqMonotonic
<1>2. DOMAIN list = 1 .. Len(list) /\ Len(list) \in Nat
  BY LenProperties
<1>3. /\ Append(list, e) \in Seq(E) /\ Len(Append(list, e)) = Len(list) + 1
      /\ \A j \in 1 .. Len(list) : Append(list, e)[j] = list[j]
      /\ Append(list, e)[Len(list) + 1] = e
  BY <1>1, AppendProperties
<1>4. DOMAIN Append(list, e) = 1 .. (Len(list) + 1)
  BY <1>3, LenProperties
<1> QED BY <1>2, <1>3, <1>4

\* A new pool is empty.
LEMMA NewPool ==
    ASSUME NEW net \in Nets
    PROVE  /\ NewIPPool(net) \in Pool /\ BitsInRange(NewIPPool(net))
           /\ NewIPPool(net).net = net /\ NewIPPool(net).bits = {}
BY DEF NewIPPool, Pool, BitsInRange

\* A create appends a pool, to the list or to an old copy of it.  The pool is
\* not for the subnet of a bridge, and both lists have the pools of those.
LEMMA AppendPoolKeeps ==
    ASSUME SubnetsDisjoint, IInv, NEW v \in VM, AppendPool(v)
    PROVE  IInv'
<1>0. /\ Shapes /\ Working /\ Served /\ Distinct /\ Bridged /\ HostBits /\ HostsApart
      /\ Explained
  BY DEF IInv
<1>1. /\ phase[v] = "append" /\ phase' = [phase EXCEPT ![v] = "occupy"]
      /\ seen' = [seen EXCEPT ![v] = <<>>] /\ pools' = Append(pools, NewIPPool(template[v].net))
      /\ UNCHANGED <<todo, template, addr, nodes, pending, restarts, leaked>>
  BY DEF AppendPool, nodeVars
<1>2. PICK list \in {seen[v], subnets} :
        /\ subnets' = Append(list, Len(pools) + 1)
        /\ faults' = IF list = subnets THEN faults ELSE faults \cup {"lost"}
  BY DEF AppendPool
<1>3. /\ template[v] \in Templates /\ todo = {} /\ v \notin Holding
      /\ list \in Seq(DOMAIN pools) /\ pools \in Seq(Pool)
  BY <1>0, <1>1, <1>2 DEF Shapes, Working, Ready, Holding
<1>4. PICK net \in Nets : net = template[v].net
  BY <1>3 DEF Nets
<1>5. PICK n \in Nat : n = Len(pools) /\ DOMAIN pools = 1 .. n
  BY <1>3, LenProperties
<1>6. PICK p \in Pool : p = NewIPPool(net) /\ BitsInRange(p) /\ p.net = net /\ p.bits = {}
  BY NewPool
<1>7. /\ pools' \in Seq(Pool) /\ DOMAIN pools' = DOMAIN pools \cup {n + 1}
      /\ \A k \in DOMAIN pools : pools'[k] = pools[k]
      /\ pools'[n + 1] = p /\ n + 1 \notin DOMAIN pools
  BY <1>1, <1>3, <1>4, <1>5, <1>6, AppendedList
<1>8. /\ subnets' \in Seq(DOMAIN pools') /\ DOMAIN subnets' = DOMAIN list \cup {Len(list) + 1}
      /\ \A j \in DOMAIN list : subnets'[j] = list[j] /\ j < Len(list) + 1
      /\ subnets'[Len(list) + 1] = n + 1
      /\ DOMAIN list = 1 .. Len(list) /\ Len(list) \in Nat
  <2>1. DOMAIN pools \subseteq DOMAIN pools' /\ n + 1 \in DOMAIN pools'
    BY <1>7
  <2>2. subnets' = Append(list, n + 1)
    BY <1>2, <1>5
  <2> QED BY <1>3, <2>1, <2>2, AppendedList
<1>9. /\ Holding' = Holding
      /\ \A w \in VM : phase'[w] = "append" =>
            w # v /\ phase[w] = "append" /\ seen'[w] = seen[w] /\ template'[w] = template[w]
      /\ \A w \in VM : phase'[w] # "absent" => phase[w] # "absent"
      /\ phase' \in [VM -> Phases]
  BY <1>0, <1>1 DEF Shapes, Holding, Phases
<1>10. HoldersStay /\ faults \subseteq faults'
  BY <1>1, <1>2, <1>9 DEF HoldersStay
<1>11. Shapes'
  <2>1. seen' \in [VM -> Seq(DOMAIN pools')]
    <3>1. \A w \in VM : seen[w] \in Seq(DOMAIN pools')
      <4> TAKE w \in VM
      <4>1. seen[w] \in Seq(DOMAIN pools) /\ DOMAIN pools \subseteq DOMAIN pools'
        BY <1>0, <1>7 DEF Shapes
      <4> QED BY <4>1, SeqMonotonic
    <3>2. <<>> \in Seq(DOMAIN pools') /\ seen \in [VM -> Seq(DOMAIN pools)]
      BY <1>0, EmptySeq DEF Shapes
    <3> QED BY <1>1, <3>1, <3>2
  <2>2. \A k \in DOMAIN pools' : BitsInRange(pools'[k])
    BY <1>0, <1>6, <1>7 DEF Shapes
  <2>3. faults' \subseteq {"unseen", "lost", "full", "restart"}
    BY <1>0, <1>2 DEF Shapes
  <2>4. /\ todo' \in SUBSET HostIfaces
        /\ template' \in [VM -> Templates \cup {NoTemplate}] /\ addr' \in [VM -> Int]
        /\ nodes' \subseteq VM /\ pending' \subseteq nodes'
        /\ \A w \in Holding' : HasBit(template'[w].net, addr'[w])
        /\ \A w \in VM : phase'[w] # "absent" => template'[w] \in Templates
    BY <1>0, <1>1, <1>9 DEF Shapes
  <2> QED BY <1>7, <1>8, <1>9, <2>1, <2>2, <2>3, <2>4 DEF Shapes
<1>12. Working'
  BY <1>1, <1>3 DEF Working, Ready
<1>13. HostsApart'
  BY <1>0, <1>10, ApartKept
<1>14. Bridged'
  <2> SUFFICES ASSUME "unseen" \notin faults' PROVE (Listed /\ Foreign /\ Starting)'
    BY DEF Bridged
  <2>1. Listed /\ Foreign /\ Starting
    BY <1>0, <1>10 DEF Bridged
  <2>2. Starting'
    BY <1>1, <1>3 DEF Starting
  <2>3. Foreign'
    BY <1>9, <2>1 DEF Foreign
  <2>4. ASSUME NEW l \in Seq(DOMAIN pools), NEW i, HasPool(l, i) PROVE HasPool(l, i)'
    BY <1>0, <1>7, <2>4, PoolAt DEF HasPool
  <2>5. ASSUME NEW i \in HostIfaces \ todo' PROVE HasPool(subnets, i)'
    <3>1. HasPool(list, i)
      BY <1>1, <1>2, <2>1, <2>5 DEF Listed
    <3>2. PICK j \in DOMAIN list : pools'[list[j]].net = i.net
      BY <1>3, <2>4, <3>1 DEF HasPool
    <3>3. j \in DOMAIN subnets' /\ subnets'[j] = list[j]
      BY <1>8, <3>2
    <3> QED BY <3>2, <3>3 DEF HasPool
  <2>6. ASSUME NEW i \in HostIfaces \ todo', NEW w \in VM, phase'[w] = "append"
        PROVE  HasPool(seen[w], i)'
    <3>1. PICK l \in Seq(DOMAIN pools) : l = seen[w] /\ l = seen'[w]
      BY <1>0, <1>9, <2>6 DEF Shapes
    <3>2. HasPool(l, i)
      BY <1>1, <1>9, <2>1, <2>6, <3>1 DEF Listed
    <3>3. HasPool(l, i)'
      BY <2>4, <3>2
    <3> QED BY <3>1, <3>3 DEF HasPool
  <2>7. Listed'
    BY <2>5, <2>6 DEF Listed
  <2> QED BY <2>2, <2>3, <2>7
<1>15. HostBits'
  <2> SUFFICES ASSUME faults' \cap {"unseen", "full"} = {}, NEW k \in DOMAIN pools',
                      NEW i \in HostIfaces \ todo', pools'[k].net = i.net
               PROVE  HostIndex(i.net, i.ip) \in pools'[k].bits
    BY DEF HostBits
  <2>1. faults \cap {"unseen", "full"} = {} /\ "unseen" \notin faults
    BY <1>10
  <2>2. template[v].net # i.net
    BY <1>0, <1>1, <2>1 DEF Bridged, Foreign
  <2>3. k \in DOMAIN pools /\ pools'[k] = pools[k]
    BY <1>4, <1>6, <1>7, <2>2
  <2> QED BY <1>0, <1>1, <2>1, <2>3 DEF HostBits
<1>16. CASE list # subnets
  <2>1. "lost" \in faults'
    BY <1>2, <1>16
  <2>2. Served' /\ Distinct' /\ Explained'
    BY <2>1 DEF Served, Distinct, Explained
  <2> QED BY <1>11, <1>12, <1>13, <1>14, <1>15, <2>2 DEF IInv
<1>17. CASE list = subnets
  <2>1. PoolsStay /\ ListStays /\ BitsGrow
    BY <1>7, <1>8, <1>17 DEF PoolsStay, ListStays, BitsGrow
  <2>2. Served' /\ Distinct'
    BY <1>0, <1>10, <1>11, <2>1, ServedKept
  <2>3. \A x : Reason(x) => Reason(x)'
    BY <1>1, <1>9 DEF Reason
  <2>4. /\ \A k \in DOMAIN pools : pools'[k].bits \ pools[k].bits = {}
        /\ \A k \in DOMAIN pools' \ DOMAIN pools : pools'[k].bits = {}
        /\ "lost" \in faults => "lost" \in faults'
    BY <1>6, <1>7, <1>10
  <2>5. Explained'
    BY <1>0, <1>11, <2>1, <2>3, <2>4, ExplainedKept
  <2> QED BY <1>11, <1>12, <1>13, <1>14, <1>15, <2>2, <2>5 DEF IInv
<1> QED BY <1>16, <1>17

\* A restart: nothing of the pools is left, and nobody gets an address.
LEMMA RestartKeeps ==
    ASSUME IInv, Restart
    PROVE  IInv'
<1>0. Shapes /\ HostsApart
  BY DEF IInv
<1>1. /\ todo' \in SUBSET HostIfaces /\ faults' = Started(todo', faults) \cup {"restart"}
      /\ pools' = <<>> /\ subnets' = <<>> /\ phase' = [v \in VM |-> PhaseAfterRestart(phase[v])]
      /\ seen' = [v \in VM |-> <<>>] /\ pending' = nodes /\ leaked' = {}
      /\ UNCHANGED <<template, addr, nodes>>
  BY DEF Restart
<1>2. ASSUME NEW v \in VM
      PROVE  /\ phase'[v] \in Phases /\ phase'[v] \notin {"config", "append", "occupy"}
             /\ phase'[v] # "absent" => phase[v] # "absent"
             /\ phase'[v] \in HoldingPhases => phase[v] \in HoldingPhases
  BY <1>0, <1>1 DEF PhaseAfterRestart, Phases, HoldingPhases, Shapes
<1>3. HoldersStay
  BY <1>1, <1>2 DEF HoldersStay, Holding, HoldingPhases
<1>4. faults \subseteq faults' /\ "restart" \in faults'
      /\ ("unseen" \notin faults' => todo' = HostIfaces)
      /\ faults' \subseteq {"unseen", "lost", "full", "restart"}
  BY <1>0, <1>1 DEF Started, Shapes
<1>5. DOMAIN pools' = {} /\ DOMAIN subnets' = {}
  BY <1>1, EmptySeq
<1>6. Shapes'
  <2>1. \A S : <<>> \in Seq(S)
    BY EmptySeq
  <2>2. phase' \in [VM -> Phases] /\ seen' \in [VM -> Seq(DOMAIN pools')]
    BY <1>1, <1>2, <2>1
  <2>3. \A v \in Holding' : HasBit(template'[v].net, addr'[v])
    BY <1>0, <1>3 DEF HoldersStay, Shapes
  <2>4. /\ template' \in [VM -> Templates \cup {NoTemplate}] /\ addr' \in [VM -> Int]
        /\ nodes' \subseteq VM /\ pending' \subseteq nodes'
        /\ \A v \in VM : phase'[v] # "absent" => template'[v] \in Templates
    BY <1>0, <1>1, <1>2 DEF Shapes
  <2>5. pools' \in Seq(Pool) /\ subnets' \in Seq(DOMAIN pools')
    BY <1>1, <2>1
  <2> QED BY <1>1, <1>4, <1>5, <2>2, <2>3, <2>4, <2>5 DEF Shapes
<1>7. HostsApart'
  BY <1>0, <1>3, <1>4, ApartKept
<1>8. Working' /\ Served' /\ Distinct'
  BY <1>2, <1>4 DEF Working, Served, Distinct
<1>9. Bridged'
  BY <1>2, <1>4, <1>5 DEF Bridged, Listed, Foreign, Starting
<1>10. HostBits' /\ Explained'
  BY <1>5 DEF HostBits, Explained
<1> QED BY <1>6, <1>7, <1>8, <1>9, <1>10 DEF IInv

\* What the start-up makes of the pools and the list for bridge i, before the
\* gateway is set: k0 is the pool of the bridge's subnet, and the only new one.
MadeFor(i, net, made, list, k0) ==
    /\ made \in Seq(Pool) /\ k0 \in DOMAIN made /\ subnets' = list
    /\ pools' = [k \in DOMAIN made |->
                   IF \E j \in DOMAIN list : list[j] = k
                   THEN Occupied(made[k], i.gateway) ELSE made[k]]
    /\ list \in Seq(DOMAIN made) /\ DOMAIN pools \subseteq DOMAIN made
    /\ DOMAIN made \ DOMAIN pools \subseteq {k0}
    /\ k0 \notin DOMAIN pools => Matches(net.base) = {}
    /\ \A k \in DOMAIN made : BitsInRange(made[k])
    /\ \A k \in DOMAIN pools :
           /\ made[k].net = pools[k].net /\ pools[k].bits \subseteq made[k].bits
           /\ \A bit \in made[k].bits \ pools[k].bits : HostAddress(made[k].net, bit) = i.ip
    /\ k0 \notin DOMAIN pools =>
           \A bit \in made[k0].bits : HostAddress(made[k0].net, bit) = i.ip
    /\ made[k0].net = net /\ HostIndex(net, i.ip) \in made[k0].bits
    /\ \E j \in DOMAIN list : list[j] = k0
    /\ DOMAIN subnets \subseteq DOMAIN list
    /\ \A j \in DOMAIN subnets : list[j] = subnets[j]
    /\ \A j \in DOMAIN list \ DOMAIN subnets :
           list[j] \notin DOMAIN pools /\ \A m \in DOMAIN subnets : m < j

\* The start-up visits a bridge: its pool is found or made, and its address and
\* its gateway are set.
LEMMA UpdateNodeCIDRKeeps ==
    ASSUME SubnetsDisjoint, IInv, NEW i \in HostIfaces, UpdateNodeCIDR(i)
    PROVE  IInv'
<1>0. /\ Shapes /\ Working /\ Served /\ Distinct /\ Bridged /\ HostBits /\ HostsApart
      /\ Explained
  BY DEF IInv
<1>1. /\ i \in todo /\ todo' = todo \ {i}
      /\ UNCHANGED <<phase, template, seen, addr, nodes, pending, faults, leaked>>
  BY DEF UpdateNodeCIDR, vmVars, nodeVars, historyVars
<1>2. PICK net \in Nets : net = i.net
  BY DEF Nets
<1>3. /\ i.ip \in Int /\ i.gateway \in Int /\ HasBit(net, i.ip)
      /\ net.base \in Int /\ Contains(net, net.base)
  BY <1>2, IpamAssumption, NetsOf DEF Iface, NoAddress, Contains
<1>4. PICK n \in Nat : n = Len(pools) /\ DOMAIN pools = 1 .. n /\ pools \in Seq(Pool)
  BY <1>0, LenProperties DEF Shapes
<1>5. \A k \in DOMAIN pools : pools[k] \in Pool /\ BitsInRange(pools[k])
  BY <1>0, ElementOfSeq, LenProperties DEF Shapes
<1>6. ASSUME NEW j \in DOMAIN subnets, pools[subnets[j]].net = net
      PROVE  Matches(net.base) # {}
  BY <1>3, <1>6 DEF Matches
\* The pools after the address, and the list.
<1>7. PICK made, list, k0 : MadeFor(i, net, made, list, k0)
  <2>1. CASE Matches(net.base) = {}
    <3>1. PICK p \in Pool : /\ p = Occupied(NewIPPool(net), i.ip) /\ BitsInRange(p) /\ p.net = net
                            /\ HostIndex(net, i.ip) \in p.bits
                            /\ \A bit \in p.bits : HostAddress(net, bit) = i.ip
      <4>1. PICK r \in Pool : /\ r = NewIPPool(net) /\ BitsInRange(r)
                              /\ r.net = net /\ r.bits = {}
        BY NewPool
      <4>2. PICK p : p = Occupied(r, i.ip)
        OBVIOUS
      <4>3. i.ip \in Int /\ HasBit(net, i.ip)
        BY <1>3
      <4>4. /\ p \in Pool /\ BitsInRange(p) /\ p.net = net
            /\ HostIndex(net, i.ip) \in p.bits
            /\ \A bit \in p.bits \ r.bits : HostAddress(net, bit) = i.ip
        BY <4>1, <4>2, <4>3, OccupiedPool
      <4> QED BY <4>1, <4>2, <4>4
    <3>2. PICK made : made = Append(pools, p)
      OBVIOUS
    <3>3. /\ made \in Seq(Pool) /\ DOMAIN made = DOMAIN pools \cup {n + 1}
          /\ \A k \in DOMAIN pools : made[k] = pools[k]
          /\ made[n + 1] = p /\ n + 1 \notin DOMAIN pools
      BY <1>4, <3>2, AppendedList
    <3>4. PICK list : list = Append(subnets, n + 1)
      OBVIOUS
    <3>5. Len(made) = n + 1
      BY <3>3, <1>4, LenProperties
    <3>6. /\ subnets' = list
          /\ pools' = [k \in DOMAIN made |->
                         IF \E j \in DOMAIN list : list[j] = k
                         THEN Occupied(made[k], i.gateway) ELSE made[k]]
      BY <1>2, <2>1, <3>1, <3>2, <3>4, <3>5 DEF UpdateNodeCIDR, HostOccupied
    <3>7. /\ list \in Seq(DOMAIN made) /\ DOMAIN list = DOMAIN subnets \cup {Len(subnets) + 1}
          /\ \A j \in DOMAIN subnets : list[j] = subnets[j] /\ j < Len(subnets) + 1
          /\ list[Len(subnets) + 1] = n + 1
      <4>1. subnets \in Seq(DOMAIN pools) /\ DOMAIN pools \subseteq DOMAIN made /\ n + 1 \in DOMAIN made
        BY <1>0, <3>3 DEF Shapes
      <4> QED BY <3>4, <4>1, AppendedList
    <3>8. \A k \in DOMAIN made : BitsInRange(made[k])
      BY <1>5, <3>1, <3>3
    <3>9. n + 1 \in DOMAIN made /\ DOMAIN made \ DOMAIN pools \subseteq {n + 1}
          /\ DOMAIN pools \subseteq DOMAIN made
      BY <3>3
    <3>10. /\ \E j \in DOMAIN list : list[j] = n + 1
           /\ DOMAIN subnets \subseteq DOMAIN list
           /\ \A j \in DOMAIN list \ DOMAIN subnets :
                  list[j] \notin DOMAIN pools /\ \A m \in DOMAIN subnets : m < j
      BY <3>3, <3>7
    <3>11. \A k \in DOMAIN pools : made[k].bits \ pools[k].bits = {} /\ pools[k].bits \subseteq made[k].bits
      BY <3>3
    <3>12. MadeFor(i, net, made, list, n + 1)
      BY <2>1, <3>1, <3>3, <3>6, <3>7, <3>8, <3>9, <3>10, <3>11 DEF MadeFor
    <3> QED BY <3>12
  <2>2. CASE Matches(net.base) # {}
    <3>1. PICK k \in DOMAIN pools : /\ k = Serving(net.base) /\ pools[k].net = net
                                    /\ \E j \in DOMAIN subnets : subnets[j] = k
      BY <1>0, <1>3, <2>2, ServingOf, SameServing
    <3>2. PICK p \in Pool : /\ p = Occupied(pools[k], i.ip) /\ BitsInRange(p) /\ p.net = net
                            /\ HostIndex(net, i.ip) \in p.bits /\ pools[k].bits \subseteq p.bits
                            /\ \A bit \in p.bits \ pools[k].bits : HostAddress(net, bit) = i.ip
      <4>1. PICK r \in Pool : r = pools[k] /\ BitsInRange(r) /\ r.net = net
        BY <1>5, <3>1
      <4>2. PICK p : p = Occupied(r, i.ip)
        OBVIOUS
      <4>3. i.ip \in Int /\ HasBit(net, i.ip)
        BY <1>3
      <4>4. /\ p \in Pool /\ BitsInRange(p) /\ p.net = net /\ r.bits \subseteq p.bits
            /\ HostIndex(net, i.ip) \in p.bits
            /\ \A bit \in p.bits \ r.bits : HostAddress(net, bit) = i.ip
        BY <4>1, <4>2, <4>3, OccupiedPool
      <4> QED BY <4>1, <4>2, <4>4
    <3>3. PICK made : made = [pools EXCEPT ![k] = p]
      OBVIOUS
    <3>4. /\ made \in Seq(Pool) /\ DOMAIN made = DOMAIN pools /\ made[k] = p
          /\ \A m \in DOMAIN pools \ {k} : made[m] = pools[m]
      BY <1>4, <3>3, ExceptSeq
    <3>5. /\ subnets' = subnets
          /\ pools' = [m \in DOMAIN made |->
                         IF \E j \in DOMAIN subnets : subnets[j] = m
                         THEN Occupied(made[m], i.gateway) ELSE made[m]]
      BY <1>2, <2>2, <3>1, <3>2, <3>3 DEF UpdateNodeCIDR, HostOccupied
    <3>6. subnets \in Seq(DOMAIN made)
      BY <1>0, <3>4 DEF Shapes
    <3>7. \A m \in DOMAIN made : BitsInRange(made[m])
      BY <1>5, <3>2, <3>4
    <3>8. \A m \in DOMAIN pools :
               /\ made[m].net = pools[m].net /\ pools[m].bits \subseteq made[m].bits
               /\ \A bit \in made[m].bits \ pools[m].bits : HostAddress(made[m].net, bit) = i.ip
      BY <3>1, <3>2, <3>4
    <3>9. MadeFor(i, net, made, subnets, k)
      BY <3>1, <3>2, <3>4, <3>5, <3>6, <3>7, <3>8 DEF MadeFor
    <3> QED BY <3>9
  <2> QED BY <2>1, <2>2
<1> USE <1>7 DEF MadeFor
\* The pools after the gateway.
<1>8. ASSUME NEW k \in DOMAIN made
      PROVE  /\ pools'[k] \in Pool /\ BitsInRange(pools'[k]) /\ pools'[k].net = made[k].net
             /\ made[k].bits \subseteq pools'[k].bits
             /\ \A bit \in pools'[k].bits \ made[k].bits : HostAddress(made[k].net, bit) = i.gateway
  <2>1. made[k] \in Pool /\ BitsInRange(made[k])
    BY <1>7, ElementOfSeq, LenProperties
  <2>2. pools'[k] = Occupied(made[k], i.gateway) \/ pools'[k] = made[k]
    BY <1>7
  <2> QED BY <1>3, <2>1, <2>2, OccupiedPool
<1>9. pools' \in Seq(Pool) /\ DOMAIN pools' = DOMAIN made
  <2>1. pools' \in [DOMAIN made -> Pool]
    BY <1>7, <1>8
  <2> QED BY <2>1, FunctionIsList
<1>10. PoolsStay /\ ListStays /\ BitsGrow
  BY <1>7, <1>8, <1>9 DEF PoolsStay, ListStays, BitsGrow
<1>11. Holding' = Holding /\ HoldersStay
  BY <1>1 DEF Holding, HoldersStay
<1>12. Shapes'
  <2>1. seen' \in [VM -> Seq(DOMAIN pools')]
    <3>1. \A w \in VM : seen[w] \in Seq(DOMAIN pools')
      <4> TAKE w \in VM
      <4>1. seen[w] \in Seq(DOMAIN pools) /\ DOMAIN pools \subseteq DOMAIN pools'
        BY <1>0, <1>7, <1>9 DEF Shapes
      <4> QED BY <4>1, SeqMonotonic
    <3>2. seen \in [VM -> Seq(DOMAIN pools)] /\ seen' = seen
      BY <1>0, <1>1 DEF Shapes
    <3> QED BY <3>1, <3>2
  <2>2. /\ \A k \in DOMAIN pools' : BitsInRange(pools'[k])
        /\ subnets' \in Seq(DOMAIN pools')
    BY <1>7, <1>8, <1>9
  <2>3. /\ todo' \in SUBSET HostIfaces /\ phase' \in [VM -> Phases]
        /\ template' \in [VM -> Templates \cup {NoTemplate}] /\ addr' \in [VM -> Int]
        /\ nodes' \subseteq VM /\ pending' \subseteq nodes'
        /\ \A w \in Holding' : HasBit(template'[w].net, addr'[w])
        /\ \A w \in VM : phase'[w] # "absent" => template'[w] \in Templates
        /\ faults' \subseteq {"unseen", "lost", "full", "restart"}
    BY <1>0, <1>1, <1>11 DEF Shapes
  <2> QED BY <1>9, <2>1, <2>2, <2>3 DEF Shapes
<1>13. \A v \in VM : phase'[v] \notin {"config", "append", "occupy"}
  BY <1>0, <1>1 DEF Working, Ready
<1>14. Working' /\ HostsApart' /\ Served' /\ Distinct'
  BY <1>0, <1>1, <1>10, <1>11, <1>12, <1>13, ApartKept, ServedKept DEF Working
\* One pool for each subnet.
<1>15. ASSUME "unseen" \notin faults
       PROVE  /\ \A k \in DOMAIN pools' : \E j \in DOMAIN subnets' : subnets'[j] = k
              /\ \A k, l \in DOMAIN pools' : pools'[k].net = pools'[l].net => k = l
  <2>1. /\ \A k \in DOMAIN pools : \E j \in DOMAIN subnets : subnets[j] = k
        /\ \A k, l \in DOMAIN pools : pools[k].net = pools[l].net => k = l
    BY <1>0, <1>1, <1>15 DEF Bridged, Starting
  <2>2. \A k \in DOMAIN pools' : \E j \in DOMAIN subnets' : subnets'[j] = k
    BY <1>7, <1>9, <2>1
  <2>3. \A k \in DOMAIN pools : k0 \notin DOMAIN pools => pools[k].net # net
    BY <1>6, <1>7, <2>1
  <2>4. \A k \in DOMAIN pools' : pools'[k].net = IF k \in DOMAIN pools THEN pools[k].net ELSE net
    BY <1>7, <1>8, <1>9
  <2>5. \A k \in DOMAIN pools' : k \in DOMAIN pools \/ k = k0
    BY <1>7, <1>9
  <2> HIDE <1>7 DEF MadeFor
  <2>6. ASSUME NEW k \in DOMAIN pools', NEW l \in DOMAIN pools', pools'[k].net = pools'[l].net
        PROVE  k = l
    <3>1. CASE k \in DOMAIN pools /\ l \in DOMAIN pools
      BY <2>1, <2>4, <2>6, <3>1
    <3>2. CASE k \notin DOMAIN pools /\ l \notin DOMAIN pools
      BY <2>5, <3>2
    <3>3. CASE k \in DOMAIN pools /\ l \notin DOMAIN pools
      BY <2>3, <2>4, <2>5, <2>6, <3>3
    <3>4. CASE k \notin DOMAIN pools /\ l \in DOMAIN pools
      BY <2>3, <2>4, <2>5, <2>6, <3>4
    <3> QED BY <3>1, <3>2, <3>3, <3>4
  <2> QED BY <2>2, <2>6
<1>16. \A h \in HostIfaces \ todo' : h = i \/ h \in HostIfaces \ todo
  BY <1>1
<1>17. Bridged'
  <2> SUFFICES ASSUME "unseen" \notin faults' PROVE (Listed /\ Foreign /\ Starting)'
    BY DEF Bridged
  <2>0. "unseen" \notin faults
    BY <1>1
  <2>1. Foreign'
    BY <1>13 DEF Foreign
  <2>2. Starting'
    BY <1>15, <2>0 DEF Starting
  <2>3. ASSUME NEW h \in HostIfaces \ todo' PROVE HasPool(subnets, h)'
    <3>1. CASE h = i
      <4>1. PICK j \in DOMAIN subnets' : subnets'[j] = k0
        BY <1>7
      <4>2. pools'[k0].net = h.net
        BY <1>2, <1>7, <1>8, <3>1
      <4> QED BY <4>1, <4>2 DEF HasPool
    <3>2. CASE h \in HostIfaces \ todo
      <4>1. PICK j \in DOMAIN subnets : pools[subnets[j]].net = h.net
        BY <1>0, <2>0, <3>2 DEF Bridged, Listed, HasPool
      <4>2. subnets[j] \in DOMAIN pools
        BY <1>0, PoolAt DEF Shapes
      <4>3. /\ j \in DOMAIN subnets' /\ subnets'[j] = subnets[j]
            /\ pools'[subnets[j]].net = pools[subnets[j]].net
        BY <1>10, <4>2 DEF ListStays, PoolsStay
      <4> QED BY <4>1, <4>3 DEF HasPool
    <3> QED BY <1>16, <3>1, <3>2
  <2>4. Listed'
    BY <1>13, <2>3 DEF Listed
  <2> QED BY <2>1, <2>2, <2>4
<1>18. HostBits'
  <2> SUFFICES ASSUME faults' \cap {"unseen", "full"} = {}, NEW k \in DOMAIN pools',
                      NEW h \in HostIfaces \ todo', pools'[k].net = h.net
               PROVE  HostIndex(h.net, h.ip) \in pools'[k].bits
    BY DEF HostBits
  <2>0. "unseen" \notin faults /\ faults \cap {"unseen", "full"} = {}
    BY <1>1
  <2>1. CASE h = i
    <3>1. k0 \in DOMAIN pools' /\ pools'[k0].net = net /\ HostIndex(net, i.ip) \in pools'[k0].bits
      BY <1>7, <1>8, <1>9
    <3>2. k = k0
      BY <1>2, <1>15, <2>0, <2>1, <3>1
    <3> QED BY <1>2, <2>1, <3>1, <3>2
  <2>2. CASE h \in HostIfaces \ todo
    <3>1. PICK j \in DOMAIN subnets : pools[subnets[j]].net = h.net
      BY <1>0, <2>0, <2>2 DEF Bridged, Listed, HasPool
    <3>2. PICK l \in DOMAIN pools : l = subnets[j]
      BY <1>0, PoolAt DEF Shapes
    <3>3. l \in DOMAIN pools' /\ pools'[l].net = h.net
      BY <1>10, <3>1, <3>2 DEF PoolsStay
    <3>4. k = l
      <4>1. pools'[k].net = pools'[l].net
        BY <3>3
      <4> QED BY <1>15, <2>0, <3>3, <4>1
    <3>5. HostIndex(h.net, h.ip) \in pools[k].bits
      BY <1>0, <2>0, <2>2, <3>1, <3>2, <3>4 DEF HostBits
    <3> QED BY <1>10, <3>2, <3>4, <3>5 DEF BitsGrow
  <2> QED BY <1>16, <2>1, <2>2
<1>19. Explained'
  <2>1. Reason(i.ip)' /\ Reason(i.gateway)'
    BY DEF Reason
  <2>2. \A x : Reason(x) => Reason(x)'
    BY <1>1, <1>11 DEF Reason
  <2>3. \A k \in DOMAIN pools : \A bit \in pools'[k].bits \ pools[k].bits : \A x :
           x = HostAddress(pools[k].net, bit) => x = i.ip \/ x = i.gateway
    BY <1>7, <1>8
  <2>4. \A k \in DOMAIN pools' \ DOMAIN pools : \A bit \in pools'[k].bits : \A x :
           x = HostAddress(pools'[k].net, bit) => x = i.ip \/ x = i.gateway
    BY <1>7, <1>8, <1>9
  <2>5. "lost" \in faults => "lost" \in faults'
    BY <1>1
  <2>6. /\ \A k \in DOMAIN pools : \A bit \in pools'[k].bits \ pools[k].bits : \A x :
              x = HostAddress(pools[k].net, bit) => Reason(x)'
        /\ \A k \in DOMAIN pools' \ DOMAIN pools : \A bit \in pools'[k].bits : \A x :
              x = HostAddress(pools'[k].net, bit) => Reason(x)'
    <3> HIDE <1>7 DEF MadeFor
    <3>1. \A x : (x = i.ip \/ x = i.gateway) => Reason(x)'
      BY <2>1
    <3> QED BY <2>3, <2>4, <3>1
  <2> QED BY <1>0, <1>10, <1>12, <2>2, <2>5, <2>6, ExplainedKept
<1> QED BY <1>12, <1>14, <1>17, <1>18, <1>19 DEF IInv

-----------------------------------------------------------------------------
(* Theorems *)

\* The invariant holds when the operator starts.
LEMMA InitHolds ==
    ASSUME Init
    PROVE  IInv
<1>1. DOMAIN pools = {} /\ DOMAIN subnets = {}
  BY EmptySeq DEF Init
<1>2. Holding = {} /\ \A v \in VM : phase[v] = "absent"
  BY DEF Init, Holding
<1>3. \A S : <<>> \in Seq(S)
  BY EmptySeq
<1>4. Shapes
  BY <1>1, <1>2, <1>3 DEF Shapes, Init, Phases, Started, NoAddress
<1>5. "unseen" \notin faults => todo = HostIfaces
  BY DEF Init, Started
<1> QED BY <1>1, <1>2, <1>4, <1>5 DEF IInv, Working, Served, Distinct, Bridged, Listed,
      Foreign, Starting, HostBits, HostsApart, Explained

\* Every step of start-up, creates, deletes, node events and restarts keeps the
\* invariant.
LEMMA NextKeeps ==
    ASSUME SubnetsDisjoint, IInv, [Next]_vars
    PROVE  IInv'
<1>1. CASE UNCHANGED vars
  <2>1. /\ UNCHANGED <<todo, pools, subnets, phase, template, seen, addr>>
        /\ UNCHANGED <<nodes, pending, faults, leaked>>
    BY <1>1 DEF vars
  <2>2. Holding' = Holding
    BY <2>1 DEF Holding
  <2>3. \A x : Matches(x)' = Matches(x)
    BY <2>1 DEF Matches
  <2>4. \A x : Serving(x)' = Serving(x)
    BY <2>1, <2>3 DEF Serving
  <2>5. Shapes'
    BY <2>1, <2>2 DEF IInv, Shapes
  <2>6. Working' /\ Distinct' /\ HostBits' /\ HostsApart'
    BY <2>1, <2>2 DEF IInv, Working, Ready, Distinct, HostBits, HostsApart
  <2>7. Served'
    BY <2>1, <2>2, <2>3, <2>4 DEF IInv, Served, Marked
  <2>8. Bridged'
    BY <2>1 DEF IInv, Bridged, Listed, Foreign, Starting, HasPool
  <2>9. Explained'
    BY <2>1, <2>2, <2>4 DEF IInv, Explained, Reason
  <2> QED BY <2>5, <2>6, <2>7, <2>8, <2>9 DEF IInv
<1>2. ASSUME NEW i \in HostIfaces, UpdateNodeCIDR(i) PROVE IInv'
  BY <1>2, UpdateNodeCIDRKeeps
<1>3. ASSUME NEW v \in VM, NEW t \in Templates, Clone(v, t) PROVE IInv'
  BY <1>3, CloneKeeps
<1>4. ASSUME NEW v \in VM, FindPool(v) \/ AppendPool(v) \/ OccupyIP(v) PROVE IInv'
  BY <1>4, FindPoolKeeps, AppendPoolKeeps, OccupyIPKeeps
<1>5. ASSUME NEW v \in VM, Start(v) \/ CreateFails(v) \/ DeleteVM(v) PROVE IInv'
  BY <1>5, StartOrDeleteKeeps, CreateFailsKeeps
<1>6. ASSUME NEW v \in VM, Register(v) \/ OccupyNodeIPs(v) \/ RemoveNode(v) PROVE IInv'
  BY <1>6, RegisterKeeps, OccupyNodeIPsKeeps, RemoveNodeKeeps
<1>7. ASSUME NEW v \in VM, ReleaseIP(v) PROVE IInv'
  BY <1>7, ReleaseIPKeeps
<1>8. CASE Restart
  BY <1>8, RestartKeeps
<1> QED BY <1>1, <1>2, <1>3, <1>4, <1>5, <1>6, <1>7, <1>8 DEF Next

\* The conjunction that the properties follow from is an invariant.
THEOREM Inductive ==
    ASSUME SubnetsDisjoint
    PROVE  Spec => []IInv
<1>1. Init => IInv
  BY InitHolds
<1>2. IInv /\ [Next]_vars => IInv'
  BY NextKeeps
<1> QED BY <1>1, <1>2, PTL DEF Spec

\* Bits are bits of host addresses, lists name pools that exist, and a VM's
\* address is a host address of the subnet of its template (ippool.go, Next and
\* HostIndex; nodeipam.go, OccupyIP).
THEOREM TypeCorrect ==
    ASSUME SubnetsDisjoint
    PROVE  Spec => []TypeOK
<1>1. IInv => TypeOK
  <2> SUFFICES ASSUME IInv PROVE TypeOK
    OBVIOUS
  <2>1. Shapes
    BY DEF IInv
  <2>2. \A k \in DOMAIN pools : pools[k] \in Pool /\ BitsInRange(pools[k])
    BY <2>1, ElementOfSeq, LenProperties DEF Shapes
  <2>3. \A k \in DOMAIN pools : pools[k].net \in Subnet
    BY <2>2, NetsOf DEF Pool
  <2> QED BY <2>1, <2>2, <2>3 DEF TypeOK, Shapes, BitsInRange
<1> QED BY <1>1, Inductive, PTL

\* No address is held by two VMs, and none by a VM and a bridge, outside the
\* faults that the property names (OccupyIP, ReleaseIP and the unlocked append
\* of AllocateOrOccupyCIDR, in every interleaving).
THEOREM AddressesUnique == Spec => []UniqueAddresses
<1>1. CASE SubnetsDisjoint
  <2>1. IInv => UniqueAddresses
    BY DEF IInv, Distinct, HostsApart, UniqueAddresses
  <2> QED BY <1>1, <2>1, Inductive, PTL
<1>2. CASE ~SubnetsDisjoint
  <2>1. UniqueAddresses
    BY <1>2 DEF UniqueAddresses
  <2> QED BY <2>1, PTL
<1> QED BY <1>1, <1>2

\* Every bit that is set has a reason (Occupy, Next and Release of the pool that
\* serves the address).
THEOREM BitsAccounted == Spec => []BitsExplained
<1>1. CASE SubnetsDisjoint
  <2>1. IInv => BitsExplained
    BY DEF IInv, Explained, Reason, BitsExplained
  <2> QED BY <1>1, <2>1, Inductive, PTL
<1>2. CASE ~SubnetsDisjoint
  <2>1. BitsExplained
    BY <1>2 DEF BitsExplained
  <2> QED BY <2>1, PTL
<1> QED BY <1>1, <1>2

=============================================================================
