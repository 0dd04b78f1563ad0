------------------------------ MODULE NodeIpam ------------------------------
(***************************************************************************)
(* IP address management (nodeipam/nodeipam.go) with everything that       *)
(* drives it: the start-up of the operator, VMs being created and deleted  *)
(* (instance_network.go, instance_utils.go), and the node.ipam controller  *)
(* that occupies the addresses of Kubernetes nodes.                        *)
(*                                                                         *)
(* The list `subnets` has no lock.  Creates run concurrently, so a pool is *)
(* looked up in one step and appended in another, to the list as it was or *)
(* to the list as it is (a data race on the slice header).  The pools      *)
(* live in memory only: a restart loses them.                              *)
(*                                                                         *)
(* `faults` and `leaked` are history variables.  They record what went     *)
(* wrong so far, so that the properties can say exactly what may go wrong. *)
(***************************************************************************)
EXTENDS IPPool, Sequences

CONSTANTS VM,           \* VMs, and the Kubernetes nodes they become
          HostIfaces,   \* bridges of the hosts: address, subnet, gateway
          Templates,    \* IP configurations of VMs: subnet, bridge
          NoTemplate,   \* of a VM that was never made
          NoIface,      \* a bridge without address
          MaxPools,     \* bound: pools created between two restarts
          MaxRestarts   \* bound: restarts of the controller

Subnet == [base : Nat, size : Nat \ {0}]

Iface == [ip : Nat, net : Subnet, gateway : Nat \cup {NoAddress}]

ASSUME IpamAssumption ==
    /\ HostIfaces \subseteq Iface
    /\ \A i \in HostIfaces : HasBit(i.net, i.ip)
    /\ Templates \subseteq [net : Subnet, iface : HostIfaces \cup {NoIface}]
    /\ NoTemplate \notin Templates
    /\ NoIface \notin HostIfaces
    /\ MaxPools \in Nat /\ MaxRestarts \in Nat

VARIABLES
    todo,      \* bridges that UpdateNodeCIDR has yet to visit
    pools,     \* every pool made since the start
    subnets,   \* the provider's list, as indices of pools
    phase,     \* where each VM is in its life
    template,  \* the IP configuration it was made from
    seen,      \* the list that AllocateOrOccupyCIDR read
    addr,      \* the address in the VM's configuration
    nodes,     \* VMs that have a Node object
    pending,   \* Node objects with an event for the node.ipam controller
    restarts, faults, leaked

vars == <<todo, pools, subnets, phase, template, seen, addr, nodes, pending,
          restarts, faults, leaked>>

ipamVars == <<pools, subnets>>
vmVars == <<phase, template, seen, addr>>
nodeVars == <<nodes, pending>>
historyVars == <<restarts, faults, leaked>>

Phases == {"absent", "config", "append", "occupy", "starting", "running",
           "deleted", "released", "removed"}

\* VMs that an address belongs to, up to the ReleaseIP of their deletion.
Holding == {v \in VM : phase[v] \in {"starting", "running", "deleted"}}

Ready == todo = {}

-----------------------------------------------------------------------------
(* The list of pools *)

Matches(ip) == {k \in DOMAIN subnets : Contains(pools[subnets[k]].net, ip)}

\* The pool that ContainsCIDR finds for an address: the first of the list.
Serving(ip) == subnets[Min(Matches(ip))]

\* The CIDR that generateNetworkIPs passes to OccupyIP: the subnet itself, or
\* the address of the VM's bridge when the subnet contains the bridge's network.
Hint(t) ==
    IF t.iface # NoIface /\ Contains(t.net, t.iface.net.base)
    THEN t.iface.ip
    ELSE t.net.base

\* Occupy(ip) on every pool of the list that contains ip.
OccupiedInAll(ps, ip) ==
    [k \in DOMAIN ps |->
        IF \E j \in DOMAIN subnets : subnets[j] = k THEN Occupied(ps[k], ip) ELSE ps[k]]

-----------------------------------------------------------------------------
(* Start-up *)

\* The bridges that SyncNodeCapacity could read before UpdateNodeCIDR: an
\* error of the Proxmox API leaves some out, and they are never looked at again.
Started(visible, history) ==
    history \cup (IF visible = HostIfaces THEN {} ELSE {"unseen"})

Init ==
    /\ todo \in SUBSET HostIfaces
    /\ pools = <<>>
    /\ subnets = <<>>
    /\ phase = [v \in VM |-> "absent"]
    /\ template = [v \in VM |-> NoTemplate]
    /\ seen = [v \in VM |-> <<>>]
    /\ addr = [v \in VM |-> NoAddress]
    /\ nodes = {}
    /\ pending = {}
    /\ restarts = 0
    /\ faults = Started(todo, {})
    /\ leaked = {}

\* The address and the gateway of bridge i, in the pool of its subnet.
HostOccupied(p, i) == Occupied(p, i.ip)

\* One bridge in the loop of UpdateNodeCIDR, which runs before any controller.
\* The bridges are the keys of a map: they come in any order.
UpdateNodeCIDR(i) ==
    LET new  == Append(pools, HostOccupied(NewIPPool(i.net), i))
        old  == [pools EXCEPT ![Serving(i.net.base)] = HostOccupied(@, i)]
        list == IF Matches(i.net.base) = {} THEN Append(subnets, Len(new)) ELSE subnets
        made == IF Matches(i.net.base) = {} THEN new ELSE old
    IN  /\ i \in todo
        /\ todo' = todo \ {i}
        /\ subnets' = list
        /\ pools' = [k \in DOMAIN made |->
                       IF \E j \in DOMAIN list : list[j] = k
                       THEN Occupied(made[k], i.gateway)
                       ELSE made[k]]
        /\ UNCHANGED <<vmVars, nodeVars, historyVars>>

-----------------------------------------------------------------------------
(* Creating a VM *)

\* CloneVM has made the VM; generateNetworkIPs is about to run.  The name of a
\* VM is the one of its NodeClaim and never comes back.
Clone(v, t) ==
    /\ Ready
    /\ phase[v] = "absent"
    /\ phase' = [phase EXCEPT ![v] = "config"]
    /\ template' = [template EXCEPT ![v] = t]
    /\ UNCHANGED <<todo, ipamVars, seen, addr, nodeVars, historyVars>>

\* AllocateOrOccupyCIDR, first half: is there a pool for the subnet?
FindPool(v) ==
    /\ phase[v] = "config"
    /\ IF Matches(template[v].net.base) # {}
       THEN /\ phase' = [phase EXCEPT ![v] = "occupy"]
            /\ UNCHANGED seen
       ELSE /\ phase' = [phase EXCEPT ![v] = "append"]
            /\ seen' = [seen EXCEPT ![v] = subnets]
    /\ UNCHANGED <<todo, ipamVars, template, addr, nodeVars, historyVars>>

\* AllocateOrOccupyCIDR, second half.  A pool that another create appended in
\* the meantime is lost when the stale list is extended.
AppendPool(v) ==
    /\ phase[v] = "append"
    /\ Len(pools) < MaxPools
    /\ pools' = Append(pools, NewIPPool(template[v].net))
    /\ \E list \in {seen[v], subnets} :
         /\ subnets' = Append(list, Len(pools) + 1)
         /\ faults' = IF list = subnets THEN faults ELSE faults \cup {"lost"}
    /\ phase' = [phase EXCEPT ![v] = "occupy"]
    /\ seen' = [seen EXCEPT ![v] = <<>>]
    /\ UNCHANGED <<todo, template, addr, nodeVars, restarts, leaked>>

\* OccupyIP: the next address of the pool, or an error when there is no pool
\* (it was lost) or the subnet has no host address.  A failed create removes
\* the VM again.
OccupyIP(v) ==
    LET hint == Hint(template[v])
        k    == Serving(hint)
        ip   == NextAddress(pools[k], hint)
    IN  /\ phase[v] = "occupy"
        /\ IF Matches(hint) = {}
           THEN /\ phase' = [phase EXCEPT ![v] = "removed"]
                /\ UNCHANGED <<pools, addr, faults>>
           ELSE /\ pools' = [pools EXCEPT ![k] = Taken(@, hint)]
                /\ phase' = [phase EXCEPT ![v] =
                                IF ip = NoAddress THEN "removed" ELSE "starting"]
                /\ addr' = [addr EXCEPT ![v] = ip]
                /\ faults' = IF FreeBits(pools[k]) = {} THEN faults \cup {"full"} ELSE faults
        /\ UNCHANGED <<todo, subnets, template, seen, nodeVars, restarts, leaked>>

\* The rest of instanceCreate succeeds.
Start(v) ==
    /\ phase[v] = "starting"
    /\ phase' = [phase EXCEPT ![v] = "running"]
    /\ UNCHANGED <<todo, ipamVars, template, seen, addr, nodeVars, historyVars>>

\* The rest of instanceCreate fails: the deferred function deletes the VM, and
\* nothing gives its address back.
CreateFails(v) ==
    /\ phase[v] = "starting"
    /\ phase' = [phase EXCEPT ![v] = "removed"]
    /\ addr' = [addr EXCEPT ![v] = NoAddress]
    /\ leaked' = leaked \cup {addr[v]}
    /\ UNCHANGED <<todo, ipamVars, template, seen, nodeVars, restarts, faults>>

-----------------------------------------------------------------------------
(* Kubernetes nodes *)

\* The VM joins the cluster and its address appears in the Node object.
Register(v) ==
    /\ phase[v] = "running" /\ v \notin nodes
    /\ nodes' = nodes \cup {v}
    /\ pending' = pending \cup {v}
    /\ UNCHANGED <<todo, ipamVars, vmVars, historyVars>>

\* Reconcile of the node.ipam controller.  Without any pool it tries again
\* later; without a pool for this address it is done.
OccupyNodeIPs(v) ==
    /\ Ready
    /\ v \in pending
    /\ subnets # <<>>
    /\ pools' = OccupiedInAll(pools, addr[v])
    /\ pending' = pending \ {v}
    /\ leaked' = IF v \in Holding THEN leaked ELSE leaked \cup {addr[v]}
    /\ UNCHANGED <<todo, subnets, vmVars, nodes, restarts, faults>>

-----------------------------------------------------------------------------
(* Deleting a VM *)

\* instanceDelete reads the configuration and deletes the VM ...
DeleteVM(v) ==
    /\ Ready
    /\ phase[v] = "running"
    /\ phase' = [phase EXCEPT ![v] = "deleted"]
    /\ UNCHANGED <<todo, ipamVars, template, seen, addr, nodeVars, historyVars>>

\* ... and then releases the address in the first pool that contains it.
ReleaseIP(v) ==
    /\ Ready
    /\ phase[v] = "deleted"
    /\ phase' = [phase EXCEPT ![v] = "released"]
    /\ pools' = IF Matches(addr[v]) = {}
                THEN pools
                ELSE [pools EXCEPT ![Serving(addr[v])] = Freed(@, addr[v])]
    /\ UNCHANGED <<todo, subnets, template, seen, addr, nodeVars, historyVars>>

\* The Node object goes away after the instance.
RemoveNode(v) ==
    /\ phase[v] = "released"
    /\ phase' = [phase EXCEPT ![v] = "removed"]
    /\ addr' = [addr EXCEPT ![v] = NoAddress]
    /\ nodes' = nodes \ {v}
    /\ pending' = pending \ {v}
    /\ UNCHANGED <<todo, ipamVars, template, seen, historyVars>>

\* What becomes of a VM when the operation on it is cut short.
PhaseAfterRestart(ph) ==
    IF ph \in {"config", "append", "occupy"} THEN "removed"
    ELSE IF ph = "starting" THEN "running"
    ELSE IF ph = "deleted" THEN "released"
    ELSE ph

\* The controller restarts.  VMs that it was creating stay behind, with an
\* address if they had one; every Node object is announced again.
Restart ==
    /\ restarts < MaxRestarts
    /\ restarts' = restarts + 1
    /\ todo' \in SUBSET HostIfaces
    /\ faults' = Started(todo', faults) \cup {"restart"}
    /\ pools' = <<>>
    /\ subnets' = <<>>
    /\ phase' = [v \in VM |-> PhaseAfterRestart(phase[v])]
    /\ seen' = [v \in VM |-> <<>>]
    /\ pending' = nodes
    /\ leaked' = {}
    /\ UNCHANGED <<template, addr, nodes>>

-----------------------------------------------------------------------------
Next ==
    \/ \E i \in HostIfaces : UpdateNodeCIDR(i)
    \/ \E v \in VM :
        \/ \E t \in Templates : Clone(v, t)
        \/ FindPool(v) \/ AppendPool(v) \/ OccupyIP(v) \/ Start(v) \/ CreateFails(v)
        \/ Register(v) \/ OccupyNodeIPs(v)
        \/ DeleteVM(v) \/ ReleaseIP(v) \/ RemoveNode(v)
    \/ Restart

Spec == Init /\ [][Next]_vars

-----------------------------------------------------------------------------
(* Properties *)

\* Type invariant.  A bit that is set is the bit of a host address, except
\* that a pool without host addresses may have its bit 0 set (ippool.go:148).
TypeOK ==
    /\ todo \in SUBSET HostIfaces
    /\ \A k \in DOMAIN pools :
         /\ pools[k].net \in Subnet
         /\ \A i \in pools[k].bits : i = 0 \/ i \in 0 .. MaxIPs(pools[k].net) - 1
    /\ subnets \in Seq(DOMAIN pools)
    /\ phase \in [VM -> Phases]
    /\ \A v \in VM : seen[v] \in Seq(DOMAIN pools)
    /\ \A v \in Holding : HasBit(template[v].net, addr[v])
    /\ nodes \subseteq VM
    /\ pending \subseteq nodes
    /\ faults \subseteq {"unseen", "lost", "full", "restart"}

\* Subnets of bridges and templates are the same or have no address in common.
SubnetsDisjoint ==
    LET nets == {i.net : i \in HostIfaces} \cup {t.net : t \in Templates}
    IN  \A m, n \in nets :
          m = n \/ m.base + m.size <= n.base \/ n.base + n.size <= m.base

\* No two VMs have the same address, from the moment OccupyIP hands it out to
\* the ReleaseIP after the VM's deletion, whatever creates, deletes and node
\* events do in between; the exceptions are a restart, a pool lost to racing
\* appends, and a pool without a free address.  And no VM is given the address
\* of a host bridge that the start-up could read, not even after restarts or
\* lost pools.
UniqueAddresses ==
    SubnetsDisjoint =>
        /\ faults \subseteq {"unseen"} =>
               \A v, w \in Holding : v # w => addr[v] # addr[w]
        /\ faults \cap {"unseen", "full"} = {} =>
               \A v \in Holding, i \in HostIfaces : addr[v] # i.ip

\* A bit is set for a reason: a bridge, a gateway, a VM that still has the
\* address, or one of the two leaks (a create that failed after OccupyIP, a
\* node event that came after ReleaseIP).  Deleting a VM leaves nothing else,
\* as long as no pool is lost: a stale list may bring a lost pool back.
BitsExplained ==
    SubnetsDisjoint /\ "lost" \notin faults
    => \A k \in DOMAIN subnets : \A bit \in pools[subnets[k]].bits :
         LET ip == HostAddress(pools[subnets[k]].net, bit)
         IN  \/ ip \in leaked \cup {addr[v] : v \in Holding} \cup {NoAddress}
             \/ \E i \in HostIfaces : ip \in {i.ip, i.gateway}
             \/ Serving(ip) # subnets[k]

=============================================================================
