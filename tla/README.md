# TLA+ models of karpenter-provider-proxmox

The provider lets Karpenter create and delete Proxmox virtual machines as
Kubernetes nodes.  The models in this directory cover the parts that are hard to
test: the accounting of CPUs and memory per Proxmox node, the choice of CPUs for
a VM, the allocation of IP addresses, the life of a VM from its reservation
to its deletion, the choice of its place, the templates that VMs are cloned
from, the controllers of claims and classes, and the daemon that pins VMs to
their CPUs.

- [Inventory](#inventory): the parts of the system and what can go wrong in them
- [Modules](#modules): how state and actions correspond to the code
- [Runs](#runs): what TLC checks, with which bounds, and what it shows
- [Findings](#findings): where the code and its documentation disagree
- [Proofs](#proofs): what TLAPS proves, and how
- [Known behaviours](#known-behaviours-that-no-run-states) that the models show and no run states
- [Not modelled](#not-modelled) and [Plan](#plan)

Paths are relative to the repository; `providers/` stands for `pkg/providers/`.

## Inventory

| Part | State | Operations | What is hard | What makes it correct |
|---|---|---|---|---|
| Allocation policies (`providers/cloudcapacity/cpumanager`) | per node: CPUs in the common pool, pinned CPUs, counted CPUs, booked memory; `static` also free memory per NUMA node | `Allocate`, `AllocateOrUpdate`, `Release`, `AvailableCPUs/Memory` | no table of bookings; overlapping affinities; unsigned counters | counters equal the bookings; never more memory than the node has; a CPU is free or pinned; what fits is granted |
| CPU assignment (`cpu_assignment.go`, `topology/`, `pkg/utils/nodesettings`) | the accumulator of one call | `takeByTopologyNUMAPacked`, `...Distributed` | combinations, uneven topologies | returns a set of the requested size out of the CPUs on offer, or fewer where it counts a cache twice |
| Resource manager (`resourcemanager.go`) | the policy of one node | wraps the policy, reads reserved resources of the node | requests of zero size, node settings that do not match | reserved CPUs and memory are never given to a VM |
| Cloud capacity (`cloudcapacity.go`, `utils.go`) | maps of nodes to capacity, networks, storages; three locks | reserve, release, periodic rebuild, load update, fit tests | the rebuild replaces the map while creates and deletes are under way; one failed call drops a node | booked capacity is what running and promised VMs use; after a disturbance it becomes right again |
| Instance provider (`providers/instance`) | none; state is in Proxmox | create with deferred clean-up, get, delete, in-place updates | eight remote calls, each may fail; IDs that are not reserved and are reused; retries | clean-up never hits a foreign VM; nothing stays booked for ever |
| IPAM (`providers/nodeipam`, `controllers/node/ipam`) | list of pools, a bit per address; in memory only, the list without lock | `UpdateNodeCIDR` at start, `AllocateOrOccupyCIDR`, `OccupyIP`, `ReleaseIP`, node events | concurrent creates, restarts, full pools, late events | no address is given twice; bits are set for a reason |
| Instance templates (`providers/instancetemplate`) | templates per region, named locks per zone | create, update, delete, sync | locks held across a loop, images shared by templates and zones, scans whose errors are swallowed | one template per zone; nothing is left behind; a create gives way |
| Controllers (`pkg/controllers`) | status and annotations in Kubernetes | hash, status, in-place update, termination, registration clean-up | stale reads, conflicts, retries, finalizers | an update is applied once its hash is recorded; finalizers go last |
| Bootstrap tokens (`providers/bootstrap`) | secrets with an expiry | create, delete, delete expired | crash between token and VM | a token does not outlive its use |
| Scheduler daemon (`cmd/proxmox-scheduler`, `pkg/utils/reconciler`) | queue of events, retry list, affinities of running VMs | file and timer events, processing with retries | deduplication, retries against newer events, full queue, errors that are only logged | every running VM that met no error gets its affinity in the end |
| Instance types and placement (`providers/instancetype`, `instance_placement.go`) | offerings per type under a lock | offerings from capacity, copies for each create, choice of type, region and zone | every stage works on a copy of its own age; zones are looked up by name | a VM is where claim and class allow it; a claim is placed while there is room |
| Cloud provider (`pkg/cloudprovider`), pool of Proxmox clients | none of their own | Karpenter's interface | class, template and hash are read at different times | a claim has drifted if and only if its VM is out of date |

How they interact: Karpenter calls `CloudProvider.Create/Delete`, which call the
instance provider.  That one chooses a zone from the cloud capacity, gets an ID
from Proxmox, reserves capacity, clones the VM, takes addresses from the IPAM,
and starts the VM.  The capacity controller rebuilds the capacity from Proxmox
every scan period under the same lock that reservations use.  The `node.ipam`
controller occupies the addresses of Kubernetes nodes.  The load controller makes
offerings from the capacity, and `Create` works on a copy of them.  Template
controllers make and remove the VMs that are cloned and the status of node
classes; claim controllers apply changes of the class to running VMs and revoke
bootstrap tokens.  All reconcilers run concurrently, and Karpenter repeats what
fails.  A restart keeps only what Proxmox and Kubernetes hold.  The scheduler
daemon runs on the Proxmox nodes and knows VMs only by their PID files.

`PROJECT.json` lists the hazards of this code line by line, each with the
properties that would notice it.

## Modules

```
SimplePolicy ----+---- SimpleNode ------- MCSimpleNode, SimpleNodeProofs
                 +---- StaticPolicy ----- StaticNode --- MCStaticNode, StaticNodeProofs
                 +---- InstanceLifecycle  MCInstanceLifecycle, InstanceLifecycleProofs
CapacityLedger .......................... implemented by SimpleNode, StaticNode
Bookings ................................ totals of bookings, for the proofs about the three above
CPUTopology ---------- CPUAssignment ---- MCCPUAssignment
IPPool --------------- NodeIpam --------- MCNodeIpam, NodeIpamProofs
Reconciler ----------- Scheduler -------- MCScheduler, SchedulerProofs
                       InstanceTemplate - MCInstanceTemplate, InstanceTemplateProofs
                       NodeClaims ------- MCNodeClaims, NodeClaimsProofs
                       Placement -------- MCPlacement, PlacementProofs
```

**SimplePolicy** is the policy of `policy_simple.go` as a record of its four
fields and pure operators: for each method a guard (`CanAllocate`, ...) for the
error returns and the policy it leaves (`Allocated`, ...).  Each method holds the
policy's mutex for its whole body, so it is one step wherever it is used.  The
reserved CPUs are compared by number only, as in the code, so they need not
belong to the topology.  Memory is in arbitrary units; it is a sum in the
code and the bytes/MiB conversions (exact, since instance types have whole MiB)
play no part.

**SimpleNode** drives the policy through the resource manager: VMs are allocated,
adopted with an affinity, released.  `vms` is the ledger that the code does not
keep.  An affinity may name any CPU of the host (`HostCPUs`), also reserved ones
and ones outside the discovered topology (`AllCPUs`).

**StaticPolicy**, **StaticNode** do the same for `policy_static.go`.  A VM carries the
memory it is bound to on each NUMA node (zero: not bound).  `Grants` is the contract
of `takeByTopology` that CPUAssignment checks the code against: some set of the
requested size out of the offered CPUs or, on nodes where the assignment may count a
cache twice (`ShortGrants`), a smaller one, and failure if too few are offered.  The
code's caller never names NUMA nodes in a request, so lines 160-166 of
`policy_static.go` have no effect and the candidates are those of lines 168-174.
`AffinityOverlap` says whether owners of other VMs may pin them to CPUs in use.

**CPUTopology** is what the provider believes about a node: the settings it guesses
from the CPU model (`utils/nodesettings/cpu.go`; of an EPYC name only the two digits
that matter are kept), the arithmetic of `DiscoverFromSettings`, and the queries of
`CPUDetails`, which become four operators over levels (`numa`, `socket`, `core`,
`cache`, `cpu`).  A node's core count is assumed to be at least its number of NUMA
nodes; below that the code returns an error.

**CPUAssignment** is `takeByTopologyNUMAPacked` with the options that `NewStaticPolicy`
fixes.  A behaviour is one call, under the policy's lock, so there is nothing to
interleave; the actions are the stages of the call, with the early return after
each.  Loops over a sorted list become folds, with the list evaluated where the
code evaluates it: once, before the first take.  The two interface types
`numaFirst` and `socketsFirst` are the operators `FirstLevel` and `SecondLevel`.

**IPPool** is `ippool.go`: addresses are numbers, a subnet is a base and a size,
bit *i* is the address *base + i + 1*.  `Candidate` is the outcome of the search
loop of `Next`, including the full pool.

**NodeIpam** is `nodeipam.go` with its callers.  The check and the append of
`AllocateOrOccupyCIDR` are two steps, because the list has no lock; the append
extends the list that was read or the current one, the two outcomes that the
unsynchronised slice header can have here.  `pools` holds every pool that was
made, `subnets` the list as indices, so a lost pool keeps its bits.
`UpdateNodeCIDR` runs before the controllers, one bridge per step.  A restart
empties the pools, announces every node again and starts over with any subset
of bridges that could be read.  `faults` (what went wrong so far) and `leaked`
(addresses whose bit nobody will clear) are history variables and influence
nothing.

**InstanceLifecycle** is one Proxmox node under the simple policy.  `instanceCreate`
is a sequence of steps, one per remote call or lock, each with its failure;
`instanceDelete` likewise; `SyncNodeCapacity` takes the lock, lists the running
VMs, reads their configurations one at a time (Proxmox moves on meanwhile), and
swaps the result in.  VM IDs are reused: `GetNextID` returns the lowest free ID
and does not reserve it.  `drift` and `alien` are history variables: something
happened since the last rebuild after which the capacity may be off; a Delete
has hit a VM of another claim.

**CapacityLedger** is what a policy promises, without its way of counting: a table
of booked VMs with the free memory and the number of counted CPUs.  A booking
takes only what is free, a VM that goes gives back what it was booked with.
SimpleNode and StaticNode instantiate it (`Ledger`): an entry of the table is the
booking of a VM, free memory and counted CPUs are read off the policy.
`ImplementsLedger` is its specification.

**Reconciler** has the pure parts of `pkg/utils/reconciler`: entries with attempts and
backoff (in ticks), the end of the retries, and the rule by which a new event takes
the place of an equal one.  **Scheduler** is the daemon around it: the file watcher,
the resync timer, the channel, the one goroutine that runs handlers and retries, and
`main` with signal, cancel and close.  A VM's PID file appears before its threads and
may stay behind a dead process; a handler sees what is there when it runs.  The
environment is frozen once the signal has come.  `leaked` and `missed` are history
variables.  What a handler binds are the threads of a VM and the interrupts of its PCI
devices.  Each request to the host may fail for some of the threads, devices or CPUs;
where `vm.go` logs the error and goes on, so does the handler here, and the VM is
marked as `missed`, its CPUs as `leaked`.  Either governor may be switched off by an
empty flag (`GovernorBusy`, `GovernorFree`).  Left out: `usedCPUs` and `sharedCPUs`,
which are only logged, and the forced exit after 30 seconds.

**InstanceTemplate** is `providers/instancetemplate` with the controllers of
`ProxmoxTemplate` objects.  A reconcile reads the object once and works on the copy;
each step is one request to Proxmox with the local work around it, under the zone lock
where the code holds it.  `SyncInstanceTemplates` may fail without its callers
noticing: the old list stays, or a template whose configuration cannot be read is
missing from the new one.  Zones come in the order of a Go map, anew for each Create
(`Orders`), and zones may share the storage of their images (`Store`): an image that
one zone removes is gone for all, while the locks are per zone.  Status and
termination write with an optimistic lock (`stale` says whose copy would be refused).
A specification is an image, a part that needs a new template and a part that is
updated in place.  Four history variables name what the properties except: `raced`
(deleted by the user before the status named its templates), `misread` (a scan left
out a template of the class), `misled` (a scan told a Create wrong about its own
templates in the zone), `undercut` (an image was removed through another zone while a
create was about to import it).

**NodeClaims** is a node class with its controllers (status, hash), the claims and
their controllers (in-place update, clean-up after registration), the launch of a
claim as far as it touches class, template, token and hash, and drift.  A template has
an image and an ID: Create and drift look only for templates whose ID the status of the
class has selected, and a template may be replaced under its own ID or another.  A VM is
in one Proxmox pool at a time, and joins another only after it has left the first.  The
metadata secret is assumed to exist, and so are the Proxmox pools that classes name.

**Placement** is the way of a claim to a node: scans of capacity and load over all
regions, of which any may fail; `UpdateInstanceTypeOfferings`, which holds the lock of
the types while it takes that of the capacity again and again; and the loops of
`instance.Create` over types by price, regions and zones, each reading its data when
it gets there.  Capacity is one number per node; a request is a size, a zone
requirement (`In` or `NotIn`) and a region requirement.  Karpenter's part reads both
(`Compatible`); `Create` takes the values of the first whatever its operator and does
not read the second (`CandidateZones`). The zones of one region are read in one step.

Each *MC* module gives the constants of its component small values, each *Proofs*
module holds the theorems about it.

## Runs

| Run | Properties | Shows |
|---|---|---|
| `simple` | `TypeOK`, `MemoryNeverOvercommitted`, `PoolsComplement`, `FitImpliesAllocate`, `NoPhantomPins`, `ImplementsLedger` | the simple policy stays in step with its bookings in every order of calls, and implements the ledger |
| `static` | `TypeOK`, `NUMAExact`, `PlacedExclusive`, `ImplementsLedger` | NUMA memory is charged and returned exactly and never wraps; placed VMs have CPUs of their own; the ledger again |
| `assignment` | `TakesWhatWasAsked`, `OneSplitCore`, `OneCacheWhenItFits` | the contract that StaticPolicy assumes, the double count on an EPYC 7272 included, and what "packed" and "prefer to align" amount to, for every set of free CPUs and every request |
| `ipam` | `TypeOK`, `UniqueAddresses`, `BitsExplained` | addresses are unique outside restarts, lost pools and full pools, those of hosts are kept; a set bit has a reason |
| `lifecycle` | `TypeOK`, `OwnsItsVM`, `CapacityExact`, `SyncRepairs` | VMs keep their owner; capacity is exact outside the races that `drift` lists; the rebuild repairs it |
| `placement` | `PlacedWhereAllowed`, `EventuallyPlaced` | stale copies never put a VM where its class or the zones that were read do not allow it; a claim that is read in full and has room somewhere is placed |
| `templates` | `TypeOK`, `OneTemplatePerZone`, `ImageUnderCreate`, `NoWaitingCreateInTheWay`, `NoOrphans`, `CleanUpSparesOthers` | what the zone locks and the scans protect while two classes share zones, images, cache and IDs, and exactly when they do not |
| `claims` | `TypeOK`, `TokenRevoked`, `RecordedIsApplied`, `DriftTruthful`, `Settles` | what the annotations of a claim say is true of its VM, and in the end up to date unless the VM is stuck in its first pool |
| `scheduler` | `TypeOK`, `BusyExplained`, `TrackerTruthful`, `BoundInTheEnd`, `NoSendAfterClose`, `Drains`, `StopTerminates` | VMs that met no error are pinned and tracked once their events are handled; the daemon comes to rest, and stops |
| `static_resync`, `lifecycle_overcommit`, `template_lock` | one each | violated, see [Findings](#findings) |

Bounds.

- `simple`: three VMs, four CPUs of which one is reserved and one outside the
  topology, two sizes; three VMs are the fewest with two overlapping affinities
  and a counted VM, and memory 4 is reached exactly and exceeded by one.
- `static`: two NUMA nodes of two CPUs with uneven memory, so that VMs fit on one,
  on both or on none, and short grants switched on.
- `assignment`: nodes with up to eight CPUs, so that all 256 sets of free CPUs and
  all requests can be tried: SMT on and off, one and two sockets, NUMA nodes above,
  equal to and below sockets, caches within and across NUMA nodes; and a twelve core
  EPYC 7272 without SMT with all 4096 sets and all requests, the smallest node the
  provider guesses on which a cache is counted twice.
- `ipam`: a host subnet with one address left after bridge and gateway, a second
  subnet without host, three VMs, up to three pools and one restart; two creates
  race for a pool while a third VM is deleted, and the host subnet runs full.
- `lifecycle`: two claims and two IDs, which is enough for two creates that pick
  the same ID and for a reused ID, with one fault (failed list or restart) on top
  of any number of failed clones, starts and clean-ups.
- `placement`: two regions with a zone of the same name, three nodes, two types,
  one claim for any zone with balanced placement and one for a named zone; each
  node has room for one large or two small VMs, so the claims compete.  In other
  behaviours a single claim excludes a zone and names a region.
  `MaxEvents` is 1: a node that fails or comes back, a request or a scan that
  fails, or a deletion.  The scans and the offerings themselves are not bounded.
- `templates`: two classes that share a zone and an image, the second zone used by
  one of them; the zones share their import storage; three IDs; the user edits or
  deletes one class (`Touched`).  `MaxTroubles` is 1: one edit, failing request, failing
  scan or restart on top of everything the controllers do; one failing scan is enough
  for every exception that the properties name, and 2.4 million states are what the
  run can afford.  An edit changes the image or the options that are updated in place;
  one that only needs a new template would take the same path as a new image that comes
  before the first status (`DeleteOutdated`).  With two import storages (`template_lock`) one class suffices to reach
  the violation.
- `claims`: one claim, since claims share nothing but the class and the templates;
  two zones and two template IDs, three specifications with two pools, two attempts at a
  VM; `MaxEvents` is 3 template changes, edits, foreign writes and failing requests
  together, enough for a template that is removed and comes back under another ID
  around a launch.
- `scheduler`: two VMs that may share a CPU, a queue of one event, one retry;
  `MaxWrites` 2 PID files (one of them before the signal, `SignalWrites`), one timer event, one unreadable
  file or failing request to the host.  A queue of one makes every sender wait; more
  retries repeat the same step.

VMs are interchangeable in `simple`, `static` and `ipam`, which use symmetry; the
runs with liveness do not.

Deadlock is checked in `simple`, `static`, `lifecycle` and `placement`.  In NodeIpam
every VM has one life, in CPUAssignment a call returns, the daemon stops, and
controllers with nothing to do are at rest, so the other models may end;
`Settles`, `Drains` and `StopTerminates` say in which states.

Fairness.

- `lifecycle`: weak fairness of the rebuild only (the controller requeues itself
  every scan period, and the rebuild holds its lock to the end); nothing is
  assumed of creates and deletes, `SyncRepairs` speaks of the case that they come
  to rest.
- `placement`: weak fairness of the scans and of the offerings, which their
  controllers requeue, and strong fairness of each claim's `Create`: Karpenter
  calls it again, and a reader that waits on `sync.RWMutex` gets the lock when the
  writer is done.
- `templates`: none; Deletes may deadlock or fail for ever (see below), so no progress
  is claimed.
- `claims`: weak fairness of both claim controllers, queued again after errors,
  conflicts and changes.
- `scheduler`: weak fairness of each goroutine; none of signals, timers and VMs.

Each property has a mutant in `PROJECT.json`: a definition changed as a plausible
slip in that code would change it, under which TLC finds the property violated.

## Findings

- `static_resync` (`policy_static.go:192,240`): a VM placed on two NUMA nodes is bound
  to its whole memory on each; the rebuild refuses it because the sum differs,
  and the running VM is not counted (`docs/noderesource.md:9`).
- `lifecycle_overcommit` (`cloudcapacity.go:222`): a rebuild that lists VMs between a
  reservation and the start of its VM drops the reservation
  (`docs/noderesource.md:16`).
- `template_lock` (`instancetemplate.go:234`): `Delete` takes the lock of a zone once
  for each import storage of the zone and unlocks when it returns; with two such
  storages, which `docs/nodetemplateclass.md:33` invites, it waits for itself.

## Known behaviours that no run states

The models show these too.  Where a document says otherwise it is named; the runs
are kept for the three above, whose effects last longest.

- `policy_simple.go:186`: releasing a VM frees all CPUs of its affinity, also those
  that another VM is pinned to; `docs/noderesource.md:13` says they are merged.  The
  next rebuild corrects it.
- `instance.go:213`: Karpenter repeats `Delete` until it reports "not found"; with a
  VM ID that was reused meanwhile the repetition deletes the VM of another claim
  (history variable `alien` of InstanceLifecycle; `cloudprovider.go:153-155` states
  the protocol).
- `nodeipam.go:157`: after a restart, events of nodes in a subnet without pool are
  dropped, the pool is made empty later, and the address of a running node may be
  handed out (`docs/ipam.md:12`).
- `cpu_assignment.go:125,559`: for an EPYC 7272 with SMT off the provider guesses four
  NUMA nodes of three cores and three caches of four, so the middle cache belongs to two
  NUMA nodes, is listed twice and taken twice: a request for eight CPUs returns four as
  a success, where line 728 says "returns a CPUSet containing numCPUs CPUs".
  `TakesWhatWasAsked` excepts exactly the requests that such a cache fits into twice.
- `instancetemplate/utils.go:348`: an in-place update writes the hash of the whole
  new specification to a template that was built from the old one.
- `instance.go:95,106`: `Create` never reads the region requirement of a claim, although
  `README.md:144` lists the label, and takes the values of a `NotIn` requirement for the
  zones that are asked for: such a VM is made in a zone that the claim excludes.
- `instance.go:322-359`: `Create` puts a VM in the pool of its class
  (`instance_utils.go:113`) and does not note it on the claim.  When the class names
  another pool the VM is not taken out of the first, Proxmox refuses to add it to the
  second, and every retry fails the same way (`PoolStuck`, excepted in `Settles`).
- `drift.go:90-98`, `instance.go:118-123`: a template that was replaced under another ID is
  seen neither by drift nor by `Create` until nodeclass.status has selected the ID.
- `instance_cloudinit.go:209`: tokens of failed attempts are never deleted and only
  expire; `TokenRevoked` is about the token on record.
- `instancetemplate.go:312-407,168`: `SyncInstanceTemplates` logs a cluster that it cannot
  list and a template that it cannot read, and returns nil.  A Create that goes by such a
  list makes a second template in the zone; a Delete takes a template that is missing
  from the list for deleted and removes the finalizer, and the template stays.  It also
  stays when the user deletes the class before status has recorded it.
- `instancetemplate.go:219-253`: when `deleteImage` fails after `deleteTemplate`, `Delete`
  returns before its scan; the retry finds the template in the old list but not in
  Proxmox, and fails as well.  With one managed class and no unmanaged one nothing else
  scans, and the class stays in deletion until the operator restarts.
- `cloudcapacity.go:309`, `instancetemplate.go:156,234`: zones that share an import storage
  share its images, and the locks are those of the zones: a Delete in one zone removes
  the image that a Create in another has downloaded and is about to import.  The Create
  fails and is repeated.
- `instancetemplate.go:219`, `instancetemplate/utils.go:231-259`: `deleteTemplate` goes by zone and ID.  When
  a status names an ID that another class has used since, its Delete removes the template
  of that class.
- `instancetemplate.go:234`: the zones of a storage come in the order of a Go map
  (`cloudcapacity.go:321-328`), so two classes may record theirs in opposite orders; when
  both are deleted, each Delete holds its first zone and waits for the other's.
  `NoWaitingCreateInTheWay` says that nothing but such Deletes can wait for ever.
- Scheduler: a VM whose threads existed in part when its start was handled stays
  pinned in part; an error of taskset, of the interrupts or of the governor is logged and
  not tried again (`vm.go:82-121`); a VM that ran before the daemon is tracked but not
  pinned (`missed`).  A sync that finds a VM gone does not reset the governor of its CPUs,
  nor does a stop whose request fails (`vm.go:163-168`) or whose flag is empty (`leaked`).

## Proofs

TLAPS checks these for every value of the constants that satisfies the named
assumptions: any number of CPUs, VMs, claims, IDs, zones and subnets, any sizes,
any number of failures and restarts.  34 theorems are listed in `PROJECT.json`; they state
28 of the 31 invariants that the runs check, both action properties, and both
refinements.  Each inductive invariant was checked by TLC on the instance of the run
before it was proved.

**Totals of bookings.**  The policies keep counters and no table, so proofs about them
need "the counter is the sum of the bookings".  A sum computed by recursion is out of
the prover's reach; `IsTotal` of the module Bookings counts units instead: a booking of
*n* is a set of *n* units of its own, and the total is the cardinality of their union.
The lemmas at the head of SimpleNodeProofs, StaticNodeProofs and
InstanceLifecycleProofs say how a total changes when an entry is added or taken out,
and that no entry exceeds it.  `TotalIsSum` closes the circle: for a finite table the
total is the sum that TLC computes (a smallest set on which the two differ has an
element, and without it they agree).

**SimpleNodeProofs.**  The inductive invariant adds to `TypeOK` that booked memory is
within the node's, that the two CPU sets are disjoint, and that together they cover
the topology's unreserved CPUs: `TypeCorrect`, `MemorySafe`, `PoolsSafe`, `FitSafe` and the
action property `AllocateSafe`.  `FitImpliesAllocate` needs all of it: what
`AvailableCPUs` computes from cardinalities of the topology is at most what `Allocate`
reads off the common pool because |AllCPUs \ Reserved| <= |available| + |used|, also
when affinities bring in CPUs from outside the topology.  `CountersAreTotals` joins
the two counters to the table; from it follow `LedgerImplemented` (every step of the
node is a step of the ledger; a release is never refused, because the total is at
least each of its entries) and `PinsExplained`.

**StaticNodeProofs.**  `TypeCorrect`: the free memory of a NUMA node never wraps.  The
charge of a placed VM fits each NUMA node it touches because a CPU belongs to one NUMA
node (`TopologyAssumption`; `topology.go:328-340` puts each CPU into one) and
candidates are nodes with enough memory.  `NUMAAccountExact` has one total per NUMA node;
`LedgerImplemented` as above.  `ExclusiveSafe` states `PlacedExclusive`, which is about
nodes whose owners pin no VM to CPUs in use (`~AffinityOverlap`); its invariant is
that the CPUs of every VM are in `usedCPUs` and that no two VMs share one.

**InstanceLifecycleProofs.**  `TypeCorrect` and `Ownership` have an invariant of four
parts: `TypeOK`, `OwnsItsVM`, a claim past `GetNextID` has an ID, and `read` names a claim
between the deletion of a VM and the release of its capacity.  Ownership rests on
`CloneVM` failing for an ID that exists and on `newID` being 0 afterwards.
`CapacityAccounted` needs `EInv`: where the VM of a claim is in each phase (`Located`), that
a rebuild that began while no create was under way counts the VMs it has passed and
the ones deleted since, unless it will meet a VM that is gone (`RebuildExact`), and
that the capacity in use is exact (`BookedExact`), each unless `drift` or `alien` says
otherwise.

**NodeIpamProofs.**  `TypeCorrect`, `AddressesUnique`, `BitsAccounted`, for subnets of
any size that are equal or disjoint (`SubnetsDisjoint`, a premise of the properties
themselves).  Uniqueness is not inductive: a VM's address must be marked in the pool
that *serves* it, the first of the list that contains it, so `Served` follows that
pool through the unlocked append, and `Listed`, `Foreign` and `Starting` say which
pools the list and every copy of it must have.  `HostBits` and `HostsApart` do the
same for the addresses of bridges, `Explained` gives every bit a reason.  Arithmetic
lemmas show that bits and addresses of a subnet correspond one to one.

**InstanceTemplateProofs.**  `TypeCorrect`, `OneTemplate`, `ImageKept`,
`CreatesAtWork`, `CleanUpSpares`, `OrphansNone`, with scans that fail at any time,
zones in any order and any sharing of storages.  `Shapes` says what a reconcile has at
hand in each stage; `Locking` that the holder of a zone lock is in a stage that holds
it, a Create only in the zone it is at, and that the image under import exists unless
it was removed through another zone; `Lookups` what `createTemplate` may rely on after
it has looked under the lock: it has found all templates of the class in the zone
unless it was misled, and the identifier it is about to use is that of nobody else in
the zone; `Tracing` follows each template of a class that no scan has left out from
`CreateVM` through cache and status (`Known`, `Current`, `Traced`) to the removal of
the finalizer.  `CreatesAtWork` is what is left of the freedom from deadlock, which
the code does not have: see `template_lock` and the known behaviours.

**NodeClaimsProofs.**  `TypeCorrect`, `TokensRevoked`, `UpdatesRecorded`, `DriftTrue`.
The invariant is a conjunction over the claims, and a step of one claim leaves the
others alone.  Its parts: launch precedes the claim controllers, which notice when
their copy is stale (`Ordered`); the token on record is gone before the mark is set
(`TokenGone`); what an update has applied at each stage (`Applied`); which
specification and template a VM was built from (`Built`; images are compared by age,
since IDs are used again).

**PlacementProofs.**  `PlacementAllowed`.  A VM is placed at the end of a walk through
types, regions and zones; `Walks` says of each stage that the types left are large
enough, the regions are those of the class, and each queued zone is one that the class
selected in the region at hand and that the requirement, as `Create` reads it, names.
`Refreshing` is the same for the offerings a walk copies.

**SchedulerProofs.**  `TypeCorrect`, `BusyAccounted`, `TrackerTrue`, `BoundAtRest` and
the action property `ClosedForGood`.  All but the first and the last are about a VM
whose events are handled, which says nothing of the states before; the invariant
therefore follows the events.  `Latest` is the last event of a VM on its way from the
watcher through the channel to the list of retries, where a newer event replaces an
older one.  As long as the daemon runs it agrees with the PID file (`Announced`), and
a VM without such an event is tracked and bound as it should be (`Settled`;
`Handled`).  A handler that fails either leaves its event in the list, unless a newer
one is there, or gives up and marks the VM as `missed`; a start that succeeds in part
marks it as well.  `Accounted` and `BoundFor` say what handlers have done to the CPUs,
`Closing` that the channel is closed after the last goroutine has returned.

Assumptions on constants, next to their declarations: host CPUs, claims, IDs,
locations and types are finite; sizes and memory are positive; the values that stand
for "nothing" (`None`, `NoVM`, ...) are none of the real ones; the hash of a
specification is not empty; types have different prices, natural numbers, as the
sort by price needs (Placement); the selected locations of a class are pairs of a
region and a zone.  TLC evaluates all of them on the instances of the runs.

Only model-checked:

- liveness: `SyncRepairs`, `EventuallyPlaced`, `Settles`, `Drains`, `StopTerminates`;
- CPUAssignment (`TakesWhatWasAsked`, `OneSplitCore`, `OneCacheWhenItFits`): what folds over
  sequences compute is induction over data.

## Not modelled

Parsing and formatting (options, configuration, node settings, cloud-init text),
API types and generated code, IPv6 (SLAAC computes addresses without state),
`ReleaseCIDR`, `ReleaseNodeIPs` and `DeleteExpiredTokens` (no caller),
`takeByTopologyNUMADistributed` and the spread order (no way to switch them on),
the storage scan (it fills a table that is only read), the arguments of the
requests to Proxmox, the choice of one zone for a shared template storage (the first of
a list in the order of a map, `instancetemplate.go:151`; `ZonesOf` is fixed here), and the
command that generates instance types.  Nested subnets
are excluded by `SubnetsDisjoint`.

## Plan

1. Done: the modules above, and proofs about all of them but CPUAssignment.
2. Left: the operators of CPUAssignment that are no folds; regions as part of a zone in
   InstanceTemplate.
