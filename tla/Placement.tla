------------------------------ MODULE Placement ------------------------------
(***************************************************************************)
(* Where a claim is placed: what the cloud capacity provider knows of the  *)
(* nodes (SyncNodeCapacity, UpdateNodeLoad), the offerings that are made   *)
(* from it, and the way of CloudProvider.Create and instance.Create        *)
(* through types, regions and zones.                                       *)
(*                                                                         *)
(* Every stage reads its own copy at its own time: the nodes change, the   *)
(* capacity is scanned, offerings are made from the capacity, and Create   *)
(* takes a copy of the offerings.  Capacity is one number per node here;   *)
(* how it is booked is in SimpleNode and InstanceLifecycle.                *)
(***************************************************************************)
EXTENDS Naturals, FiniteSets, Sequences, SequencesExt

CONSTANTS
    Claims,
    Locations,      \* <<region, zone>>: the nodes of all clusters
    Types,          \* [name, size, price]: instance types
    Requests,       \* what the claims may ask for, per claim a record:
                    \*   size, class
                    \*   zoneOp, zones   the zone requirement, In or NotIn zones;
                    \*                   In {} when there is none
                    \*   regions         the region requirement, {} when there is none
    NodeClass,      \* per class: [region, selected, balanced]
    Capacity,       \* what an empty node offers
    None,
    MaxEvents       \* bound: changes of nodes and failing requests

ASSUME PlacementAssumption ==
    /\ IsFiniteSet(Locations) /\ IsFiniteSet(Types) /\ Types # {}
    /\ \A t \in Types : t.price \in Nat
    /\ \A t, u \in Types : t.price = u.price => t = u
    /\ \A r \in Requests : \A c \in Claims :
           /\ r[c].zoneOp \in {"In", "NotIn"}
           /\ \A l \in NodeClass[r[c].class].selected : l = <<l[1], l[2]>>
    /\ Capacity \in Nat /\ MaxEvents \in Nat

VARIABLES
    request,    \* per claim: its requirements, which never change
    host,       \* per location: the node as it is, [online, load, free]
    info,       \* per location: capacityInfo, [load, free] or None
    zoneList,   \* locations in zoneList
    known,      \* regions in zoneList
    offers,     \* offerings that are available, <<type, location>>
    refresh,    \* UpdateInstanceTypeOfferings under way
    create,     \* per claim: CloudProvider.Create under way
    vm,         \* per claim: [type, location] or None
    events      \* events so far, for the bound

vars == <<request, host, info, zoneList, known, offers, refresh, create, vm, events>>

RegionOf(l) == l[1]
ZoneOf(l) == l[2]
AllRegions == {RegionOf(l) : l \in Locations}

Events(n) == events + n <= MaxEvents /\ events' = events + n
Event == Events(1)
NoEvent == UNCHANGED events

-------------------------------------------------------------------------------
(* External: the nodes.                                                    *)

\* A node goes down or comes back, or its load changes.
NodeChanges(l) ==
    /\ Event
    /\ \/ host' = [host EXCEPT ![l].online = ~@]
       \/ host' = [host EXCEPT ![l].load = 1 - @]
    /\ UNCHANGED <<request, info, zoneList, known, offers, refresh, create, vm>>

-------------------------------------------------------------------------------
(* The cloud capacity provider, its two controllers and their scans.       *)

\* SyncNodeCapacity holds the lock from the first request to the swap.  A
\* region that cannot be listed is left out; a node that cannot be read stays
\* in the zone list and has no capacity.
SyncNodeCapacity(regions, unread) ==
    LET listed == {l \in Locations : RegionOf(l) \in regions /\ host[l].online} IN
    /\ Events(Cardinality(AllRegions \ regions) + Cardinality(unread))
    /\ unread \subseteq listed
    /\ known' = regions
    /\ zoneList' = listed
    /\ info' = [l \in Locations |->
                  IF l \in listed \ unread
                  THEN [load |-> host[l].load, free |-> host[l].free] ELSE None]
    /\ UNCHANGED <<request, host, offers, refresh, create, vm>>

\* Only the nodes that have a capacity are updated, in the regions that answer.
UpdateNodeLoad(regions) ==
    /\ regions \subseteq known
    /\ info' = [l \in Locations |->
                  IF RegionOf(l) \in regions /\ host[l].online /\ info[l] # None
                  THEN [info[l] EXCEPT !.load = host[l].load] ELSE info[l]]
    /\ UNCHANGED <<request, host, zoneList, known, offers, refresh, create, vm, events>>

\* Mutant: a request that takes all that is left does not fit.
FitInZoneStrictly(l, size) == info[l] # None /\ size < info[l].free

FitInZone(l, size) == info[l] # None /\ size <= info[l].free

GetAvailableZonesInRegion(region, size) ==
    {ZoneOf(l) : l \in {k \in Locations : RegionOf(k) = region /\ FitInZone(k, size)}}

-------------------------------------------------------------------------------
(* Offerings.  UpdateInstanceTypeOfferings holds the lock of the types and   *)
(* takes that of the capacity again and again.                               *)

NoRefresh == [types |-> {}, type |-> None, regions |-> {}, made |-> {}]
TypesLocked == refresh # NoRefresh

Cheapest(types) == CHOOSE t \in types : \A u \in types : t.price <= u.price

\* The lock is released after the last region of the last type.
Refreshed(r) ==
    IF r.types = {} /\ r.regions = {}
    THEN offers' = r.made /\ refresh' = NoRefresh
    ELSE refresh' = r /\ UNCHANGED offers

\* The regions are read once for each type, the first type takes the lock.
UpdateOfferingsOfType ==
    LET types == IF TypesLocked THEN refresh.types ELSE Types
        t == Cheapest(types)
    IN
    /\ refresh.regions = {}
    /\ Refreshed([refresh EXCEPT !.types = types \ {t}, !.type = t, !.regions = known])
    /\ UNCHANGED <<request, host, info, zoneList, known, create, vm, events>>

\* createOfferings: the zones of the next region that have room.
CreateOfferings(region) ==
    LET fits == {l \in zoneList :
                    RegionOf(l) = region /\ FitInZone(l, refresh.type.size)}
    IN
    /\ region \in refresh.regions
    /\ Refreshed([refresh EXCEPT !.regions = @ \ {region},
                                 !.made = @ \cup ({refresh.type} \X fits)])
    /\ UNCHANGED <<request, host, info, zoneList, known, create, vm, events>>

-------------------------------------------------------------------------------
(* Create.                                                                   *)

Idle == [types |-> {}, offers |-> {}, type |-> None, regions |-> {},
         region |-> None, zones |-> <<>>]
Class(c) == NodeClass[request[c].class]

GetZones(c, region) ==
    {ZoneOf(l) : l \in {k \in Class(c).selected : RegionOf(k) = region}}

\* The zone and the region satisfy the requirements of the claim.
Compatible(c, l) ==
    /\ IF request[c].zoneOp = "In"
       THEN request[c].zones # {} => ZoneOf(l) \in request[c].zones
       ELSE ZoneOf(l) \notin request[c].zones
    /\ request[c].regions # {} => RegionOf(l) \in request[c].regions

\* Types that are large enough and have a compatible offering.
ResolveInstanceTypes(c) ==
    {t \in Types : /\ request[c].size <= t.size
                   /\ \E l \in Locations : <<t, l>> \in offers /\ Compatible(c, l)}

\* The offerings of types, as List copied them.
OffersOf(copy, types) == {o \in copy : o[1] \in types}

\* Without a type Create fails, and the core tries again.
CreateBegin(c) ==
    LET types == ResolveInstanceTypes(c) IN
    /\ create[c] = Idle /\ vm[c] = None /\ ~TypesLocked
    /\ types # {}
    /\ create' = [create EXCEPT ![c] =
           [types |-> types, offers |-> OffersOf(offers, types),
            type |-> None, regions |-> {}, region |-> None, zones |-> <<>>]]
    /\ UNCHANGED <<request, host, info, zoneList, known, offers, refresh, vm, events>>

Creating(c) == create[c] # Idle

\* getValuesByKey: regions of the offerings of the type, if it is known now.
RegionsOfType(c, t) ==
    {RegionOf(l) : l \in {k \in Locations : <<t, k>> \in create[c].offers
                                            /\ (known # {} => RegionOf(k) \in known)}}

PickType(c) ==
    LET t == Cheapest(create[c].types) IN
    /\ create[c].regions = {} /\ create[c].zones = <<>> /\ create[c].types # {}
    /\ create' = [create EXCEPT ![c].types = @ \ {t}, ![c].type = t,
           ![c].offers = OffersOf(@, create[c].types), ![c].region = None,
           ![c].regions = IF Class(c).region # None THEN {Class(c).region}
                          ELSE RegionsOfType(c, t)]
    /\ UNCHANGED <<request, host, info, zoneList, known, offers, refresh, vm, events>>

\* getValuesByKey: zones of the offerings, in whatever region they are; all of
\* them when no zone is asked for and none has room.
ZonesOfType(c, t, zones) ==
    {ZoneOf(l) : l \in {k \in Locations : <<t, k>> \in create[c].offers
                                          /\ (zones # {} => ZoneOf(k) \in zones)}}

\* Mutant: zones that the class has not selected are not left out.
CandidateZonesOfAll(c, region) ==
    LET t == create[c].type
        asked == IF request[c].zones # {} THEN request[c].zones
                 ELSE GetAvailableZonesInRegion(region, t.size)
    IN  {z \in ZonesOfType(c, t, asked) : <<region, z>> \in Locations}

\* The values of the zone requirement are taken as the zones asked for, with
\* NotIn as well; the region requirement is not looked at.
CandidateZones(c, region) ==
    LET t == create[c].type
        asked == IF request[c].zones # {} THEN request[c].zones
                 ELSE GetAvailableZonesInRegion(region, t.size)
    IN  ZonesOfType(c, t, asked) \cap GetZones(c, region)

Load(region, z) ==
    IF info[<<region, z>>] = None THEN 0 ELSE info[<<region, z>>].load

\* SortZonesByCPULoad, for two zones or more: those that are still listed, by
\* load; a node that could not be read counts as idle.
SortZonesByCPULoad(region, zones) ==
    {s \in SetToAllKPermutations({z \in zones : <<region, z>> \in zoneList}) :
        /\ Len(s) = Cardinality({z \in zones : <<region, z>> \in zoneList})
        /\ \A i, j \in DOMAIN s : i < j => Load(region, s[i]) <= Load(region, s[j])}

Orders(c, region, zones) ==
    IF Cardinality(zones) > 1 /\ Class(c).balanced
    THEN SortZonesByCPULoad(region, zones)
    ELSE {s \in SetToAllKPermutations(zones) : Len(s) = Cardinality(zones)}

\* The copied offerings that no later region or type reads are forgotten.
PickRegion(c, region) ==
    /\ region \in create[c].regions /\ create[c].zones = <<>>
    /\ \E s \in Orders(c, region, CandidateZones(c, region)) :
           create' = [create EXCEPT ![c].region = region, ![c].zones = s,
               ![c].regions = @ \ {region},
               ![c].offers = OffersOf(@, create[c].types \cup
                   IF create[c].regions = {region} THEN {} ELSE {create[c].type})]
    /\ UNCHANGED <<request, host, info, zoneList, known, offers, refresh, vm, events>>

\* instanceCreate in the next zone: the capacity is booked and the VM started.
InstanceCreate(c) ==
    LET l == <<create[c].region, Head(create[c].zones)>>
        t == create[c].type
    IN
    /\ create[c].zones # <<>>
    /\ FitInZone(l, t.size) /\ host[l].online
    /\ info' = [info EXCEPT ![l].free = @ - t.size]
    /\ host' = [host EXCEPT ![l].free = @ - t.size]
    /\ vm' = [vm EXCEPT ![c] = [type |-> t, location |-> l]]
    /\ create' = [create EXCEPT ![c] = Idle]
    /\ UNCHANGED <<request, zoneList, known, offers, refresh, events>>

\* The node has no capacity or no room, is down, or a request fails.
InstanceCreateFails(c) ==
    LET l == <<create[c].region, Head(create[c].zones)>> IN
    /\ create[c].zones # <<>>
    /\ \/ (~FitInZone(l, create[c].type.size) \/ ~host[l].online) /\ NoEvent
       \/ Event
    /\ create' = [create EXCEPT ![c].zones = Tail(@)]
    /\ UNCHANGED <<request, host, info, zoneList, known, offers, refresh, vm>>

\* No type is left: Create returns its errors.
CreateFails(c) ==
    /\ Creating(c)
    /\ create[c].types = {} /\ create[c].regions = {} /\ create[c].zones = <<>>
    /\ create' = [create EXCEPT ![c] = Idle]
    /\ UNCHANGED <<request, host, info, zoneList, known, offers, refresh, vm, events>>

\* The VM is deleted and its capacity released, if the node is known.
Delete(c) ==
    LET l == vm[c].location IN
    /\ vm[c] # None /\ Event
    /\ vm' = [vm EXCEPT ![c] = None]
    /\ host' = [host EXCEPT ![l].free = @ + vm[c].type.size]
    /\ info' = IF info[l] = None THEN info
               ELSE [info EXCEPT ![l].free = @ + vm[c].type.size]
    /\ UNCHANGED <<request, zoneList, known, offers, refresh, create>>

-------------------------------------------------------------------------------

Init ==
    /\ request \in Requests
    /\ host = [l \in Locations |-> [online |-> TRUE, load |-> 0, free |-> Capacity]]
    /\ info = [l \in Locations |-> None]
    /\ zoneList = {} /\ known = {} /\ offers = {}
    /\ refresh = NoRefresh
    /\ create = [c \in Claims |-> Idle]
    /\ vm = [c \in Claims |-> None]
    /\ events = 0

UpdateInstanceTypeOfferings ==
    \/ UpdateOfferingsOfType
    \/ \E region \in AllRegions : CreateOfferings(region)

Create(c) ==
    \/ CreateBegin(c) \/ PickType(c)
    \/ \E region \in AllRegions : PickRegion(c, region)
    \/ InstanceCreate(c) \/ InstanceCreateFails(c) \/ CreateFails(c)

Sync == \E regions \in SUBSET AllRegions, unread \in SUBSET Locations :
            SyncNodeCapacity(regions, unread)

Next ==
    \/ \E l \in Locations : NodeChanges(l)
    \/ Sync \/ UpdateInstanceTypeOfferings
    \/ \E regions \in SUBSET AllRegions : UpdateNodeLoad(regions)
    \/ \E c \in Claims : Create(c) \/ Delete(c)

Spec == Init /\ [][Next]_vars

\* The two capacity controllers come back every scan period, and the core calls
\* Create again for a claim that it could not launch.  A reader that waits for
\* the lock of the types gets it when the writer is done (sync.RWMutex).
Fairness ==
    /\ WF_vars(Sync) /\ WF_vars(UpdateInstanceTypeOfferings)
    /\ \A c \in Claims : SF_vars(Create(c))

FairSpec == Spec /\ Fairness

-------------------------------------------------------------------------------
(* Properties.                                                             *)

\* Requirements that Create reads as they are meant.
ReadInFull(c) == request[c].zoneOp = "In" /\ request[c].regions = {}

\* A VM is where its class allows it, on a type that is large enough, and in a
\* zone that the requirement names, although Create looks zones up by name in
\* offerings of all regions and takes all of them when the capacity provider
\* names none.  This is what the claim allows if it has no region requirement
\* and its zone requirement, if any, is In.  A zone requirement NotIn is
\* misread, the VM is in one of the zones it excludes, and a region requirement
\* decides which types are tried and not where the VM goes.
PlacedWhereAllowed ==
    \A c \in Claims : vm[c] # None =>
        LET l == vm[c].location IN
        /\ l \in Class(c).selected
        /\ Class(c).region # None => RegionOf(l) = Class(c).region
        /\ request[c].size <= vm[c].type.size
        /\ request[c].zones # {} => ZoneOf(l) \in request[c].zones
        /\ ReadInFull(c) => Compatible(c, l)

\* There is room for the claim on a node that it may use.
HasRoom(c) ==
    \E l \in Class(c).selected, t \in Types :
        /\ host[l].online /\ request[c].size <= t.size /\ t.size <= host[l].free
        /\ Compatible(c, l)
        /\ Class(c).region # None => RegionOf(l) = Class(c).region

\* A claim whose requirements are read in full does not wait for ever while
\* there is room for it: scans that fail, offerings made while the capacity is
\* swapped, and types or zones that turn out to be full delay it, but do not
\* hide the room for good.
EventuallyPlaced ==
    \A c \in Claims : []<>(ReadInFull(c) => vm[c] # None \/ ~HasRoom(c))

===============================================================================
