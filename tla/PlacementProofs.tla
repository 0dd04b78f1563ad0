--------------------------- MODULE PlacementProofs ---------------------------
(***************************************************************************)
(* Where Create may place a VM, for any number of claims, locations, types *)
(* and events.                                                             *)
(*                                                                         *)
(* PlacedWhereAllowed is about VMs, and a VM is placed at the end of a     *)
(* walk through types, regions and zones.  The invariant says what is true *)
(* of every stage of that walk: the types still to be tried are large      *)
(* enough, the regions are those of the class, and every zone in the queue *)
(* is one that the class selects in the region at hand and that the zone   *)
(* requirement of the claim names, as Create reads it.                     *)
(***************************************************************************)
EXTENDS Placement, FiniteSetTheorems, NaturalsInduction,
        SequenceTheorems, TLAPS

-------------------------------------------------------------------------------
(* The inductive invariant.                                                *)

Zones == {ZoneOf(l) : l \in Locations}
ClassRegions(r) == {NodeClass[r[c].class].region : c \in Claims}
Regions == AllRegions \cup (UNION {ClassRegions(r) : r \in Requests})

CreateState ==
    [types : SUBSET Types, offers : SUBSET (Types \X Locations),
     type : Types \cup {None}, regions : SUBSET Regions,
     region : Regions \cup {None}, zones : Seq(Zones)]

RefreshState ==
    [types : SUBSET Types, type : Types \cup {None}, regions : SUBSET AllRegions,
     made : SUBSET (Types \X Locations)]

Shapes ==
    /\ create \in [Claims -> CreateState]
    /\ DOMAIN vm = Claims
    /\ request \in Requests
    /\ offers \subseteq Types \X Locations

LargeEnough(c, t) == request[c].size <= t.size

OfClass(c, region) == Class(c).region # None => region = Class(c).region

\* The class allows a VM in the zone of the region, and the zone requirement of
\* the claim, as Create reads it, names the zone.
Allowed(c, region, z) ==
    /\ <<region, z>> \in Class(c).selected
    /\ request[c].zones = {} \/ z \in request[c].zones
    /\ OfClass(c, region)

\* A stage w of the walk of claim c.
WalkOK(c, w) ==
    /\ \A t \in w.types : LargeEnough(c, t)
    /\ w.regions # {} \/ w.zones # <<>> => LargeEnough(c, w.type)
    /\ \A region \in w.regions : OfClass(c, region)
    /\ \A i \in 1..Len(w.zones) : Allowed(c, w.region, w.zones[i])

Walks == \A c \in Claims : WalkOK(c, create[c])

\* The offerings that a refresh has made so far.  It is over when no type and
\* no region is left.
Refreshing ==
    /\ refresh \in RefreshState
    /\ refresh.regions # {} => refresh.type \in Types
    /\ TypesLocked => refresh.types # {} \/ refresh.regions # {}
    /\ zoneList \subseteq Locations /\ known \subseteq AllRegions

IInv == Shapes /\ Walks /\ Refreshing /\ PlacedWhereAllowed

-------------------------------------------------------------------------------
(* The operators that choose a type and order the zones.                   *)

\* The cheapest of a set of types is one of them.
LEMMA CheapestIsOne ==
    ASSUME NEW types \in SUBSET Types, types # {}
    PROVE  Cheapest(types) \in types
<1> DEFINE prices == {t.price : t \in types}
           R == {ss \in Nat \X Nat : ss[1] < ss[2]}
<1>1. prices \subseteq Nat /\ prices # {}
  BY PlacementAssumption
<1>2. IsWellFoundedOn(R, Nat)
  BY NatLessThanWellFounded, Zenon DEF OpToRel
<1>3. PICK m \in prices : \A n \in prices : ~(<<n, m>> \in R)
  <2> HIDE DEF R, prices
  <2> QED BY <1>1, <1>2, WFMin
<1>4. ASSUME NEW n \in prices PROVE m <= n
  <2>1. m \in Nat /\ n \in Nat /\ <<n, m>> \notin R
    BY <1>1, <1>3
  <2> QED BY <2>1
<1>5. \E t \in types : \A u \in types : t.price <= u.price
  BY <1>4
<1> QED BY <1>5 DEF Cheapest

\* The permutations of a finite set are sequences of its elements.
LEMMA PermutationsOf ==
    ASSUME NEW S, IsFiniteSet(S), NEW s \in SetToAllKPermutations(S)
    PROVE  s \in Seq(S)
<1>1. PICK T \in SUBSET S : s \in SetToSeqs(T)
  BY DEF SetToAllKPermutations
<1>2. IsFiniteSet(T)
  BY FS_Subset
<1>3. Cardinality(T) \in Nat
  BY <1>2, FS_CardinalityType
<1>4. s \in [1..Cardinality(T) -> T]
  BY <1>1 DEF SetToSeqs
<1> QED BY <1>3, <1>4

\* There are as many zones as locations at most.
LEMMA ZonesFinite == IsFiniteSet(Zones)
<1> DEFINE f == [l \in Locations |-> ZoneOf(l)]
<1>1. f \in Surjection(Locations, Zones)
  BY DEF Surjection, Zones
<1> QED BY <1>1, FS_Surjection, PlacementAssumption

\* The zones that Create tries are candidates, sorted by load or not.
LEMMA OrdersOf ==
    ASSUME NEW c, NEW region, NEW zones \in SUBSET Zones,
           NEW s \in Orders(c, region, zones)
    PROVE  s \in Seq(zones)
<1> DEFINE listed == {z \in zones : <<region, z>> \in zoneList}
<1>1. IsFiniteSet(zones) /\ IsFiniteSet(listed)
  BY ZonesFinite, FS_Subset
<1>2. s \in SetToAllKPermutations(listed) \/ s \in SetToAllKPermutations(zones)
  BY DEF Orders, SortZonesByCPULoad
<1>3. s \in Seq(listed) \/ s \in Seq(zones)
  BY <1>1, <1>2, PermutationsOf
<1> QED BY <1>3, SeqMonotonic

\* A candidate is a zone of the region that the claim and the class allow,
\* whatever the regions are that the offerings were made for.
LEMMA CandidatesAllowed ==
    ASSUME request \in Requests, NEW c \in Claims, NEW region, OfClass(c, region),
           NEW z \in CandidateZones(c, region)
    PROVE  z \in Zones /\ Allowed(c, region, z)
<1>1. z \in GetZones(c, region)
  BY DEF CandidateZones
<1>2. PICK k \in Class(c).selected : RegionOf(k) = region /\ z = ZoneOf(k)
  BY <1>1 DEF GetZones
<1>3. k = <<k[1], k[2]>>
  BY <1>2, PlacementAssumption DEF Class
<1>4. <<region, z>> \in Class(c).selected
  BY <1>2, <1>3 DEF RegionOf, ZoneOf
<1> DEFINE asked == IF request[c].zones # {} THEN request[c].zones
                    ELSE GetAvailableZonesInRegion(region, create[c].type.size)
<1>5. z \in ZonesOfType(c, create[c].type, asked)
  BY DEF CandidateZones
<1>6. z \in Zones /\ (asked # {} => z \in asked)
  BY <1>5 DEF ZonesOfType, Zones
<1> QED BY <1>4, <1>6 DEF Allowed

-------------------------------------------------------------------------------
(* The steps of Create.                                                    *)

\* A step of Create for one claim leaves the walks of the others alone.
LEMMA WalkStep ==
    ASSUME Shapes, Walks, NEW c \in Claims, NEW w \in CreateState, WalkOK(c, w),
           create' = [create EXCEPT ![c] = w],
           UNCHANGED <<request, zoneList, known, offers, refresh>>, Refreshing,
           DOMAIN vm' = Claims
    PROVE  Shapes' /\ Walks' /\ Refreshing'
<1>1. Shapes'
  BY DEF Shapes
<1>2. Walks'
  BY DEF Shapes, Walks, WalkOK, LargeEnough, OfClass, Allowed, Class
<1>3. Refreshing'
  BY DEF Refreshing, TypesLocked
<1> QED BY <1>1, <1>2, <1>3

\* No claim is being created: nothing is promised.
LEMMA IdleWalk ==
    ASSUME NEW c
    PROVE  Idle \in CreateState /\ WalkOK(c, Idle)
<1>1. Idle \in CreateState
  BY DEF Idle, CreateState
<1>2. WalkOK(c, Idle)
  BY DEF Idle, WalkOK
<1> QED BY <1>1, <1>2

\* A step that leaves the VMs alone leaves them where they may be.
LEMMA VMsStay ==
    ASSUME PlacedWhereAllowed, UNCHANGED <<request, vm>>
    PROVE  PlacedWhereAllowed'
BY DEF PlacedWhereAllowed, ReadInFull, Compatible, Class

\* The types that Create starts with are large enough for the claim.
LEMMA CreateBeginKeeps ==
    ASSUME IInv, NEW c \in Claims, CreateBegin(c)
    PROVE  IInv'
<1> USE DEF IInv
<1>1. PICK types \in SUBSET Types :
          /\ types = ResolveInstanceTypes(c)
          /\ \A t \in types : LargeEnough(c, t)
  <2>1. ResolveInstanceTypes(c) \in SUBSET Types
    BY DEF ResolveInstanceTypes
  <2>2. \A t \in ResolveInstanceTypes(c) : LargeEnough(c, t)
    BY DEF ResolveInstanceTypes, LargeEnough
  <2> QED BY <2>1, <2>2
<1>2. PICK w : /\ w = [types |-> types, offers |-> OffersOf(offers, types), type |-> None,
                       regions |-> {}, region |-> None, zones |-> <<>>]
               /\ create' = [create EXCEPT ![c] = w]
  BY <1>1 DEF CreateBegin
<1>3. w \in CreateState
  <2>1. OffersOf(offers, types) \in SUBSET (Types \X Locations)
    BY DEF OffersOf, Shapes
  <2>2. <<>> \in Seq(Zones)
    OBVIOUS
  <2> QED BY <1>2, <2>1, <2>2 DEF CreateState
<1>4. WalkOK(c, w)
  BY <1>1, <1>2 DEF WalkOK
<1>5. UNCHANGED <<request, zoneList, known, offers, refresh, vm>>
  BY DEF CreateBegin
<1>6. DOMAIN vm' = Claims
  BY <1>5 DEF Shapes
<1> QED BY <1>2, <1>3, <1>4, <1>5, <1>6, WalkStep, VMsStay

\* The next type comes from the types at hand; its regions are the region of
\* the class, if it has one.
LEMMA PickTypeKeeps ==
    ASSUME IInv, NEW c \in Claims, PickType(c)
    PROVE  IInv'
<1> USE DEF IInv
<1>1. PICK p \in CreateState : p = create[c] /\ WalkOK(c, p)
  BY DEF Shapes, Walks
<1>2. p.regions = {} /\ p.zones = <<>> /\ p.types # {} /\ p.types \in SUBSET Types
  BY <1>1 DEF PickType, CreateState
<1>3. PICK t \in p.types : t = Cheapest(p.types)
  BY <1>2, CheapestIsOne
<1>4. PICK regions \in SUBSET Regions :
          /\ regions = IF Class(c).region # None THEN {Class(c).region}
                       ELSE RegionsOfType(c, t)
          /\ \A region \in regions : OfClass(c, region)
  <2> DEFINE rs == IF Class(c).region # None THEN {Class(c).region}
                   ELSE RegionsOfType(c, t)
  <2>1. RegionsOfType(c, t) \in SUBSET Regions /\ Class(c).region \in Regions
    <3>1. RegionsOfType(c, t) \in SUBSET AllRegions
      BY DEF RegionsOfType, AllRegions
    <3>2. request \in Requests /\ Class(c).region \in ClassRegions(request)
      BY DEF Shapes, Class, ClassRegions
    <3> QED BY <3>1, <3>2 DEF Regions
  <2>2. \A region \in rs : OfClass(c, region)
    BY DEF OfClass
  <2>3. rs \in SUBSET Regions
    BY <2>1
  <2> HIDE DEF rs
  <2>4. PICK regions \in SUBSET Regions : regions = rs
    BY <2>3
  <2> QED BY <2>2, <2>4 DEF rs
<1>5. PICK w : /\ w = [p EXCEPT !.types = p.types \ {t}, !.type = t,
                           !.offers = OffersOf(p.offers, p.types), !.region = None,
                           !.regions = regions]
               /\ create' = [create EXCEPT ![c] = w]
  <2>1. create' = [create EXCEPT ![c] =
            [create[c] EXCEPT !.types = create[c].types \ {t}, !.type = t,
                 !.offers = OffersOf(create[c].offers, create[c].types), !.region = None,
                 !.regions = regions]]
    BY <1>1, <1>3, <1>4 DEF PickType, Shapes
  <2> QED BY <1>1, <2>1, Zenon
<1>6. w \in CreateState
  <2>1. OffersOf(p.offers, p.types) \in SUBSET (Types \X Locations) /\ t \in Types
    BY <1>2, <1>3 DEF OffersOf, CreateState
  <2> QED BY <1>2, <1>5, <2>1 DEF CreateState
<1>7. w.types = p.types \ {t} /\ w.type = t /\ w.regions = regions /\ w.zones = <<>>
  BY <1>2, <1>5 DEF CreateState
<1>8. WalkOK(c, w)
  BY <1>1, <1>3, <1>4, <1>7 DEF WalkOK
<1>9. UNCHANGED <<request, zoneList, known, offers, refresh, vm>> /\ DOMAIN vm' = Claims
  BY DEF PickType, Shapes
<1> QED BY <1>5, <1>6, <1>8, <1>9, WalkStep, VMsStay

\* The zones that are queued are candidates in the region that was picked.
LEMMA PickRegionKeeps ==
    ASSUME IInv, NEW c \in Claims, NEW region \in AllRegions, PickRegion(c, region)
    PROVE  IInv'
<1> USE DEF IInv
<1>1. PICK p \in CreateState : p = create[c] /\ WalkOK(c, p)
  BY DEF Shapes, Walks
<1>2. region \in p.regions /\ OfClass(c, region) /\ LargeEnough(c, p.type)
  BY <1>1 DEF PickRegion, WalkOK
<1>3. PICK s \in Orders(c, region, CandidateZones(c, region)) :
          create' = [create EXCEPT ![c].region = region, ![c].zones = s,
               ![c].regions = @ \ {region},
               ![c].offers = OffersOf(@, create[c].types \cup
                   IF create[c].regions = {region} THEN {} ELSE {create[c].type})]
  BY DEF PickRegion
<1>4. CandidateZones(c, region) \in SUBSET Zones
  BY <1>2, CandidatesAllowed DEF Shapes
<1>5. s \in Seq(CandidateZones(c, region))
  BY <1>3, <1>4, OrdersOf
<1>6. s \in Seq(Zones) /\ \A i \in 1..Len(s) : Allowed(c, region, s[i])
  <2>1. s \in Seq(Zones)
    BY <1>4, <1>5, SeqMonotonic
  <2>2. \A i \in 1..Len(s) : s[i] \in CandidateZones(c, region)
    BY <1>5, ElementOfSeq
  <2> QED BY <1>2, <2>1, <2>2, CandidatesAllowed DEF Shapes
<1>7. PICK kept : kept = p.types \cup IF p.regions = {region} THEN {} ELSE {p.type}
  OBVIOUS
<1>8. PICK w : /\ w = [p EXCEPT !.region = region, !.zones = s,
                           !.regions = p.regions \ {region},
                           !.offers = OffersOf(p.offers, kept)]
               /\ create' = [create EXCEPT ![c] = w]
  <2>1. create' = [create EXCEPT ![c] =
            [create[c] EXCEPT !.region = region, !.zones = s,
                 !.regions = create[c].regions \ {region},
                 !.offers = OffersOf(create[c].offers, kept)]]
    BY <1>1, <1>3, <1>7 DEF Shapes
  <2> QED BY <1>1, <2>1, Zenon
<1>9. w \in CreateState
  <2>1. region \in Regions /\ p.regions \ {region} \in SUBSET Regions
    BY DEF CreateState, Regions
  <2>2. OffersOf(p.offers, kept) \in SUBSET (Types \X Locations)
    BY DEF CreateState, OffersOf
  <2> QED BY <1>6, <1>8, <2>1, <2>2 DEF CreateState
<1>10. /\ w.types = p.types /\ w.type = p.type /\ w.regions = p.regions \ {region}
       /\ w.zones = s /\ w.region = region
  BY <1>8 DEF CreateState
<1>11. WalkOK(c, w)
  BY <1>1, <1>2, <1>6, <1>10 DEF WalkOK
<1>12. UNCHANGED <<request, zoneList, known, offers, refresh, vm>> /\ DOMAIN vm' = Claims
  BY DEF PickRegion, Shapes
<1> QED BY <1>8, <1>9, <1>11, <1>12, WalkStep, VMsStay

\* The VM is placed in the first zone of the queue.
LEMMA InstanceCreateKeeps ==
    ASSUME IInv, NEW c \in Claims, InstanceCreate(c)
    PROVE  IInv'
<1> USE DEF IInv
<1>1. PICK p \in CreateState : p = create[c] /\ WalkOK(c, p)
  BY DEF Shapes, Walks
<1>2. p.zones # <<>> /\ p.zones \in Seq(Zones)
  BY <1>1 DEF InstanceCreate, CreateState
<1>3. Head(p.zones) = p.zones[1] /\ 1 \in 1..Len(p.zones)
  BY <1>2
<1>4. Allowed(c, p.region, Head(p.zones)) /\ LargeEnough(c, p.type)
  BY <1>1, <1>2, <1>3 DEF WalkOK
<1>5. PICK l : l = <<p.region, Head(p.zones)>>
  OBVIOUS
<1>6. vm' = [vm EXCEPT ![c] = [type |-> p.type, location |-> l]]
  BY <1>1, <1>5 DEF InstanceCreate
<1>7. /\ l \in Class(c).selected
      /\ Class(c).region # None => RegionOf(l) = Class(c).region
      /\ request[c].zones # {} => ZoneOf(l) \in request[c].zones
  BY <1>4, <1>5 DEF Allowed, OfClass, RegionOf, ZoneOf
<1>8. DOMAIN vm' = Claims /\ vm'[c].type = p.type /\ vm'[c].location = l
      /\ \A d \in Claims \ {c} : vm'[d] = vm[d]
  BY <1>6 DEF Shapes
<1>9. create' = [create EXCEPT ![c] = Idle] /\ UNCHANGED <<request, zoneList, known, offers, refresh>>
  BY DEF InstanceCreate
<1>10. PlacedWhereAllowed'
  BY <1>4, <1>7, <1>8, <1>9 DEF PlacedWhereAllowed, LargeEnough, ReadInFull, Compatible, Class
<1> QED BY <1>8, <1>9, <1>10, IdleWalk, WalkStep

\* The rest of the queue is as good as the queue.
LEMMA InstanceCreateFailsKeeps ==
    ASSUME IInv, NEW c \in Claims, InstanceCreateFails(c)
    PROVE  IInv'
<1> USE DEF IInv
<1>1. PICK p \in CreateState : p = create[c] /\ WalkOK(c, p)
  BY DEF Shapes, Walks
<1>2. p.zones # <<>> /\ p.zones \in Seq(Zones)
  BY <1>1 DEF InstanceCreateFails, CreateState
<1>3. PICK s \in Seq(Zones) : /\ s = Tail(p.zones)
                              /\ \A i \in 1..Len(s) : Allowed(c, p.region, s[i])
  <2>1. Tail(p.zones) \in Seq(Zones) /\ Len(Tail(p.zones)) = Len(p.zones) - 1
        /\ \A i \in 1..Len(Tail(p.zones)) : Tail(p.zones)[i] = p.zones[i + 1]
    BY <1>2
  <2>2. \A i \in 1..(Len(p.zones) - 1) : i + 1 \in 1..Len(p.zones)
    BY <1>2
  <2>3. PICK s \in Seq(Zones) : s = Tail(p.zones)
    BY <2>1
  <2>4. \A i \in 1..Len(p.zones) : Allowed(c, p.region, p.zones[i])
    BY <1>1 DEF WalkOK
  <2>5. ASSUME NEW i \in 1..Len(s) PROVE Allowed(c, p.region, s[i])
    <3>1. s[i] = p.zones[i + 1] /\ i \in 1..(Len(p.zones) - 1)
      BY <2>1, <2>3, <2>5
    <3>2. Allowed(c, p.region, p.zones[i + 1])
      BY <2>2, <2>4, <3>1
    <3> QED BY <3>1, <3>2
  <2> QED BY <2>3, <2>5
<1>4. PICK w : w = [p EXCEPT !.zones = s] /\ create' = [create EXCEPT ![c] = w]
  <2>1. create' = [create EXCEPT ![c] = [create[c] EXCEPT !.zones = Tail(create[c].zones)]]
    BY DEF InstanceCreateFails, Shapes
  <2> QED BY <1>1, <1>3, <2>1, Zenon
<1>5. w \in CreateState
  BY <1>4 DEF CreateState
<1>6. /\ w.types = p.types /\ w.type = p.type /\ w.regions = p.regions
      /\ w.zones = s /\ w.region = p.region
  BY <1>4 DEF CreateState
<1>7. WalkOK(c, w)
  BY <1>1, <1>2, <1>3, <1>6 DEF WalkOK
<1>8. UNCHANGED <<request, zoneList, known, offers, refresh, vm>> /\ DOMAIN vm' = Claims
  BY DEF InstanceCreateFails, Shapes
<1> QED BY <1>4, <1>5, <1>7, <1>8, WalkStep, VMsStay

\* Create returns its errors.
LEMMA CreateFailsKeeps ==
    ASSUME IInv, NEW c \in Claims, CreateFails(c)
    PROVE  IInv'
<1>1. create' = [create EXCEPT ![c] = Idle] /\ UNCHANGED <<request, zoneList, known, offers, refresh, vm>>
      /\ DOMAIN vm' = Claims
  BY DEF CreateFails, IInv, Shapes
<1> QED BY <1>1, IdleWalk, WalkStep, VMsStay DEF IInv

-------------------------------------------------------------------------------
(* The refresh of the offerings.                                           *)

\* What a refresh leaves behind, at its end and before.
LEMMA RefreshedKeeps ==
    ASSUME IInv, NEW r \in RefreshState, r.regions # {} => r.type \in Types,
           Refreshed(r), UNCHANGED <<request, zoneList, known, create, vm>>
    PROVE  IInv'
<1> USE DEF IInv
<1>1. \/ offers' = r.made /\ refresh' = NoRefresh
      \/ refresh' = r /\ offers' = offers /\ (r.types # {} \/ r.regions # {})
  BY DEF Refreshed
<1>2. r.made \subseteq Types \X Locations
  BY DEF RefreshState
<1>3. Shapes'
  BY <1>1, <1>2 DEF Shapes
<1>4. NoRefresh \in RefreshState /\ NoRefresh.regions = {}
  BY DEF NoRefresh, RefreshState
<1>5. Refreshing'
  BY <1>1, <1>4 DEF Refreshing, TypesLocked
<1>6. Walks'
  BY DEF Walks, WalkOK, LargeEnough, OfClass, Allowed, Class
<1> QED BY <1>3, <1>5, <1>6, VMsStay

\* The next type is one of the types.
LEMMA UpdateOfferingsKeeps ==
    ASSUME IInv, UpdateOfferingsOfType
    PROVE  IInv'
<1> DEFINE left == IF TypesLocked THEN refresh.types ELSE Types
<1>1. refresh \in RefreshState
  BY DEF IInv, Refreshing
<1>2. left \in SUBSET Types /\ left # {}
  BY <1>1, PlacementAssumption DEF UpdateOfferingsOfType, IInv, Refreshing, RefreshState
<1>3. PICK types \in SUBSET Types : types = left /\ types # {}
  BY <1>2
<1>4. PICK t \in types : t = Cheapest(types)
  BY <1>3, CheapestIsOne
<1>5. PICK p \in RefreshState : p = refresh
  BY <1>1
<1>6. PICK r : r = [p EXCEPT !.types = types \ {t}, !.type = t, !.regions = known]
  OBVIOUS
<1>7. Refreshed(r)
  BY <1>3, <1>4, <1>5, <1>6 DEF UpdateOfferingsOfType
<1>8. r \in RefreshState /\ r.type \in Types
  BY <1>3, <1>4, <1>6 DEF RefreshState, IInv, Refreshing
<1>9. UNCHANGED <<request, zoneList, known, create, vm>>
  BY DEF UpdateOfferingsOfType
<1> QED BY <1>7, <1>8, <1>9, RefreshedKeeps

\* The offerings of a region are for zones of the zone list.
LEMMA CreateOfferingsKeeps ==
    ASSUME IInv, NEW region, CreateOfferings(region)
    PROVE  IInv'
<1>1. PICK p \in RefreshState : p = refresh /\ p.type \in Types
  BY DEF CreateOfferings, IInv, Refreshing
<1>2. PICK fits \in SUBSET Locations :
          fits = {l \in zoneList : RegionOf(l) = region /\ FitInZone(l, p.type.size)}
  BY DEF IInv, Refreshing
<1>3. PICK made \in SUBSET (Types \X Locations) : made = p.made \cup ({p.type} \X fits)
  BY <1>1 DEF RefreshState
<1>4. PICK r : r = [p EXCEPT !.regions = p.regions \ {region}, !.made = made]
  OBVIOUS
<1>5. Refreshed(r)
  BY <1>1, <1>2, <1>3, <1>4 DEF CreateOfferings
<1>6. r \in RefreshState /\ r.type = p.type
  BY <1>4 DEF RefreshState
<1>7. UNCHANGED <<request, zoneList, known, create, vm>>
  BY DEF CreateOfferings
<1> QED BY <1>1, <1>5, <1>6, <1>7, RefreshedKeeps

-------------------------------------------------------------------------------
(* The theorem.                                                            *)

\* A VM that is deleted is nowhere.
LEMMA DeleteKeeps ==
    ASSUME IInv, NEW c \in Claims, Delete(c)
    PROVE  IInv'
<1> USE DEF IInv
<1>1. vm' = [vm EXCEPT ![c] = None] /\ UNCHANGED <<request, zoneList, known, offers, refresh, create>>
  BY DEF Delete
<1>2. DOMAIN vm' = Claims /\ vm'[c] = None /\ \A d \in Claims \ {c} : vm'[d] = vm[d]
  BY <1>1 DEF Shapes
<1>3. PlacedWhereAllowed'
  BY <1>1, <1>2 DEF PlacedWhereAllowed, ReadInFull, Compatible, Class
<1>4. Shapes' /\ Refreshing'
  BY <1>1, <1>2 DEF Shapes, Refreshing, TypesLocked
<1>5. Walks'
  BY <1>1 DEF Walks, WalkOK, LargeEnough, OfClass, Allowed, Class
<1> QED BY <1>3, <1>4, <1>5

\* The nodes and the scans decide which offerings are made and where a VM
\* finds room, and have no part in what is allowed.
LEMMA OthersKeep ==
    ASSUME IInv, UNCHANGED <<request, offers, refresh, create, vm>>,
           zoneList' \subseteq Locations, known' \subseteq AllRegions
    PROVE  IInv'
<1> USE DEF IInv
<1>1. Shapes' /\ Walks'
  BY DEF Shapes, Walks, WalkOK, LargeEnough, OfClass, Allowed, Class
<1>2. Refreshing'
  BY DEF Refreshing, TypesLocked
<1> QED BY <1>1, <1>2, VMsStay

\* Every step of Create, of the refresh, of the scans and of the nodes keeps
\* the walks on allowed ground.
THEOREM Inductive == Spec => []IInv
<1>1. Init => IInv
  <2> SUFFICES ASSUME Init PROVE IInv
    OBVIOUS
  <2>1. Shapes
    BY IdleWalk DEF Init, Shapes
  <2>2. Walks
    BY IdleWalk DEF Init, Walks
  <2>3. Refreshing
    BY DEF Init, Refreshing, RefreshState, NoRefresh, TypesLocked
  <2>4. PlacedWhereAllowed
    BY DEF Init, PlacedWhereAllowed
  <2> QED BY <2>1, <2>2, <2>3, <2>4 DEF IInv
<1>2. IInv /\ [Next]_vars => IInv'
  <2> SUFFICES ASSUME IInv, [Next]_vars PROVE IInv'
    OBVIOUS
  <2>1. zoneList \subseteq Locations /\ known \subseteq AllRegions
    BY DEF IInv, Refreshing
  <2>2. ASSUME NEW l \in Locations, NodeChanges(l) PROVE IInv'
    BY <2>1, <2>2, OthersKeep DEF NodeChanges
  <2>3. CASE Sync
    <3>1. PICK regions \in SUBSET AllRegions, unread \in SUBSET Locations :
              SyncNodeCapacity(regions, unread)
      BY <2>3 DEF Sync
    <3> QED BY <3>1, OthersKeep DEF SyncNodeCapacity
  <2>4. CASE UpdateInstanceTypeOfferings
    BY <2>4, UpdateOfferingsKeeps, CreateOfferingsKeeps DEF UpdateInstanceTypeOfferings
  <2>5. ASSUME NEW regions \in SUBSET AllRegions, UpdateNodeLoad(regions) PROVE IInv'
    BY <2>1, <2>5, OthersKeep DEF UpdateNodeLoad
  <2>6. ASSUME NEW c \in Claims, Create(c) PROVE IInv'
    BY <2>6, CreateBeginKeeps, PickTypeKeeps, PickRegionKeeps, InstanceCreateKeeps,
       InstanceCreateFailsKeeps, CreateFailsKeeps DEF Create
  <2>7. ASSUME NEW c \in Claims, Delete(c) PROVE IInv'
    BY <2>7, DeleteKeeps
  <2>8. CASE UNCHANGED vars
    BY <2>1, <2>8, OthersKeep DEF vars
  <2> QED BY <2>2, <2>3, <2>4, <2>5, <2>6, <2>7, <2>8 DEF Next
<1> QED BY <1>1, <1>2, PTL DEF Spec

\* A VM is where its class allows it, on a type that is large enough and in a
\* zone that the zone requirement names, whatever stages of Create, scans and
\* offerings are mixed: Create looks zones up by name in offerings of all
\* regions, and intersects them with the zones that the class selects in the
\* region at hand.  For every claim whose zone requirement is In and that has
\* no region requirement this is where the claim allows it; the theorem covers
\* claims of the other kinds, and promises no more of them than the code does.
THEOREM PlacementAllowed == Spec => []PlacedWhereAllowed
<1>1. IInv => PlacedWhereAllowed
  BY DEF IInv
<1> QED BY <1>1, Inductive, PTL

=============================================================================
