--------------------------- MODULE NodeClaimsProofs ---------------------------
(***************************************************************************)
(* Theorems about the claims of a node class: types, tokens, in-place      *)
(* updates and drift, for any number of claims, zones, specifications and  *)
(* events.                                                                 *)
(*                                                                         *)
(* The invariant is a conjunction over the claims.  A step of one claim    *)
(* leaves the others alone (OtherClaims), so only its own conjunct is at   *)
(* stake.                                                                  *)
(***************************************************************************)
EXTENDS NodeClaims, TLAPS

-------------------------------------------------------------------------------
(* The inductive invariant.                                                *)

Revs == {spec.rev : spec \in Specs}
Tags == {spec.tags : spec \in Specs}
Pools == {None} \cup {spec.pool : spec \in Specs}
InPlaceHashes == {InPlaceHash(spec) : spec \in Specs} \cup {None}

ClaimState ==
    [phase : {"new", "launched", "gone"}, deleting : BOOLEAN, initialized : BOOLEAN,
     hash : Revs \cup {None}, inplace : InPlaceHashes, pool : Pools,
     token : Nat \cup {None}, marked : BOOLEAN, image : Nat, zone : Zones \cup {None}]

ClassState ==
    [spec : Specs, hash : Revs \cup {None}, selected : SUBSET (Zones \X TemplateIDs),
     ready : BOOLEAN]

Launching ==
    [pc : {"zones", "clone", "start"}, spec : Specs, zones : SUBSET Zones,
     ids : SUBSET TemplateIDs, zone : Zones \cup {None}, id : TemplateIDs \cup {None},
     image : Nat, token : Nat \cup {None}]

Updating ==
    [pc : {"tags", "rules", "pool", "patch"}, spec : Specs, oldPool : Pools,
     cloudinit : BOOLEAN, ok : BOOLEAN]

Finishing == [pc : {"detach", "token", "patch"}, tags : Tags]

\* What does not belong to a claim.  Versions of templates are numbered, so
\* the template in a zone is never older than the cache says.
Globals ==
    /\ made \in Nat /\ events \in 0..MaxEvents /\ 1 <= made /\ made <= events + 1
    /\ template \in [Zones -> 0..made] /\ cache \in [Zones -> 0..made]
    /\ \A z \in Zones : cache[z] # 0 /\ template[z] # 0 => cache[z] <= template[z]
    /\ ident \in [Zones -> TemplateIDs] /\ cacheIdent \in [Zones -> TemplateIDs]
    /\ prepared \subseteq Zones \X TemplateIDs
    /\ class \in ClassState

\* The variables that hold something for every claim.
Shapes ==
    /\ claim \in [Claims -> ClaimState]
    /\ vm \in [Claims -> VMState \cup {None}]
    /\ launch \in [Claims -> Launching \cup {Idle}]
    /\ update \in [Claims -> Updating \cup {Idle}]
    /\ finish \in [Claims -> Finishing \cup {Idle}]
    /\ attempts \in [Claims -> 0..MaxAttempts]
    /\ tokens \subseteq Claims \X (1..MaxAttempts)
    /\ stale \subseteq Claims \X {"update", "finish"}
    /\ unrecorded \subseteq Claims

\* Launch comes before the two claim controllers, and these notice when the
\* claim they read is not launched any more.
Ordered(c) ==
    /\ Running(launch, c) => claim[c].phase = "new" /\ ~claim[c].deleting
    /\ Running(update, c) \/ Running(finish, c) => claim[c].phase # "new"
    /\ Running(update, c) /\ <<c, "update">> \notin stale => IsLaunched(c)
    /\ Running(finish, c) /\ <<c, "finish">> \notin stale => IsLaunched(c)
    /\ launch[c].pc = "start" \/ IsLaunched(c) => vm[c] # None
    /\ launch[c].pc \in {"clone", "start"} => launch[c].zone \in Zones
    /\ IsLaunched(c) => claim[c].zone \in Zones

\* The token on record was made, and is gone before the mark is set.
TokenGone(c) ==
    /\ Running(launch, c) /\ launch[c].token # None => launch[c].token <= attempts[c]
    /\ claim[c].token # None => claim[c].token <= attempts[c]
    /\ claim[c].marked => IsLaunched(c) /\ <<c, claim[c].token>> \notin tokens
    /\ finish[c].pc = "patch" /\ <<c, "finish">> \notin stale
         => <<c, claim[c].token>> \notin tokens

\* The VM has the firewall rules of a specification, and is in its pool.
HasRules(c, spec) == vm[c].rules = spec.rules
InPool(c, spec) == spec.pool # None => vm[c].pool = spec.pool

\* What a launch and an update have applied so far, and that the annotation is
\* right from one recorded update to the begin of the next.
Applied(c) ==
    /\ launch[c].pc = "start" => HasRules(c, launch[c].spec) /\ InPool(c, launch[c].spec)
    /\ update[c].pc \in {"rules", "pool", "patch"} => c \in unrecorded
    /\ update[c].pc \in {"pool", "patch"} /\ update[c].ok /\ IsLaunched(c)
         => HasRules(c, update[c].spec)
    /\ update[c].pc = "patch" /\ update[c].ok /\ IsLaunched(c) => InPool(c, update[c].spec)
    /\ IsLaunched(c) /\ c \notin unrecorded
         => \E spec \in Specs : /\ InPlaceHash(spec) = claim[c].inplace
                                /\ HasRules(c, spec) /\ InPool(c, spec)

\* The image of a VM is at least as new as the one on record, and not newer
\* than the template.
ImageBetween(z, image, clone) ==
    image # 0 /\ image <= clone /\ clone <= made /\ (template[z] # 0 => clone <= template[z])

Built(c) ==
    /\ launch[c].pc = "clone" =>
           /\ launch[c].image # 0 /\ launch[c].image <= made
           /\ template[launch[c].zone] # 0 => launch[c].image <= template[launch[c].zone]
    /\ launch[c].pc = "start" =>
           /\ vm[c].built = launch[c].spec.rev
           /\ ImageBetween(launch[c].zone, launch[c].image, vm[c].image)
    /\ IsLaunched(c) =>
           /\ vm[c].built = claim[c].hash
           /\ ImageBetween(claim[c].zone, claim[c].image, vm[c].image)

ClaimInv(c) == Ordered(c) /\ TokenGone(c) /\ Applied(c) /\ Built(c)

IInv == Globals /\ Shapes /\ \A c \in Claims : ClaimInv(c)

-------------------------------------------------------------------------------
(* Steps in general.                                                       *)

\* A step leaves everything alone that the invariant says of a claim.
SameClaim(d) ==
    /\ UNCHANGED <<claim[d], vm[d], launch[d], update[d], finish[d], attempts[d]>>
    /\ \A k \in {"update", "finish"} : <<d, k>> \in stale' <=> <<d, k>> \in stale
    /\ \A n : <<d, n>> \in tokens' <=> <<d, n>> \in tokens
    /\ d \in unrecorded' <=> d \in unrecorded

\* Then the invariant is kept for it.
LEMMA OtherClaims ==
    ASSUME NEW d \in Claims, ClaimInv(d), SameClaim(d), UNCHANGED <<template, made>>
    PROVE  ClaimInv(d)'
<1>1. Ordered(d)'
  BY DEF ClaimInv, Ordered, SameClaim, Running, IsLaunched
<1>2. TokenGone(d)'
  BY DEF ClaimInv, TokenGone, SameClaim, Running, IsLaunched
<1>3. Applied(d)'
  BY DEF ClaimInv, Applied, SameClaim, IsLaunched, HasRules, InPool
<1>4. Built(d)'
  BY DEF ClaimInv, Built, SameClaim, IsLaunched, ImageBetween
<1> QED BY <1>1, <1>2, <1>3, <1>4 DEF ClaimInv

\* What a write to a claim does.
LEMMA WriteEffect ==
    ASSUME Shapes, NEW c \in Claims, NEW new \in ClaimState, Write(c, new)
    PROVE  /\ claim' \in [Claims -> ClaimState] /\ claim'[c] = new
           /\ stale' \subseteq Claims \X {"update", "finish"}
           /\ \A d \in Claims \ {c} : claim'[d] = claim[d]
           /\ \A d \in Claims \ {c}, k \in {"update", "finish"} : <<d, k>> \in stale' <=> <<d, k>> \in stale
           /\ stale \subseteq stale'
           /\ new # claim[c] => <<c, "update">> \in stale' /\ <<c, "finish">> \in stale'
           /\ new = claim[c] => stale' = stale
<1>1. claim' \in [Claims -> ClaimState] /\ claim'[c] = new /\ \A d \in Claims \ {c} : claim'[d] = claim[d]
  BY DEF Shapes, Write
<1>2. CASE new = claim[c]
  BY <1>1, <1>2 DEF Shapes, Write
<1>3. CASE new # claim[c]
  <2>1. stale' = stale \cup ({c} \X {"update", "finish"})
    BY <1>3 DEF Write
  <2> QED BY <1>1, <1>3, <2>1 DEF Shapes
<1> QED BY <1>2, <1>3

\* A step of claim c: the invariant has to be shown for c only.
Keeps(c) ==
    /\ Globals' /\ Shapes' /\ ClaimInv(c)'
    /\ UNCHANGED <<template, made>>
    /\ \A d \in Claims \ {c} : SameClaim(d)

\* Such a step keeps the invariant.
LEMMA KeepsSuffices ==
    ASSUME IInv, NEW c \in Claims, Keeps(c)
    PROVE  IInv'
<1>1. ASSUME NEW d \in Claims PROVE ClaimInv(d)'
  BY <1>1, OtherClaims DEF IInv, Keeps
<1> QED BY <1>1 DEF IInv, Keeps

-------------------------------------------------------------------------------
(* Launch.                                                                 *)

\* A launch begins for a claim that neither controller has begun with.
LEMMA LaunchBeginKeeps ==
    ASSUME IInv, NEW c \in Claims, LaunchBegin(c)
    PROVE  Keeps(c)
<1>0. Globals /\ Shapes /\ ClaimInv(c)
  BY DEF IInv
<1>1. /\ claim[c].phase = "new" /\ ~claim[c].deleting /\ launch[c].pc = "idle"
      /\ launch' = [launch EXCEPT ![c] =
           [pc |-> "zones", spec |-> class.spec, zones |-> GetZones, ids |-> GetTemplateIDs,
            zone |-> None, id |-> None, image |-> 0, token |-> None]]
      /\ UNCHANGED <<templates, class, claim, vm, tokens, update, finish, stale,
                     attempts, unrecorded, events>>
  BY DEF LaunchBegin, Launchable, Running
<1>2. launch' \in [Claims -> Launching \cup {Idle}] /\ launch'[c].pc = "zones" /\ launch'[c].token = None
  <2>1. class.spec \in Specs /\ class.selected \subseteq Zones \X TemplateIDs
    BY <1>0 DEF Globals, ClassState
  <2>2. GetZones \in SUBSET Zones /\ GetTemplateIDs \in SUBSET TemplateIDs
    BY <2>1 DEF GetZones, GetTemplateIDs
  <2> QED BY <1>0, <1>1, <2>1, <2>2 DEF Shapes, Launching
<1>3. \A d \in Claims \ {c} : SameClaim(d)
  BY <1>0, <1>1 DEF SameClaim, Shapes
<1>4. Globals' /\ Shapes' /\ UNCHANGED <<template, made>>
  BY <1>0, <1>1, <1>2 DEF Globals, Shapes, templates
<1>5. ClaimInv(c)'
  <2>1. Ordered(c)'
    BY <1>0, <1>1, <1>2 DEF ClaimInv, Ordered, Running, IsLaunched
  <2>2. TokenGone(c)'
    BY <1>0, <1>1, <1>2 DEF ClaimInv, TokenGone, Running, IsLaunched
  <2>3. Applied(c)'
    BY <1>0, <1>1, <1>2 DEF ClaimInv, Applied, IsLaunched, HasRules, InPool
  <2>4. Built(c)'
    BY <1>0, <1>1, <1>2 DEF ClaimInv, Built, IsLaunched, ImageBetween
  <2> QED BY <2>1, <2>2, <2>3, <2>4 DEF ClaimInv
<1> QED BY <1>3, <1>4, <1>5 DEF Keeps

\* The image that goes on record is not newer than the template of the zone.
LEMMA PickTemplateKeeps ==
    ASSUME IInv, NEW c \in Claims, NEW z \in Zones, PickTemplate(c, z)
    PROVE  Keeps(c)
<1>0. Globals /\ Shapes /\ ClaimInv(c)
  BY DEF IInv
<1>1. /\ launch[c].pc = "zones"
      /\ launch' = [launch EXCEPT ![c].zones = @ \ {z},
           ![c].pc = IF HasTemplate(z, launch[c].ids) THEN "clone" ELSE "zones",
           ![c].zone = z, ![c].id = cacheIdent[z], ![c].image = cache[z]]
      /\ UNCHANGED <<templates, class, claim, vm, tokens, update, finish, stale,
                     attempts, unrecorded, events>>
  BY DEF PickTemplate
<1>2. /\ launch[c] \in Launching /\ cache[z] \in 0..made /\ made \in Nat
      /\ cacheIdent[z] \in TemplateIDs
  BY <1>0, <1>1 DEF Globals, Shapes, Idle
<1>a. PICK pc \in {"zones", "clone"} :
          /\ pc = IF HasTemplate(z, launch[c].ids) THEN "clone" ELSE "zones"
          /\ pc = "clone" => cache[z] # 0
  BY DEF HasTemplate
<1>3. /\ launch' \in [Claims -> Launching \cup {Idle}]
      /\ launch'[c].pc = pc
      /\ launch'[c].token = launch[c].token /\ launch'[c].zone = z /\ launch'[c].image = cache[z]
  <2> DEFINE r == [pc |-> pc, spec |-> launch[c].spec,
                   zones |-> launch[c].zones \ {z}, ids |-> launch[c].ids, zone |-> z,
                   id |-> cacheIdent[z], image |-> cache[z], token |-> launch[c].token]
  <2>1. launch'[c] = [launch[c] EXCEPT !.zones = launch[c].zones \ {z}, !.pc = pc,
                         !.zone = z, !.id = cacheIdent[z], !.image = cache[z]]
    BY <1>0, <1>1, <1>a DEF Shapes
  <2>2. launch'[c] = r
    BY <1>2, <2>1 DEF Launching
  <2>3. r \in Launching
    BY <1>2 DEF Launching
  <2>4. DOMAIN launch' = Claims /\ \A d \in Claims \ {c} : launch'[d] = launch[d]
    BY <1>0, <1>1 DEF Shapes
  <2>5. r.pc = pc /\ r.token = launch[c].token /\ r.zone = z /\ r.image = cache[z]
    OBVIOUS
  <2> HIDE DEF r
  <2>6. launch' \in [Claims -> Launching \cup {Idle}]
    <3>1. \A d \in Claims : launch'[d] \in Launching \cup {Idle}
      BY <1>0, <2>2, <2>3, <2>4 DEF Shapes
    <3> QED BY <1>0, <1>1, <2>4, <3>1 DEF Shapes
  <2> QED BY <2>2, <2>5, <2>6
<1>4. \A d \in Claims \ {c} : SameClaim(d)
  BY <1>0, <1>1 DEF SameClaim, Shapes
<1>5. Globals' /\ Shapes' /\ UNCHANGED <<template, made>>
  BY <1>0, <1>1, <1>a, <1>3 DEF Globals, Shapes, templates
<1>6. ClaimInv(c)'
  <2>1. Ordered(c)'
    BY <1>0, <1>1, <1>a, <1>3 DEF ClaimInv, Ordered, Running, IsLaunched
  <2>2. TokenGone(c)'
    BY <1>0, <1>1, <1>a, <1>3 DEF ClaimInv, TokenGone, Running, IsLaunched
  <2>3. Applied(c)'
    BY <1>0, <1>1, <1>a, <1>3 DEF ClaimInv, Applied, IsLaunched, HasRules, InPool
  <2>4. Built(c)'
    BY <1>0, <1>1, <1>2, <1>a, <1>3 DEF ClaimInv, Built, IsLaunched, ImageBetween, Globals, templates
  <2> QED BY <2>1, <2>2, <2>3, <2>4 DEF ClaimInv
<1> QED BY <1>4, <1>5, <1>6 DEF Keeps

\* The clone has what the launch began with, the image of the template as it is
\* now, and a token that the next attempt does not use.
LEMMA CloneVMKeeps ==
    ASSUME IInv, NEW c \in Claims, CloneVM(c)
    PROVE  Keeps(c)
<1>0. Globals /\ Shapes /\ ClaimInv(c)
  BY DEF IInv
<1> DEFINE z == launch[c].zone
           t == launch'[c].token
<1>1. /\ launch[c].pc = "clone" /\ template[z] # 0 /\ attempts[c] < MaxAttempts
      /\ attempts' = [attempts EXCEPT ![c] = @ + 1]
      /\ vm' = [vm EXCEPT ![c] = ClonedVM(c)]
      /\ \/ /\ tokens' = tokens \cup {<<c, attempts[c] + 1>>}
            /\ launch' = [launch EXCEPT ![c].pc = "start", ![c].token = attempts[c] + 1]
         \/ launch' = [launch EXCEPT ![c].pc = "start"] /\ UNCHANGED tokens
      /\ UNCHANGED <<templates, class, claim, update, finish, stale, unrecorded, events>>
  BY DEF CloneVM, CreateToken, Clonable
<1>2. /\ launch[c] \in Launching /\ z \in Zones /\ made \in Nat
      /\ attempts[c] \in Nat /\ attempts[c] + 1 \in 1..MaxAttempts /\ MaxAttempts \in Nat
      /\ template[z] \in 0..made
  BY <1>0, <1>1, NodeClaimsAssumption DEF Globals, Shapes, Idle, ClaimInv, Ordered
<1>3. /\ launch'[c] \in Launching /\ launch'[c].pc = "start" /\ launch'[c].spec = launch[c].spec
      /\ launch'[c].zone = z /\ launch'[c].image = launch[c].image
      /\ t = launch[c].token \/ t = attempts[c] + 1
  <2>1. \/ launch'[c] = [launch[c] EXCEPT !.pc = "start", !.token = attempts[c] + 1]
        \/ launch'[c] = [launch[c] EXCEPT !.pc = "start"]
    <3>1. CASE launch' = [launch EXCEPT ![c].pc = "start", ![c].token = attempts[c] + 1]
      BY <1>0, <3>1 DEF Shapes
    <3>2. CASE launch' = [launch EXCEPT ![c].pc = "start"]
      BY <1>0, <3>2 DEF Shapes
    <3> QED BY <1>1, <3>1, <3>2
  <2>2. PICK l \in Launching : l = launch[c]
    BY <1>2
  <2>3. CASE launch'[c] = [l EXCEPT !.pc = "start", !.token = attempts[c] + 1]
    <3>1. PICK n \in Nat : n = attempts[c] + 1
      BY <1>2
    <3>2. launch'[c] = [l EXCEPT !.pc = "start", !.token = n]
      BY <2>3, <3>1, Zenon
    <3>3. launch'[c] = [pc |-> "start", spec |-> l.spec, zones |-> l.zones, ids |-> l.ids,
                        zone |-> l.zone, id |-> l.id, image |-> l.image, token |-> n]
      BY <3>2 DEF Launching
    <3> QED BY <2>2, <3>1, <3>3 DEF Launching
  <2>4. CASE launch'[c] = [l EXCEPT !.pc = "start"]
    BY <2>2, <2>4 DEF Launching
  <2> QED BY <2>1, <2>2, <2>3, <2>4
<1>4. ClonedVM(c) \in VMState
  BY <1>2, NodeClaimsAssumption DEF ClonedVM, VMState, Launching
<1>5. /\ vm'[c] = ClonedVM(c) /\ vm'[c] # None
      /\ vm'[c].rules = launch[c].spec.rules /\ vm'[c].pool = launch[c].spec.pool
      /\ vm'[c].built = launch[c].spec.rev /\ vm'[c].image = template[z]
  BY <1>0, <1>1, <1>4, NoneAssumption DEF Shapes, ClonedVM
<1>6. attempts'[c] = attempts[c] + 1 /\ tokens' \subseteq tokens \cup {<<c, attempts[c] + 1>>}
  BY <1>0, <1>1 DEF Shapes
<1>7. \A d \in Claims \ {c} : SameClaim(d)
  BY <1>0, <1>1 DEF SameClaim, Shapes
<1>8. Globals' /\ UNCHANGED <<template, made>>
  BY <1>0, <1>1 DEF Globals, templates
<1>9. Shapes'
  <2>1. launch' \in [Claims -> Launching \cup {Idle}]
    BY <1>0, <1>1, <1>3 DEF Shapes
  <2>2. vm' \in [Claims -> VMState \cup {None}]
    BY <1>0, <1>1, <1>4 DEF Shapes
  <2>3. attempts' \in [Claims -> 0..MaxAttempts] /\ tokens' \subseteq Claims \X (1..MaxAttempts)
    BY <1>0, <1>1, <1>2, <1>6 DEF Shapes
  <2> QED BY <1>0, <1>1, <2>1, <2>2, <2>3 DEF Shapes
<1>10. claim[c].phase = "new" /\ ~claim[c].deleting /\ update[c].pc = "idle" /\ finish[c].pc = "idle"
  BY <1>0, <1>1 DEF ClaimInv, Ordered, Running
<1>11. ClaimInv(c)'
  <2>1. Ordered(c)'
    BY <1>1, <1>2, <1>3, <1>5, <1>10 DEF Ordered, Running, IsLaunched
  <2>2. TokenGone(c)'
    <3>1. claim[c] \in ClaimState
      BY <1>0 DEF Shapes
    <3> QED BY <1>0, <1>1, <1>2, <1>3, <1>6, <1>10, <3>1
            DEF ClaimInv, TokenGone, Running, IsLaunched, Launching, ClaimState
  <2>3. Applied(c)'
    BY <1>1, <1>3, <1>5, <1>10 DEF Applied, IsLaunched, HasRules, InPool
  <2>4. Built(c)'
    BY <1>0, <1>1, <1>2, <1>3, <1>5, <1>8, <1>10 DEF ClaimInv, Built, IsLaunched, ImageBetween
  <2> QED BY <2>1, <2>2, <2>3, <2>4 DEF ClaimInv
<1> QED BY <1>7, <1>8, <1>9, <1>11 DEF Keeps

\* A failed attempt leaves no VM.
LEMMA AttemptFailsKeeps ==
    ASSUME IInv, NEW c \in Claims, AttemptFails(c)
    PROVE  Keeps(c)
<1>0. Globals /\ Shapes /\ ClaimInv(c)
  BY DEF IInv
<1>1. /\ launch[c].pc \in {"clone", "start"}
      /\ events' = events \/ (events < MaxEvents /\ events' = events + 1)
      /\ vm' = [vm EXCEPT ![c] = None]
      /\ launch' = [launch EXCEPT ![c].pc = "zones"]
      /\ UNCHANGED <<templates, class, claim, tokens, update, finish, stale, attempts, unrecorded>>
  BY DEF AttemptFails, Event
<1>2. launch[c] \in Launching
  BY <1>0, <1>1 DEF Shapes, Idle
<1>3. launch'[c] \in Launching /\ launch'[c].pc = "zones" /\ launch'[c].token = launch[c].token
  BY <1>0, <1>1, <1>2 DEF Shapes, Launching
<1>4. \A d \in Claims \ {c} : SameClaim(d)
  BY <1>0, <1>1 DEF SameClaim, Shapes
<1>5. Globals' /\ UNCHANGED <<template, made>>
  BY <1>0, <1>1, NodeClaimsAssumption DEF Globals, templates
<1>6. Shapes'
  BY <1>0, <1>1, <1>3 DEF Shapes
<1>7. claim[c].phase = "new" /\ ~claim[c].deleting /\ update[c].pc = "idle" /\ finish[c].pc = "idle"
  BY <1>0, <1>1 DEF ClaimInv, Ordered, Running
<1>8. ClaimInv(c)'
  <2>1. Ordered(c)'
    BY <1>1, <1>3, <1>7 DEF Ordered, Running, IsLaunched
  <2>2. TokenGone(c)'
    BY <1>0, <1>1, <1>3, <1>7 DEF ClaimInv, TokenGone, Running, IsLaunched
  <2>3. Applied(c)'
    BY <1>1, <1>3, <1>7 DEF Applied, IsLaunched
  <2>4. Built(c)'
    BY <1>1, <1>3, <1>7 DEF Built, IsLaunched
  <2> QED BY <2>1, <2>2, <2>3, <2>4 DEF ClaimInv
<1> QED BY <1>4, <1>5, <1>6, <1>8 DEF Keeps

\* A failed launch leaves the claim as it was.
LEMMA LaunchFailsKeeps ==
    ASSUME IInv, NEW c \in Claims, LaunchFails(c)
    PROVE  Keeps(c)
<1>0. Globals /\ Shapes /\ ClaimInv(c)
  BY DEF IInv
<1>1. /\ launch[c].pc = "zones" /\ launch' = [launch EXCEPT ![c] = Idle]
      /\ UNCHANGED <<templates, class, claim, vm, tokens, update, finish, stale, attempts,
                     unrecorded, events>>
  BY DEF LaunchFails
<1>2. launch'[c].pc = "idle"
  BY <1>0, <1>1 DEF Shapes, Idle
<1>3. \A d \in Claims \ {c} : SameClaim(d)
  BY <1>0, <1>1 DEF SameClaim, Shapes
<1>4. Globals' /\ UNCHANGED <<template, made>>
  BY <1>0, <1>1 DEF Globals, templates
<1>5. Shapes'
  BY <1>0, <1>1 DEF Shapes
<1>6. claim[c].phase = "new"
  BY <1>0, <1>1 DEF ClaimInv, Ordered, Running
<1>7. ClaimInv(c)'
  <2>1. Ordered(c)'
    BY <1>0, <1>1, <1>2, <1>6 DEF ClaimInv, Ordered, Running, IsLaunched
  <2>2. TokenGone(c)'
    BY <1>0, <1>1, <1>2, <1>6 DEF ClaimInv, TokenGone, Running, IsLaunched
  <2>3. Applied(c)'
    BY <1>0, <1>1, <1>2, <1>6 DEF ClaimInv, Applied, IsLaunched
  <2>4. Built(c)'
    BY <1>1, <1>2, <1>6 DEF Built, IsLaunched
  <2> QED BY <2>1, <2>2, <2>3, <2>4 DEF ClaimInv
<1> QED BY <1>3, <1>4, <1>5, <1>7 DEF Keeps

\* The claim that Create returns is true of its VM.
LEMMA LaunchedKeeps ==
    ASSUME IInv, NEW c \in Claims, Launched(c)
    PROVE  Keeps(c)
<1>0. Globals /\ Shapes /\ ClaimInv(c)
  BY DEF IInv
<1> DEFINE l == launch[c]
<1>a. PICK new : new = [claim[c] EXCEPT !.phase = "launched",
                     !.hash = HashOfClaim(c), !.inplace = InPlaceHash(launch[c].spec),
                     !.token = launch[c].token, !.image = ImageOfClaim(c),
                     !.zone = launch[c].zone]
  OBVIOUS
<1>1. /\ launch[c].pc = "start" /\ launch' = [launch EXCEPT ![c] = Idle] /\ Write(c, new)
      /\ UNCHANGED <<templates, class, vm, tokens, update, finish, attempts, unrecorded, events>>
  BY <1>a DEF Launched
<1>2. l \in Launching /\ claim[c] \in ClaimState /\ l.zone \in Zones
  BY <1>0, <1>1 DEF Shapes, Idle, ClaimInv, Ordered
<1>3. claim[c].phase = "new" /\ ~claim[c].deleting /\ update[c].pc = "idle" /\ finish[c].pc = "idle"
  BY <1>0, <1>1 DEF ClaimInv, Ordered, Running
<1>4. new = [phase |-> "launched", deleting |-> claim[c].deleting,
             initialized |-> claim[c].initialized, hash |-> l.spec.rev,
             inplace |-> InPlaceHash(l.spec), pool |-> claim[c].pool, token |-> l.token,
             marked |-> claim[c].marked, image |-> l.image, zone |-> l.zone]
  <2>1. new = [claim[c] EXCEPT !.phase = "launched", !.hash = l.spec.rev,
                 !.inplace = InPlaceHash(l.spec), !.token = l.token, !.image = l.image,
                 !.zone = l.zone]
    BY <1>a, Zenon DEF HashOfClaim, ImageOfClaim, Hash
  <2>2. PICK p, h, i, t, m, z : /\ p \in ClaimState
          /\ p = claim[c] /\ h = l.spec.rev /\ i = InPlaceHash(l.spec) /\ t = l.token
          /\ m = l.image /\ z = l.zone
    BY <1>2
  <2>3. new = [p EXCEPT !.phase = "launched", !.hash = h, !.inplace = i, !.token = t,
                 !.image = m, !.zone = z]
    BY <2>1, <2>2, Zenon
  <2>4. new = [phase |-> "launched", deleting |-> p.deleting,
               initialized |-> p.initialized, hash |-> h, inplace |-> i, pool |-> p.pool,
               token |-> t, marked |-> p.marked, image |-> m, zone |-> z]
    <3>1. p \in ClaimState
      BY <2>2
    <3> QED BY <2>3, <3>1 DEF ClaimState
  <2> QED BY <2>2, <2>4
<1>5. new \in ClaimState
  BY <1>2, <1>4 DEF ClaimState, Launching, Revs, InPlaceHashes
<1>6. /\ new.phase = "launched" /\ new.deleting = claim[c].deleting /\ new.hash = l.spec.rev
      /\ new.inplace = InPlaceHash(l.spec) /\ new.token = l.token /\ new.marked = claim[c].marked
      /\ new.image = l.image /\ new.zone = l.zone
  BY <1>4
<1>7. /\ claim' \in [Claims -> ClaimState] /\ claim'[c] = new
      /\ stale' \subseteq Claims \X {"update", "finish"}
      /\ \A d \in Claims \ {c} : claim'[d] = claim[d]
      /\ \A d \in Claims \ {c}, k \in {"update", "finish"} : <<d, k>> \in stale' <=> <<d, k>> \in stale
  BY <1>0, <1>1, <1>5, WriteEffect
<1>8. launch'[c].pc = "idle"
  BY <1>0, <1>1 DEF Shapes, Idle
<1>9. \A d \in Claims \ {c} : SameClaim(d)
  BY <1>0, <1>1, <1>7 DEF SameClaim, Shapes
<1>10. Globals' /\ UNCHANGED <<template, made>>
  BY <1>0, <1>1 DEF Globals, templates
<1>11. Shapes'
  BY <1>0, <1>1, <1>7 DEF Shapes
<1>12. ClaimInv(c)'
  <2>1. Ordered(c)'
    BY <1>0, <1>1, <1>2, <1>3, <1>6, <1>7, <1>8 DEF ClaimInv, Ordered, Running, IsLaunched
  <2>2. TokenGone(c)'
    BY <1>0, <1>1, <1>3, <1>6, <1>7, <1>8 DEF ClaimInv, TokenGone, Running, IsLaunched
  <2>3. Applied(c)'
    <3>1. HasRules(c, l.spec) /\ InPool(c, l.spec) /\ l.spec \in Specs
      BY <1>0, <1>1, <1>2 DEF ClaimInv, Applied, Launching
    <3>2. vm' = vm
      BY <1>1
    <3>3. /\ InPlaceHash(l.spec) = claim'[c].inplace
          /\ vm'[c].rules = l.spec.rules /\ (l.spec.pool # None => vm'[c].pool = l.spec.pool)
      BY <1>6, <1>7, <3>1, <3>2 DEF HasRules, InPool
    <3> QED BY <1>1, <1>2, <1>3, <1>8, <3>1, <3>3 DEF Applied, HasRules, InPool
  <2>4. Built(c)'
    BY <1>0, <1>1, <1>6, <1>7, <1>8, <1>10 DEF ClaimInv, Built, IsLaunched, ImageBetween
  <2> QED BY <2>1, <2>2, <2>3, <2>4 DEF ClaimInv
<1> QED BY <1>9, <1>10, <1>11, <1>12 DEF Keeps

-------------------------------------------------------------------------------
(* The core.                                                               *)

\* A write that leaves the phase of a claim, and all that says how it was
\* launched, keeps the invariant if no launch of the claim is under way and
\* the mark is not set by it.
LEMMA WriteKeeps ==
    ASSUME IInv, NEW c \in Claims, NEW new \in ClaimState, Write(c, new), ~Running(launch, c),
           new.phase = claim[c].phase, new.token = claim[c].token, new.marked = claim[c].marked,
           new.image = claim[c].image, new.zone = claim[c].zone, new.hash = claim[c].hash,
           new.inplace = claim[c].inplace,
           UNCHANGED <<templates, class, vm, tokens, launch, update, finish, attempts,
                       unrecorded, events>>
    PROVE  Keeps(c)
<1>0. Globals /\ Shapes /\ ClaimInv(c)
  BY DEF IInv
<1>1. /\ claim' \in [Claims -> ClaimState] /\ claim'[c] = new
      /\ stale' \subseteq Claims \X {"update", "finish"}
      /\ \A d \in Claims \ {c} : claim'[d] = claim[d]
      /\ \A d \in Claims \ {c}, k \in {"update", "finish"} : <<d, k>> \in stale' <=> <<d, k>> \in stale
      /\ stale \subseteq stale'
  BY <1>0, WriteEffect
<1>2. \A d \in Claims \ {c} : SameClaim(d)
  BY <1>1 DEF SameClaim
<1>3. Globals' /\ UNCHANGED <<template, made>>
  BY <1>0 DEF Globals, templates
<1>4. Shapes'
  BY <1>0, <1>1 DEF Shapes
<1>5. launch[c].pc = "idle"
  BY DEF Running
<1>6. Ordered(c)'
  BY <1>0, <1>1, <1>5 DEF ClaimInv, Ordered, Running, IsLaunched
<1>7. TokenGone(c)'
  BY <1>0, <1>1 DEF ClaimInv, TokenGone, Running, IsLaunched
<1>8. Applied(c)'
  BY <1>0, <1>1, <1>5 DEF ClaimInv, Applied, IsLaunched, HasRules, InPool
<1>9. Built(c)'
  BY <1>0, <1>1, <1>3, <1>5 DEF ClaimInv, Built, IsLaunched, ImageBetween
<1> QED BY <1>2, <1>3, <1>4, <1>6, <1>7, <1>8, <1>9 DEF Keeps, ClaimInv

\* The core marks the claim as initialized.
LEMMA InitializeKeeps ==
    ASSUME IInv, NEW c \in Claims, Initialize(c)
    PROVE  Keeps(c)
<1>0. Shapes /\ ClaimInv(c)
  BY DEF IInv
<1>1. PICK p \in ClaimState : p = claim[c]
  BY <1>0 DEF Shapes
<1>2. PICK new : new = [p EXCEPT !.initialized = TRUE]
  OBVIOUS
<1>3. Write(c, new)
  BY <1>1, <1>2 DEF Initialize
<1>4. new \in ClaimState
  BY <1>2 DEF ClaimState
<1>5. /\ new.phase = claim[c].phase /\ new.token = claim[c].token /\ new.marked = claim[c].marked
      /\ new.image = claim[c].image /\ new.zone = claim[c].zone /\ new.hash = claim[c].hash
      /\ new.inplace = claim[c].inplace
  BY <1>1, <1>2 DEF ClaimState
<1>6. ~Running(launch, c)
  BY <1>0 DEF Initialize, ClaimInv, Ordered
<1> QED BY <1>3, <1>4, <1>5, <1>6, WriteKeeps DEF Initialize

\* The core begins to delete the claim.
LEMMA DeleteClaimKeeps ==
    ASSUME IInv, NEW c \in Claims, DeleteClaim(c)
    PROVE  Keeps(c)
<1>0. Shapes
  BY DEF IInv
<1>1. PICK p \in ClaimState : p = claim[c]
  BY <1>0 DEF Shapes
<1>2. PICK new : new = [p EXCEPT !.deleting = TRUE]
  OBVIOUS
<1>3. Write(c, new) /\ ~Running(launch, c)
  BY <1>1, <1>2 DEF DeleteClaim
<1>4. new \in ClaimState
  BY <1>2 DEF ClaimState
<1>5. /\ new.phase = claim[c].phase /\ new.token = claim[c].token /\ new.marked = claim[c].marked
      /\ new.image = claim[c].image /\ new.zone = claim[c].zone /\ new.hash = claim[c].hash
      /\ new.inplace = claim[c].inplace
  BY <1>1, <1>2 DEF ClaimState
<1> QED BY <1>3, <1>4, <1>5, WriteKeeps DEF DeleteClaim

\* A write to other fields of the claim outdates copies only.
LEMMA TouchKeeps ==
    ASSUME IInv, NEW c \in Claims, Touch(c)
    PROVE  Keeps(c)
<1>0. Globals /\ Shapes /\ ClaimInv(c)
  BY DEF IInv
<1>1. /\ events < MaxEvents /\ events' = events + 1
      /\ stale' = stale \cup ({c} \X {"update", "finish"})
      /\ UNCHANGED <<templates, class, claim, vm, tokens, launch, update, finish,
                     attempts, unrecorded>>
  BY DEF Touch, Event
<1>2. \A d \in Claims \ {c} : SameClaim(d)
  BY <1>1 DEF SameClaim
<1>3. Globals' /\ UNCHANGED <<template, made>>
  BY <1>0, <1>1, NodeClaimsAssumption DEF Globals, templates
<1>4. Shapes'
  BY <1>0, <1>1 DEF Shapes
<1>5. stale \subseteq stale'
  BY <1>1
<1>6. Ordered(c)' /\ TokenGone(c)'
  BY <1>0, <1>1, <1>5 DEF ClaimInv, Ordered, TokenGone, Running, IsLaunched
<1>7. Applied(c)'
  BY <1>0, <1>1 DEF ClaimInv, Applied, IsLaunched, HasRules, InPool
<1>8. Built(c)'
  BY <1>0, <1>1, <1>3 DEF ClaimInv, Built, IsLaunched, ImageBetween
<1> QED BY <1>2, <1>3, <1>4, <1>6, <1>7, <1>8 DEF Keeps, ClaimInv

\* A claim that is gone outdates the copies of both controllers.
LEMMA TerminateKeeps ==
    ASSUME IInv, NEW c \in Claims, Terminate(c)
    PROVE  Keeps(c)
<1>0. Globals /\ Shapes /\ ClaimInv(c)
  BY DEF IInv
<1>1. /\ claim[c].deleting /\ vm' = [vm EXCEPT ![c] = None] /\ Write(c, GoneClaim)
      /\ UNCHANGED <<templates, class, tokens, launch, update, finish, attempts, unrecorded, events>>
  BY DEF Terminate
<1>2. NewClaim \in ClaimState /\ NewClaim.marked = FALSE /\ NewClaim.token = None /\ NewClaim.deleting = FALSE
  BY DEF NewClaim, ClaimState, InPlaceHashes, Pools
<1>3. /\ GoneClaim \in ClaimState /\ GoneClaim.phase = "gone" /\ GoneClaim.marked = FALSE
      /\ GoneClaim.token = None /\ GoneClaim.deleting = FALSE
  <2>1. PICK p \in ClaimState : p = NewClaim
    BY <1>2
  <2>2. PICK new : new = [p EXCEPT !.phase = "gone"]
    OBVIOUS
  <2>3. new \in ClaimState /\ new.phase = "gone" /\ new.marked = p.marked /\ new.token = p.token /\ new.deleting = p.deleting
    BY <2>2 DEF ClaimState
  <2> QED BY <1>2, <2>1, <2>2, <2>3 DEF GoneClaim
<1>4. /\ claim' \in [Claims -> ClaimState] /\ claim'[c] = GoneClaim
      /\ stale' \subseteq Claims \X {"update", "finish"}
      /\ \A d \in Claims \ {c} : claim'[d] = claim[d]
      /\ \A d \in Claims \ {c}, k \in {"update", "finish"} : <<d, k>> \in stale' <=> <<d, k>> \in stale
      /\ GoneClaim # claim[c] => <<c, "update">> \in stale' /\ <<c, "finish">> \in stale'
  BY <1>0, <1>1, <1>3, WriteEffect
<1>5. <<c, "update">> \in stale' /\ <<c, "finish">> \in stale'
  BY <1>1, <1>3, <1>4
<1>6. launch[c].pc = "idle"
  BY <1>0, <1>1 DEF ClaimInv, Ordered, Running
<1>7. \A d \in Claims \ {c} : SameClaim(d)
  BY <1>0, <1>1, <1>4 DEF SameClaim, Shapes
<1>8. Globals' /\ UNCHANGED <<template, made>>
  BY <1>0, <1>1 DEF Globals, templates
<1>9. Shapes'
  BY <1>0, <1>1, <1>4 DEF Shapes
<1>10. Ordered(c)'
  BY <1>1, <1>3, <1>4, <1>5, <1>6 DEF Ordered, Running, IsLaunched
<1>11. TokenGone(c)'
  BY <1>1, <1>3, <1>4, <1>5, <1>6 DEF TokenGone, Running, IsLaunched
<1>12. Applied(c)'
  BY <1>0, <1>1, <1>3, <1>4, <1>6 DEF ClaimInv, Applied, IsLaunched
<1>13. Built(c)'
  BY <1>1, <1>3, <1>4, <1>6 DEF Built, IsLaunched
<1> QED BY <1>7, <1>8, <1>9, <1>10, <1>11, <1>12, <1>13 DEF Keeps, ClaimInv

-------------------------------------------------------------------------------
(* nodeclaim.inplaceupdate.                                                *)

\* An update begins with a copy that is not outdated.
LEMMA UpdateBeginKeeps ==
    ASSUME IInv, NEW c \in Claims, UpdateBegin(c)
    PROVE  Keeps(c)
<1>0. Globals /\ Shapes /\ ClaimInv(c)
  BY DEF IInv
<1> DEFINE u == [pc |-> "tags", spec |-> class.spec, oldPool |-> claim[c].pool,
                 cloudinit |-> vm[c].cloudinit, ok |-> TRUE]
<1>1. /\ update[c].pc = "idle" /\ claim[c].phase = "launched"
      /\ update' = [update EXCEPT ![c] = u] /\ stale' = stale \ {<<c, "update">>}
      /\ UNCHANGED <<templates, class, claim, vm, tokens, launch, finish, attempts, unrecorded, events>>
  BY DEF UpdateBegin, Running
<1>2. claim[c] \in ClaimState /\ vm[c] \in VMState
  BY <1>0, <1>1 DEF Shapes, ClaimInv, Ordered, IsLaunched
<1>3. u \in Updating
  BY <1>0, <1>2 DEF Updating, Globals, ClassState, ClaimState, VMState
<1>4. update' \in [Claims -> Updating \cup {Idle}] /\ update'[c].pc = "tags"
  BY <1>0, <1>1, <1>3 DEF Shapes
<1>5. \A d \in Claims \ {c} : SameClaim(d)
  BY <1>0, <1>1 DEF SameClaim, Shapes
<1>6. Globals' /\ UNCHANGED <<template, made>>
  BY <1>0, <1>1 DEF Globals, templates
<1>7. Shapes'
  BY <1>0, <1>1, <1>4 DEF Shapes
<1>8. Ordered(c)'
  BY <1>0, <1>1, <1>4 DEF ClaimInv, Ordered, Running, IsLaunched
<1>9. TokenGone(c)'
  BY <1>0, <1>1 DEF ClaimInv, TokenGone, Running, IsLaunched
<1>10. Applied(c)'
  BY <1>0, <1>1, <1>4 DEF ClaimInv, Applied, IsLaunched, HasRules, InPool
<1>11. Built(c)'
  BY <1>0, <1>1, <1>6 DEF ClaimInv, Built, IsLaunched, ImageBetween
<1> QED BY <1>5, <1>6, <1>7, <1>8, <1>9, <1>10, <1>11 DEF Keeps, ClaimInv

\* The record of an update after one of its parts.
LEMMA AfterEffect ==
    ASSUME Shapes, NEW c \in Claims, update[c] \in Updating,
           NEW pc \in {"rules", "pool", "patch"}, NEW ok \in BOOLEAN, update' = After(c, pc, ok)
    PROVE  /\ update' \in [Claims -> Updating \cup {Idle}]
           /\ \A d \in Claims \ {c} : update'[d] = update[d]
           /\ update'[c].pc = pc /\ update'[c].spec = update[c].spec
           /\ update'[c].ok => update[c].ok /\ ok
<1>1. PICK u \in Updating : u = update[c]
  OBVIOUS
<1>2. PICK b \in BOOLEAN : b = (u.ok /\ ok)
  BY DEF Updating
<1>3. PICK new : new = [u EXCEPT !.pc = pc, !.ok = b]
  OBVIOUS
<1>4. new \in Updating /\ new.pc = pc /\ new.ok = b /\ new.spec = u.spec
  BY <1>3 DEF Updating
<1>5. update' = [update EXCEPT ![c] = new]
  <2>1. update' = [update EXCEPT ![c].pc = pc, ![c].ok = update[c].ok /\ ok]
    BY DEF After
  <2>2. update' = [update EXCEPT ![c].pc = pc, ![c].ok = b]
    BY <1>1, <1>2, <2>1, Zenon
  <2>3. DOMAIN update' = Claims /\ \A d \in Claims \ {c} : update'[d] = update[d]
    BY <2>2 DEF Shapes
  <2>4. update'[c] = new
    BY <1>1, <1>3, <2>2 DEF Shapes
  <2> QED BY <2>2, <2>3, <2>4 DEF Shapes
<1> QED BY <1>1, <1>2, <1>4, <1>5 DEF Shapes

\* What one of the three updates may do to the VM, to keep the invariant.
LEMMA UpdatePartKeeps ==
    ASSUME IInv, NEW c \in Claims, update[c].pc \in {"tags", "rules", "pool"},
           NEW pc \in {"rules", "pool", "patch"}, NEW ok \in BOOLEAN, update' = After(c, pc, ok),
           NEW v \in VMState \cup {None}, vm' = [vm EXCEPT ![c] = v],
           v # None <=> vm[c] # None,
           vm[c] # None => v.built = vm[c].built /\ v.image = vm[c].image,
           unrecorded' = unrecorded \cup {c},
           events' = events \/ (events < MaxEvents /\ events' = events + 1),
           UNCHANGED <<templates, class, claim, tokens, launch, finish, stale, attempts>>,
           pc \in {"pool", "patch"} /\ update[c].ok /\ ok /\ vm[c] # None /\ IsLaunched(c)
               => v.rules = update[c].spec.rules,
           pc = "patch" /\ update[c].ok /\ ok /\ vm[c] # None /\ IsLaunched(c)
               => (update[c].spec.pool # None => v.pool = update[c].spec.pool)
    PROVE  Keeps(c)
<1>0. Globals /\ Shapes /\ ClaimInv(c)
  BY DEF IInv
<1>1. update[c] \in Updating
  BY <1>0 DEF Shapes, Idle
<1>2. /\ update' \in [Claims -> Updating \cup {Idle}]
      /\ \A d \in Claims \ {c} : update'[d] = update[d]
      /\ update'[c].pc = pc /\ update'[c].spec = update[c].spec
      /\ update'[c].ok => update[c].ok /\ ok
  BY <1>0, <1>1, AfterEffect
<1>3. claim[c].phase # "new" /\ launch[c].pc = "idle"
  BY <1>0 DEF ClaimInv, Ordered, Running
<1>4. vm'[c] = v /\ \A d \in Claims \ {c} : vm'[d] = vm[d]
  BY <1>0 DEF Shapes
<1>5. \A d \in Claims \ {c} : SameClaim(d)
  BY <1>2, <1>4 DEF SameClaim
<1>6. Globals' /\ UNCHANGED <<template, made>>
  BY <1>0, NodeClaimsAssumption DEF Globals, templates
<1>7. Shapes'
  BY <1>0, <1>2 DEF Shapes
<1>8. Ordered(c)'
  BY <1>0, <1>2, <1>3, <1>4 DEF ClaimInv, Ordered, Running, IsLaunched
<1>9. TokenGone(c)'
  BY <1>0 DEF ClaimInv, TokenGone, Running, IsLaunched
<1>10. Applied(c)'
  BY <1>0, <1>2, <1>3, <1>4 DEF ClaimInv, Ordered, Applied, IsLaunched, HasRules, InPool
<1>11. Built(c)'
  BY <1>0, <1>3, <1>4, <1>6 DEF ClaimInv, Ordered, Built, IsLaunched, ImageBetween
<1> QED BY <1>5, <1>6, <1>7, <1>8, <1>9, <1>10, <1>11 DEF Keeps, ClaimInv

\* The tags are not in the hash; from here on the update is unrecorded.
LEMMA UpdateTagsKeeps ==
    ASSUME IInv, NEW c \in Claims, UpdateTags(c)
    PROVE  Keeps(c)
<1>0. Shapes
  BY DEF IInv
<1>1. update[c].pc = "tags" /\ update[c] \in Updating
  BY <1>0 DEF UpdateTags, Shapes, Idle
<1>2. PICK ok \in BOOLEAN : update' = After(c, "rules", ok)
  BY DEF UpdateTags
<1>3. /\ events' = events \/ (events < MaxEvents /\ events' = events + 1)
      /\ unrecorded' = unrecorded \cup {c}
      /\ UNCHANGED <<templates, class, claim, tokens, launch, finish, stale, attempts>>
  BY DEF UpdateTags, Event
<1>4. CASE vm' = vm
  <2>1. vm[c] \in VMState \cup {None} /\ vm' = [vm EXCEPT ![c] = vm[c]]
    BY <1>0, <1>4 DEF Shapes
  <2> QED BY <1>1, <1>2, <1>3, <2>1, UpdatePartKeeps
<1>5. CASE vm' # vm
  <2>1. PICK m \in VMState : m = vm[c]
    BY <1>0, <1>5 DEF UpdateTags, Shapes
  <2>2. PICK x \in Tags, b \in BOOLEAN : x = update[c].spec.tags /\ b = update[c].cloudinit
    BY <1>1 DEF Updating, Tags
  <2>3. vm' = [vm EXCEPT ![c].tags = x, ![c].cloudinit = b]
    BY <1>5, <2>2 DEF UpdateTags
  <2>4. PICK v : v = [m EXCEPT !.tags = x, !.cloudinit = b]
    OBVIOUS
  <2>5. vm' = [vm EXCEPT ![c] = v]
    BY <1>0, <2>1, <2>3, <2>4 DEF Shapes
  <2>6. v \in VMState /\ v.built = m.built /\ v.image = m.image
    BY <2>4 DEF VMState, Tags
  <2>7. v # None /\ vm[c] # None
    BY <2>1, <2>6, NoneAssumption
  <2> QED BY <1>1, <1>2, <1>3, <2>1, <2>5, <2>6, <2>7, UpdatePartKeeps
<1> QED BY <1>4, <1>5

\* The rules are those of the copy of the class, or the update is not ok.
LEMMA UpdateFirewallRulesKeeps ==
    ASSUME IInv, NEW c \in Claims, UpdateFirewallRules(c)
    PROVE  Keeps(c)
<1>0. Shapes /\ ClaimInv(c)
  BY DEF IInv
<1>1. update[c].pc = "rules" /\ update[c] \in Updating
  BY <1>0 DEF UpdateFirewallRules, Shapes, Idle
<1>2. /\ unrecorded' = unrecorded \cup {c}
      /\ UNCHANGED <<templates, class, claim, tokens, launch, finish, stale, attempts>>
  BY <1>0, <1>1 DEF UpdateFirewallRules, ClaimInv, Applied
<1>3. CASE /\ vm[c] # None /\ vm' = [vm EXCEPT ![c].rules = update[c].spec.rules]
           /\ update' = After(c, "pool", TRUE) /\ UNCHANGED events
  <2>1. PICK m \in VMState : m = vm[c]
    BY <1>0, <1>3 DEF Shapes
  <2>2. PICK x \in {spec.rules : spec \in Specs} : x = update[c].spec.rules
    BY <1>1 DEF Updating
  <2>3. PICK v : v = [m EXCEPT !.rules = x]
    OBVIOUS
  <2>4. vm' = [vm EXCEPT ![c] = v]
    BY <1>0, <1>3, <2>1, <2>2, <2>3 DEF Shapes
  <2>5. v \in VMState /\ v.built = m.built /\ v.image = m.image /\ v.rules = x
    BY <2>3 DEF VMState
  <2>6. v # None
    BY <2>5, NoneAssumption
  <2> QED BY <1>1, <1>2, <1>3, <2>1, <2>2, <2>4, <2>5, <2>6, UpdatePartKeeps
<1>4. CASE /\ UNCHANGED vm /\ update' = After(c, "pool", FALSE)
           /\ events' = events \/ (events < MaxEvents /\ events' = events + 1)
  <2>1. vm[c] \in VMState \cup {None} /\ vm' = [vm EXCEPT ![c] = vm[c]]
    BY <1>0, <1>4 DEF Shapes
  <2> QED BY <1>1, <1>2, <1>4, <2>1, UpdatePartKeeps
<1> QED BY <1>3, <1>4 DEF UpdateFirewallRules, Event

\* The VM joins the pool of the copy of the class, or the update is not ok.
LEMMA UpdatePoolMembershipKeeps ==
    ASSUME IInv, NEW c \in Claims, UpdatePoolMembership(c)
    PROVE  Keeps(c)
<1>0. Shapes /\ ClaimInv(c)
  BY DEF IInv
<1> DEFINE new == update[c].spec.pool
           free == new = None \/ Left(c) \in {None, new}
<1>1. update[c].pc = "pool" /\ update[c] \in Updating
  BY <1>0 DEF UpdatePoolMembership, Shapes, Idle
<1>2. /\ unrecorded' = unrecorded \cup {c}
      /\ UNCHANGED <<templates, class, claim, tokens, launch, finish, stale, attempts>>
  BY <1>0, <1>1 DEF UpdatePoolMembership, ClaimInv, Applied
<1>3. ASSUME vm[c] # None, NEW q \in Pools, vm' = [vm EXCEPT ![c].pool = q]
      PROVE  \E v \in VMState : /\ vm' = [vm EXCEPT ![c] = v] /\ v # None
                                /\ v.built = vm[c].built /\ v.image = vm[c].image
                                /\ v.rules = vm[c].rules /\ v.pool = q
  <2>1. PICK m \in VMState : m = vm[c]
    BY <1>0, <1>3 DEF Shapes
  <2>2. PICK v : v = [m EXCEPT !.pool = q]
    OBVIOUS
  <2>3. vm' = [vm EXCEPT ![c] = v]
    BY <1>0, <1>3, <2>1, <2>2 DEF Shapes
  <2>4. v \in VMState /\ v.built = m.built /\ v.image = m.image /\ v.rules = m.rules /\ v.pool = q
    BY <2>2 DEF VMState, Pools
  <2> QED BY <2>1, <2>3, <2>4, NoneAssumption
<1>4. CASE vm[c] # None
  <2>1. vm[c].pool \in Pools /\ Left(c) \in Pools
    BY <1>0, <1>4 DEF Shapes, VMState, Pools, Left
  <2>2. new \in Pools
    BY <1>1 DEF Updating, Pools
  <2>3. update[c].ok /\ IsLaunched(c) => vm[c].rules = update[c].spec.rules
    BY <1>0, <1>1 DEF ClaimInv, Applied, HasRules
  <2>4. CASE /\ vm' = [vm EXCEPT ![c].pool = IF free /\ new # None THEN new ELSE Left(c)]
             /\ update' = After(c, "patch", free) /\ UNCHANGED events
    <3>1. PICK q \in Pools : q = IF free /\ new # None THEN new ELSE Left(c)
      BY <2>1, <2>2
    <3>2. PICK ok \in BOOLEAN : ok = free
      OBVIOUS
    <3>3. ok => (new # None => q = new)
      BY <3>1, <3>2
    <3>4. vm' = [vm EXCEPT ![c].pool = q] /\ update' = After(c, "patch", ok)
      BY <2>4, <3>1, <3>2, Zenon
    <3>5. PICK v \in VMState : /\ vm' = [vm EXCEPT ![c] = v] /\ v # None
                               /\ v.built = vm[c].built /\ v.image = vm[c].image
                               /\ v.rules = vm[c].rules /\ v.pool = q
      BY <1>3, <1>4, <3>4
    <3> QED BY <1>1, <1>2, <1>4, <2>3, <2>4, <3>3, <3>4, <3>5, UpdatePartKeeps
  <2>5. CASE /\ \E q \in {vm[c].pool, Left(c)} : vm' = [vm EXCEPT ![c].pool = q]
             /\ events < MaxEvents /\ events' = events + 1
             /\ update' = After(c, "patch", FALSE)
    <3>1. PICK q \in Pools : vm' = [vm EXCEPT ![c].pool = q]
      BY <2>1, <2>5
    <3>2. PICK v \in VMState : /\ vm' = [vm EXCEPT ![c] = v] /\ v # None
                               /\ v.built = vm[c].built /\ v.image = vm[c].image
                               /\ v.rules = vm[c].rules /\ v.pool = q
      BY <1>3, <1>4, <3>1
    <3> QED BY <1>1, <1>2, <1>4, <2>5, <3>2, UpdatePartKeeps
  <2> QED BY <1>4, <2>4, <2>5 DEF UpdatePoolMembership, Event
<1>5. CASE vm[c] = None
  <2>1. PICK ok \in BOOLEAN : update' = After(c, "patch", ok)
    BY <1>5 DEF UpdatePoolMembership
  <2>2. UNCHANGED <<vm, events>>
    BY <1>5 DEF UpdatePoolMembership
  <2>3. None \in VMState \cup {None} /\ vm' = [vm EXCEPT ![c] = None]
    BY <1>0, <1>5, <2>2 DEF Shapes
  <2> QED BY <1>1, <1>2, <1>5, <2>1, <2>2, <2>3, UpdatePartKeeps
<1> QED BY <1>4, <1>5

\* The annotation is written only when it is true of the VM.
LEMMA UpdateDoneKeeps ==
    ASSUME IInv, NEW c \in Claims, UpdateDone(c)
    PROVE  Keeps(c)
<1>0. Globals /\ Shapes /\ ClaimInv(c)
  BY DEF IInv
<1>1. /\ update[c].pc = "patch" /\ update' = [update EXCEPT ![c] = Idle]
      /\ UNCHANGED <<templates, class, vm, tokens, launch, finish, attempts, events>>
  BY DEF UpdateDone
<1>2. update[c] \in Updating /\ claim[c].phase # "new" /\ launch[c].pc = "idle"
  BY <1>0, <1>1 DEF Shapes, Idle, ClaimInv, Ordered, Running
<1>3. update'[c].pc = "idle" /\ \A d \in Claims \ {c} : update'[d] = update[d]
  BY <1>0, <1>1 DEF Shapes, Idle
<1>4. Globals' /\ UNCHANGED <<template, made>>
  BY <1>0, <1>1 DEF Globals, templates
<1>5. CASE Records(c)
  <2>1. PICK p \in ClaimState : p = claim[c]
    BY <1>0 DEF Shapes
  <2>2. PICK h \in InPlaceHashes, l \in Pools : h = InPlaceHash(update[c].spec) /\ l = update[c].spec.pool
    BY <1>2 DEF Updating, InPlaceHashes, Pools
  <2>3. PICK new : new = [p EXCEPT !.inplace = h, !.pool = l]
    OBVIOUS
  <2>4. /\ new \in ClaimState /\ new.phase = p.phase /\ new.token = p.token
        /\ new.marked = p.marked /\ new.image = p.image /\ new.zone = p.zone
        /\ new.hash = p.hash /\ new.inplace = h /\ new.deleting = p.deleting
    BY <2>3 DEF ClaimState
  <2>5. Write(c, new) /\ unrecorded' = unrecorded \ {c}
    BY <1>5, <2>1, <2>2, <2>3 DEF UpdateDone, RecordedHash
  <2>6. /\ claim' \in [Claims -> ClaimState] /\ claim'[c] = new
        /\ stale' \subseteq Claims \X {"update", "finish"}
        /\ \A d \in Claims \ {c} : claim'[d] = claim[d]
        /\ \A d \in Claims \ {c}, k \in {"update", "finish"} : <<d, k>> \in stale' <=> <<d, k>> \in stale
        /\ stale \subseteq stale'
    BY <1>0, <2>4, <2>5, WriteEffect
  <2>7. \A d \in Claims \ {c} : SameClaim(d)
    BY <1>1, <1>3, <2>5, <2>6 DEF SameClaim
  <2>8. Shapes'
    BY <1>0, <1>1, <2>5, <2>6 DEF Shapes
  <2>9. Ordered(c)'
    BY <1>0, <1>1, <1>2, <1>3, <2>1, <2>4, <2>6 DEF ClaimInv, Ordered, Running, IsLaunched
  <2>10. TokenGone(c)'
    BY <1>0, <1>1, <1>2, <2>1, <2>4, <2>6 DEF ClaimInv, TokenGone, Running, IsLaunched
  <2>11. Applied(c)'
    <3>1. IsLaunched(c) /\ update[c].ok /\ update[c].spec \in Specs
      BY <1>0, <1>1, <1>2, <1>5 DEF Records, ClaimInv, Ordered, Running, Updating
    <3>2. HasRules(c, update[c].spec) /\ InPool(c, update[c].spec)
      BY <1>0, <1>1, <3>1 DEF ClaimInv, Applied
    <3>3. /\ InPlaceHash(update[c].spec) = claim'[c].inplace
          /\ vm'[c].rules = update[c].spec.rules
          /\ update[c].spec.pool # None => vm'[c].pool = update[c].spec.pool
      BY <1>1, <2>2, <2>4, <2>6, <3>2 DEF HasRules, InPool
    <3> QED BY <1>1, <1>2, <1>3, <3>1, <3>3 DEF Applied, HasRules, InPool
  <2>12. Built(c)'
    BY <1>0, <1>1, <1>2, <1>4, <2>1, <2>4, <2>6 DEF ClaimInv, Built, IsLaunched, ImageBetween
  <2> QED BY <1>4, <2>7, <2>8, <2>9, <2>10, <2>11, <2>12 DEF Keeps, ClaimInv
<1>6. CASE ~Records(c)
  <2>1. UNCHANGED <<claim, stale, unrecorded>>
    BY <1>6 DEF UpdateDone
  <2>2. \A d \in Claims \ {c} : SameClaim(d)
    BY <1>1, <1>3, <2>1 DEF SameClaim
  <2>3. Shapes'
    BY <1>0, <1>1, <2>1 DEF Shapes
  <2>4. Ordered(c)'
    BY <1>0, <1>1, <1>3, <2>1 DEF ClaimInv, Ordered, Running, IsLaunched
  <2>5. TokenGone(c)'
    BY <1>0, <1>1, <2>1 DEF ClaimInv, TokenGone, Running, IsLaunched
  <2>6. Applied(c)'
    BY <1>0, <1>1, <1>2, <1>3, <2>1 DEF ClaimInv, Applied, IsLaunched, HasRules, InPool
  <2>7. Built(c)'
    BY <1>0, <1>1, <1>2, <1>4, <2>1 DEF ClaimInv, Built, IsLaunched, ImageBetween
  <2> QED BY <1>4, <2>2, <2>3, <2>4, <2>5, <2>6, <2>7 DEF Keeps, ClaimInv
<1> QED BY <1>5, <1>6

-------------------------------------------------------------------------------
(* nodeclaim.lifecycle.                                                    *)

\* A step of the reconcile that writes nothing to the claim, and to the VM
\* nothing that the invariant is about, except the token.
LEMMA FinishPartKeeps ==
    ASSUME IInv, NEW c \in Claims, NEW f \in Finishing \cup {Idle},
           finish' = [finish EXCEPT ![c] = f], f.pc # "idle" => claim[c].phase # "new",
           f.pc # "idle" /\ <<c, "finish">> \notin stale' => IsLaunched(c),
           f.pc = "patch" => <<c, claim[c].token>> \notin tokens',
           stale' \subseteq Claims \X {"update", "finish"},
           \A d \in Claims, k \in {"update", "finish"} :
               <<d, k>> # <<c, "finish">> => (<<d, k>> \in stale' <=> <<d, k>> \in stale),
           tokens' \subseteq tokens,
           \A d \in Claims \ {c} : \A n : <<d, n>> \in tokens' <=> <<d, n>> \in tokens,
           NEW v \in VMState \cup {None}, vm' = [vm EXCEPT ![c] = v], v # None <=> vm[c] # None,
           vm[c] # None => /\ v.built = vm[c].built /\ v.image = vm[c].image
                           /\ v.rules = vm[c].rules /\ v.pool = vm[c].pool,
           v = vm[c] \/ claim[c].phase # "new",
           events' = events \/ (events < MaxEvents /\ events' = events + 1),
           UNCHANGED <<templates, class, claim, launch, update, attempts, unrecorded>>
    PROVE  Keeps(c)
<1>0. Globals /\ Shapes /\ ClaimInv(c)
  BY DEF IInv
<1>1. vm'[c] = v /\ \A d \in Claims \ {c} : vm'[d] = vm[d]
  BY <1>0 DEF Shapes
<1>2. finish'[c] = f /\ \A d \in Claims \ {c} : finish'[d] = finish[d]
  BY <1>0 DEF Shapes
<1>3. \A d \in Claims \ {c} : SameClaim(d)
  <2> SUFFICES ASSUME NEW d \in Claims \ {c} PROVE SameClaim(d)
    OBVIOUS
  <2>1. \A n : <<d, n>> \in tokens' <=> <<d, n>> \in tokens
    OBVIOUS
  <2>2. \A k \in {"update", "finish"} : <<d, k>> \in stale' <=> <<d, k>> \in stale
    OBVIOUS
  <2> QED BY <1>1, <1>2, <2>1, <2>2 DEF SameClaim
<1>4. Globals' /\ UNCHANGED <<template, made>>
  BY <1>0, NodeClaimsAssumption DEF Globals, templates
<1>5. Shapes'
  BY <1>0 DEF Shapes
<1>6. <<c, "update">> \in stale' <=> <<c, "update">> \in stale
  OBVIOUS
<1>7. Ordered(c)'
  BY <1>0, <1>1, <1>2, <1>6 DEF ClaimInv, Ordered, Running, IsLaunched
<1>8. TokenGone(c)'
  BY <1>0, <1>2 DEF ClaimInv, TokenGone, Running, IsLaunched
<1>9. Applied(c)'
  BY <1>0, <1>1 DEF ClaimInv, Ordered, Applied, IsLaunched, HasRules, InPool
<1>10. Built(c)'
  BY <1>0, <1>1, <1>4 DEF ClaimInv, Ordered, Built, IsLaunched, ImageBetween
<1> QED BY <1>3, <1>4, <1>5, <1>7, <1>8, <1>9, <1>10 DEF Keeps, ClaimInv

\* The lifecycle controller begins with a copy that is not outdated.
LEMMA FinishBeginKeeps ==
    ASSUME IInv, NEW c \in Claims, FinishBegin(c)
    PROVE  Keeps(c)
<1>0. Shapes /\ ClaimInv(c)
  BY DEF IInv
<1>1. /\ claim[c].phase = "launched"
      /\ stale' = stale \ {<<c, "finish">>}
      /\ UNCHANGED <<templates, class, claim, vm, tokens, launch, update, attempts,
                     unrecorded, events>>
  BY DEF FinishBegin
<1>2. PICK f : /\ f = [pc |-> IF class.spec.cdrom /\ vm[c].cloudinit THEN "detach" ELSE "token",
                       tags |-> vm[c].tags]
               /\ finish' = [finish EXCEPT ![c] = f]
  BY DEF FinishBegin
<1>3. vm[c] \in VMState
  BY <1>0, <1>1 DEF Shapes, ClaimInv, Ordered, IsLaunched
<1>4. f \in Finishing /\ f.pc # "patch" /\ f.pc # "idle"
  BY <1>2, <1>3 DEF Finishing, VMState, Tags
<1>5. vm' = [vm EXCEPT ![c] = vm[c]] /\ vm[c] \in VMState \cup {None}
  BY <1>0, <1>1 DEF Shapes
<1>6. /\ stale' \subseteq Claims \X {"update", "finish"}
      /\ \A d \in Claims, k \in {"update", "finish"} :
               <<d, k>> # <<c, "finish">> => (<<d, k>> \in stale' <=> <<d, k>> \in stale)
  BY <1>0, <1>1 DEF Shapes
<1> QED BY <1>1, <1>2, <1>4, <1>5, <1>6, FinishPartKeeps DEF IsLaunched

\* Unmounting the ISO leaves rules, pool, image and static fields of the VM.
LEMMA DetachKeeps ==
    ASSUME IInv, NEW c \in Claims, Detach(c)
    PROVE  Keeps(c)
<1>0. Shapes /\ ClaimInv(c)
  BY DEF IInv
<1>1. /\ finish[c].pc = "detach" /\ vm[c] # None
      /\ vm' = [vm EXCEPT ![c].iso = FALSE, ![c].cloudinit = FALSE, ![c].tags = finish[c].tags]
      /\ finish' = [finish EXCEPT ![c].pc = "token"]
      /\ UNCHANGED <<templates, class, claim, tokens, launch, update, stale, attempts,
                     unrecorded, events>>
  BY DEF Detach
<1>2. PICK g \in Finishing, m \in VMState, x \in Tags : g = finish[c] /\ m = vm[c] /\ x = finish[c].tags
  BY <1>0, <1>1 DEF Shapes, Idle, Finishing
<1>3. PICK f, v : f = [g EXCEPT !.pc = "token"] /\ v = [m EXCEPT !.iso = FALSE, !.cloudinit = FALSE, !.tags = x]
  OBVIOUS
<1>4. f \in Finishing /\ f.pc = "token"
  BY <1>3 DEF Finishing
<1>5. /\ v \in VMState /\ v.built = m.built /\ v.image = m.image
      /\ v.rules = m.rules /\ v.pool = m.pool
  BY <1>3 DEF VMState, Tags
<1>6. finish' = [finish EXCEPT ![c] = f]
  BY <1>0, <1>1, <1>2, <1>3 DEF Shapes
<1>7. vm' = [vm EXCEPT ![c] = v]
  BY <1>0, <1>1, <1>2, <1>3 DEF Shapes
<1>8. v # None
  BY <1>5, NoneAssumption
<1>9. /\ claim[c].phase # "new" /\ (<<c, "finish">> \notin stale => IsLaunched(c))
      /\ stale \subseteq Claims \X {"update", "finish"}
  BY <1>0, <1>1 DEF Shapes, ClaimInv, Ordered, Running
<1> QED BY <1>1, <1>2, <1>4, <1>5, <1>6, <1>7, <1>8, <1>9, FinishPartKeeps

\* The token on record is gone before the patch.
LEMMA DeleteTokenKeeps ==
    ASSUME IInv, NEW c \in Claims, DeleteToken(c)
    PROVE  Keeps(c)
<1>0. Shapes /\ ClaimInv(c)
  BY DEF IInv
<1>1. /\ finish[c].pc = "token" /\ tokens' = tokens \ {<<c, claim[c].token>>}
      /\ finish' = [finish EXCEPT ![c].pc = "patch"]
      /\ UNCHANGED <<templates, class, claim, vm, launch, update, stale, attempts,
                     unrecorded, events>>
  BY DEF DeleteToken
<1>2. PICK g \in Finishing : g = finish[c]
  BY <1>0, <1>1 DEF Shapes, Idle
<1>3. PICK f : f = [g EXCEPT !.pc = "patch"]
  OBVIOUS
<1>4. f \in Finishing /\ f.pc = "patch"
  BY <1>3 DEF Finishing
<1>5. finish' = [finish EXCEPT ![c] = f]
  BY <1>0, <1>1, <1>2, <1>3 DEF Shapes
<1>6. vm' = [vm EXCEPT ![c] = vm[c]] /\ vm[c] \in VMState \cup {None}
  BY <1>0, <1>1 DEF Shapes
<1>7. /\ claim[c].phase # "new" /\ (<<c, "finish">> \notin stale => IsLaunched(c))
      /\ stale \subseteq Claims \X {"update", "finish"}
  BY <1>0, <1>1 DEF Shapes, ClaimInv, Ordered, Running
<1>8. /\ tokens' \subseteq tokens /\ <<c, claim[c].token>> \notin tokens'
      /\ \A d \in Claims \ {c} : \A n : <<d, n>> \in tokens' <=> <<d, n>> \in tokens
  BY <1>1
<1> QED BY <1>1, <1>4, <1>5, <1>6, <1>7, <1>8, FinishPartKeeps

\* A failed request ends the reconcile.
LEMMA FinishFailsKeeps ==
    ASSUME IInv, NEW c \in Claims, FinishFails(c)
    PROVE  Keeps(c)
<1>0. Shapes
  BY DEF IInv
<1>1. /\ events' = events \/ (events < MaxEvents /\ events' = events + 1)
      /\ finish' = [finish EXCEPT ![c] = [Idle EXCEPT !.pc = FinishFailsThen]]
      /\ UNCHANGED <<templates, class, claim, vm, tokens, launch, update, stale, attempts,
                     unrecorded>>
  BY DEF FinishFails, Event
<1>2. PICK f : f = [Idle EXCEPT !.pc = FinishFailsThen]
  OBVIOUS
<1>3. f = Idle /\ f.pc = "idle"
  BY <1>2 DEF Idle, FinishFailsThen
<1>4. finish' = [finish EXCEPT ![c] = f]
  BY <1>1, <1>2
<1>5. vm' = [vm EXCEPT ![c] = vm[c]] /\ vm[c] \in VMState \cup {None}
  BY <1>0, <1>1 DEF Shapes
<1>6. stale \subseteq Claims \X {"update", "finish"}
  BY <1>0 DEF Shapes
<1> QED BY <1>1, <1>3, <1>4, <1>5, <1>6, FinishPartKeeps

\* The mark is set only on the claim that was read, whose token is gone.
LEMMA FinishDoneKeeps ==
    ASSUME IInv, NEW c \in Claims, FinishDone(c)
    PROVE  Keeps(c)
<1>0. Globals /\ Shapes /\ ClaimInv(c)
  BY DEF IInv
<1>1. /\ finish[c].pc = "patch" /\ finish' = [finish EXCEPT ![c] = Idle]
      /\ UNCHANGED <<templates, class, vm, tokens, launch, update, attempts, unrecorded, events>>
  BY DEF FinishDone
<1>2. finish'[c].pc = "idle" /\ \A d \in Claims \ {c} : finish'[d] = finish[d]
  BY <1>0, <1>1 DEF Shapes, Idle
<1>3. CASE <<c, "finish">> \in stale
  <2>1. UNCHANGED <<claim, stale>>
    BY <1>3 DEF FinishDone
  <2>2. vm' = [vm EXCEPT ![c] = vm[c]] /\ vm[c] \in VMState \cup {None}
    BY <1>0, <1>1 DEF Shapes
  <2>3. stale \subseteq Claims \X {"update", "finish"}
    BY <1>0 DEF Shapes
  <2>4. Idle.pc = "idle"
    BY DEF Idle
  <2> QED BY <1>1, <2>1, <2>2, <2>3, <2>4, FinishPartKeeps
<1>4. CASE <<c, "finish">> \notin stale
  <2>1. PICK p \in ClaimState : p = claim[c]
    BY <1>0 DEF Shapes
  <2>2. PICK new : new = [p EXCEPT !.marked = TRUE]
    OBVIOUS
  <2>3. /\ new \in ClaimState /\ new.phase = p.phase /\ new.token = p.token
        /\ new.marked = TRUE /\ new.image = p.image /\ new.zone = p.zone
        /\ new.hash = p.hash /\ new.inplace = p.inplace /\ new.deleting = p.deleting
    BY <2>2 DEF ClaimState
  <2>4. Write(c, new)
    BY <1>4, <2>1, <2>2 DEF FinishDone
  <2>5. /\ claim' \in [Claims -> ClaimState] /\ claim'[c] = new
        /\ stale' \subseteq Claims \X {"update", "finish"}
        /\ \A d \in Claims \ {c} : claim'[d] = claim[d]
        /\ \A d \in Claims \ {c}, k \in {"update", "finish"} : <<d, k>> \in stale' <=> <<d, k>> \in stale
        /\ stale \subseteq stale'
    BY <1>0, <2>3, <2>4, WriteEffect
  <2>6. IsLaunched(c) /\ <<c, claim[c].token>> \notin tokens
    BY <1>0, <1>1, <1>4 DEF ClaimInv, Ordered, TokenGone, Running
  <2>7. \A d \in Claims \ {c} : SameClaim(d)
    BY <1>1, <1>2, <2>5 DEF SameClaim
  <2>8. Globals' /\ UNCHANGED <<template, made>>
    BY <1>0, <1>1 DEF Globals, templates
  <2>9. Shapes'
    BY <1>0, <1>1, <2>5 DEF Shapes
  <2>10. Ordered(c)'
    BY <1>0, <1>1, <1>2, <2>1, <2>3, <2>5 DEF ClaimInv, Ordered, Running, IsLaunched
  <2>11. TokenGone(c)'
    BY <1>0, <1>1, <1>2, <2>1, <2>3, <2>5, <2>6 DEF ClaimInv, TokenGone, Running, IsLaunched
  <2>12. Applied(c)'
    BY <1>0, <1>1, <2>1, <2>3, <2>5 DEF ClaimInv, Applied, IsLaunched, HasRules, InPool
  <2>13. Built(c)'
    BY <1>0, <1>1, <2>1, <2>3, <2>5, <2>8 DEF ClaimInv, Built, IsLaunched, ImageBetween
  <2> QED BY <2>7, <2>8, <2>9, <2>10, <2>11, <2>12, <2>13 DEF Keeps, ClaimInv
<1> QED BY <1>3, <1>4

-------------------------------------------------------------------------------
(* Templates and the class.                                                *)

\* A new template has a version that no cache, claim or VM has seen, and a zone
\* without a template says nothing: what is known of versions stays in order.
LEMMA ChangeTemplateKeeps ==
    ASSUME IInv, NEW z \in Zones, ChangeTemplate(z)
    PROVE  IInv'
<1>0. Globals /\ Shapes
  BY DEF IInv
<1>1. /\ \/ made' = made /\ template' = [template EXCEPT ![z] = 0]
         \/ made' = made + 1 /\ template' = [template EXCEPT ![z] = made']
      /\ events < MaxEvents /\ events' = events + 1
      /\ ident' = ident \/ \E id \in TemplateIDs : ident' = [ident EXCEPT ![z] = id]
      /\ UNCHANGED <<cache, cacheIdent, prepared, class, claim, vm, tokens, launch, update,
                     finish, stale, attempts, unrecorded>>
  BY DEF ChangeTemplate, Event, tasks
<1>2. /\ made \in Nat /\ made' \in Nat /\ made <= made' /\ made' <= made + 1
      /\ \A y \in Zones : template'[y] = template[y] \/ template'[y] = 0
                          \/ (template'[y] = made' /\ made' = made + 1)
  BY <1>0, <1>1 DEF Globals
<1>3. Globals'
  <2>1. template' \in [Zones -> 0..made'] /\ cache' \in [Zones -> 0..made']
    BY <1>0, <1>1, <1>2 DEF Globals
  <2>2. \A y \in Zones : cache[y] \in 0..made
    BY <1>0 DEF Globals
  <2>3. \A y \in Zones : cache'[y] # 0 /\ template'[y] # 0 => cache'[y] <= template'[y]
    BY <1>0, <1>1, <1>2, <2>2 DEF Globals
  <2>4. ident' \in [Zones -> TemplateIDs]
    BY <1>0, <1>1 DEF Globals
  <2> QED BY <1>0, <1>1, <1>2, <2>1, <2>3, <2>4, NodeClaimsAssumption DEF Globals
<1>4. Shapes'
  BY <1>0, <1>1 DEF Shapes
<1>5. ASSUME NEW c \in Claims PROVE ClaimInv(c)'
  <2>0. ClaimInv(c) /\ launch[c] \in Launching \cup {Idle} /\ claim[c] \in ClaimState
        /\ vm[c] \in VMState \cup {None}
    BY <1>0 DEF IInv, Shapes
  <2>1. Ordered(c)'
    BY <1>1, <2>0 DEF ClaimInv, Ordered, Running, IsLaunched
  <2>2. TokenGone(c)'
    BY <1>1, <2>0 DEF ClaimInv, TokenGone, Running, IsLaunched
  <2>3. Applied(c)'
    BY <1>1, <2>0 DEF ClaimInv, Applied, IsLaunched, HasRules, InPool
  <2>4. Built(c)'
    <3>1. CASE launch[c].pc = "clone"
      <4>1. launch[c] \in Launching /\ launch[c].zone \in Zones /\ launch[c].image \in Nat /\ ~IsLaunched(c)
        BY <2>0, <3>1 DEF Idle, Launching, ClaimInv, Ordered, Running, IsLaunched
      <4> QED BY <1>1, <1>2, <2>0, <3>1, <4>1 DEF ClaimInv, Built, IsLaunched
    <3>2. CASE launch[c].pc = "start"
      <4>1. /\ launch[c].zone \in Zones /\ launch[c].image \in Nat /\ vm[c].image \in Nat
            /\ ~IsLaunched(c)
        BY <2>0, <3>2 DEF Idle, Launching, VMState, ClaimInv, Ordered, Running, IsLaunched
      <4>2. /\ vm[c].built = launch[c].spec.rev
            /\ ImageBetween(launch[c].zone, launch[c].image, vm[c].image)
        BY <2>0, <3>2 DEF ClaimInv, Built
      <4>3. ImageBetween(launch[c].zone, launch[c].image, vm[c].image)'
        BY <1>1, <1>2, <4>1, <4>2 DEF ImageBetween
      <4> QED BY <1>1, <3>2, <4>1, <4>2, <4>3 DEF Built, IsLaunched
    <3>3. CASE launch[c].pc \notin {"clone", "start"} /\ IsLaunched(c)
      <4>1. claim[c].zone \in Zones /\ claim[c].image \in Nat /\ vm[c].image \in Nat
        BY <2>0, <3>3 DEF ClaimState, VMState, ClaimInv, Ordered
      <4>2. vm[c].built = claim[c].hash /\ ImageBetween(claim[c].zone, claim[c].image, vm[c].image)
        BY <2>0, <3>3 DEF ClaimInv, Built
      <4>3. ImageBetween(claim[c].zone, claim[c].image, vm[c].image)'
        BY <1>1, <1>2, <4>1, <4>2 DEF ImageBetween
      <4> QED BY <1>1, <3>3, <4>2, <4>3 DEF Built, IsLaunched
    <3>4. CASE launch[c].pc \notin {"clone", "start"} /\ ~IsLaunched(c)
      BY <1>1, <3>4 DEF Built, IsLaunched
    <3> QED BY <3>1, <3>2, <3>3, <3>4
  <2> QED BY <2>1, <2>2, <2>3, <2>4 DEF ClaimInv
<1> QED BY <1>3, <1>4, <1>5 DEF IInv

\* The controllers of the template and of the class, and edits of the class,
\* touch no claim.
LEMMA ClassKeeps ==
    ASSUME IInv, UnmanagedStatus \/ NodeClassStatus \/ NodeClassHash \/ (\E spec \in Specs : Edit(spec))
    PROVE  IInv'
<1>0. Globals /\ Shapes
  BY DEF IInv
<1>1. UNCHANGED <<template, made, claim, vm, tokens, launch, update, finish, stale, attempts, unrecorded>>
  BY DEF UnmanagedStatus, NodeClassStatus, NodeClassHash, Edit, templates, tasks
<1>2. Globals'
  <2>1. CASE UnmanagedStatus
    BY <1>0, <2>1 DEF UnmanagedStatus, Globals
  <2>2. PICK k \in ClassState : k = class
    BY <1>0 DEF Globals
  <2>3. CASE NodeClassStatus
    <3>1. class' = [k EXCEPT !.selected = prepared, !.ready = prepared # {}]
      BY <2>2, <2>3 DEF NodeClassStatus
    <3>2. prepared \in SUBSET (Zones \X TemplateIDs) /\ (prepared # {}) \in BOOLEAN
      BY <1>0 DEF Globals
    <3>3. class' = [spec |-> k.spec, hash |-> k.hash, selected |-> prepared, ready |-> prepared # {}]
      BY <3>1 DEF ClassState
    <3>4. class' \in ClassState
      BY <3>2, <3>3 DEF ClassState
    <3> QED BY <1>0, <2>3, <3>4 DEF NodeClassStatus, Globals, templates
  <2>4. CASE NodeClassHash
    <3>1. class' \in ClassState
      BY <2>2, <2>4 DEF NodeClassHash, ClassState, Hash, Revs
    <3> QED BY <1>0, <2>4, <3>1 DEF NodeClassHash, Globals, templates
  <2>5. ASSUME NEW spec \in Specs, Edit(spec) PROVE Globals'
    <3>1. class' \in ClassState
      BY <2>2, <2>5 DEF Edit, ClassState
    <3> QED BY <1>0, <2>5, <3>1, NodeClaimsAssumption DEF Edit, Event, Globals, templates
  <2> QED BY <2>1, <2>3, <2>4, <2>5
<1>3. Shapes'
  BY <1>0, <1>1 DEF Shapes
<1>4. ASSUME NEW c \in Claims PROVE ClaimInv(c)'
  <2>1. SameClaim(c)
    BY <1>1 DEF SameClaim
  <2> QED BY <1>1, <2>1, OtherClaims DEF IInv
<1> QED BY <1>2, <1>3, <1>4 DEF IInv

-------------------------------------------------------------------------------

\* The initial state satisfies the invariant.
LEMMA InitIInv == Init => IInv
<1> SUFFICES ASSUME Init PROVE IInv
  OBVIOUS
<1>1. NewClaim \in ClaimState /\ NewClaim.phase = "new" /\ NewClaim.marked = FALSE /\ NewClaim.token = None
  BY DEF NewClaim, ClaimState, InPlaceHashes, Pools
<1>2. Globals
  BY NodeClaimsAssumption DEF Init, Globals, ClassState
<1>3. Shapes
  BY <1>1, NodeClaimsAssumption DEF Init, Shapes
<1>4. ASSUME NEW c \in Claims PROVE ClaimInv(c)
  <2>1. launch[c].pc = "idle" /\ update[c].pc = "idle" /\ finish[c].pc = "idle" /\ claim[c] = NewClaim
    BY DEF Init, Idle
  <2> QED BY <1>1, <2>1 DEF ClaimInv, Ordered, TokenGone, Applied, Built, Running, IsLaunched
<1> QED BY <1>2, <1>3, <1>4 DEF IInv

\* Every reachable state satisfies the invariant.
THEOREM Inductive == Spec => []IInv
<1>1. IInv /\ [Next]_vars => IInv'
  <2> SUFFICES ASSUME IInv, [Next]_vars PROVE IInv'
    OBVIOUS
  <2>1. ASSUME NEW c \in Claims, Launch(c) PROVE IInv'
    BY <2>1, LaunchBeginKeeps, PickTemplateKeeps, CloneVMKeeps, AttemptFailsKeeps,
       LaunchFailsKeeps, LaunchedKeeps, KeepsSuffices DEF Launch
  <2>2. ASSUME NEW c \in Claims, Update(c) PROVE IInv'
    BY <2>2, UpdateBeginKeeps, UpdateTagsKeeps, UpdateFirewallRulesKeeps,
       UpdatePoolMembershipKeeps, UpdateDoneKeeps, KeepsSuffices DEF Update
  <2>3. ASSUME NEW c \in Claims, Finish(c) PROVE IInv'
    BY <2>3, FinishBeginKeeps, DetachKeeps, DeleteTokenKeeps, FinishFailsKeeps,
       FinishDoneKeeps, KeepsSuffices DEF Finish
  <2>4. ASSUME NEW c \in Claims, Initialize(c) \/ Touch(c) \/ DeleteClaim(c) \/ Terminate(c)
        PROVE  IInv'
    BY <2>4, InitializeKeeps, TouchKeeps, DeleteClaimKeeps, TerminateKeeps, KeepsSuffices
  <2>5. ASSUME NEW z \in Zones, ChangeTemplate(z) PROVE IInv'
    BY <2>5, ChangeTemplateKeeps
  <2>6. CASE UnmanagedStatus \/ NodeClassStatus \/ NodeClassHash \/ (\E spec \in Specs : Edit(spec))
    BY <2>6, ClassKeeps
  <2>7. CASE UNCHANGED vars
    <3>1. Globals' /\ Shapes' /\ UNCHANGED <<template, made>>
      BY <2>7 DEF vars, IInv, Globals, Shapes
    <3>2. \A c \in Claims : SameClaim(c)
      BY <2>7 DEF vars, SameClaim
    <3>3. ASSUME NEW c \in Claims PROVE ClaimInv(c)'
      BY <3>1, <3>2, OtherClaims DEF IInv
    <3> QED BY <3>1, <3>3 DEF IInv
  <2> QED BY <2>1, <2>2, <2>3, <2>4, <2>5, <2>6, <2>7 DEF Next
<1> QED BY <1>1, InitIInv, PTL DEF Spec

\* Types, and that the parts of a claim fit together: a launch runs only for a
\* claim without a VM on record, and a launched claim has its VM and its zone.
THEOREM TypeCorrect == Spec => []TypeOK
<1>1. IInv => TypeOK
  <2> SUFFICES ASSUME IInv PROVE TypeOK
    OBVIOUS
  <2>0. Globals /\ Shapes
    BY DEF IInv
  <2>1. /\ template \in [Zones -> 0..made] /\ made \in 1..(MaxEvents + 1) /\ events \in 0..MaxEvents
        /\ cache \in [Zones -> 0..made] /\ {ident, cacheIdent} \subseteq [Zones -> TemplateIDs]
    BY <2>0, NodeClaimsAssumption DEF Globals
  <2>2. {prepared, class.selected} \subseteq SUBSET (Zones \X TemplateIDs) /\ class.spec \in Specs
        /\ class.hash \in {None} \cup {spec.rev : spec \in Specs}
    BY <2>0 DEF Globals, ClassState, Revs
  <2>3. ASSUME NEW c \in Claims
        PROVE  /\ claim[c].phase \in {"new", "launched", "gone"}
               /\ launch[c].pc \in {"idle", "zones", "clone", "start"}
               /\ update[c].pc \in {"idle", "tags", "rules", "pool", "patch"}
               /\ finish[c].pc \in {"idle", "detach", "token", "patch"}
    BY <2>0 DEF Shapes, ClaimState, Launching, Updating, Finishing, Idle
  <2>4. ASSUME NEW c \in Claims
        PROVE  /\ Running(launch, c) => claim[c].phase = "new"
               /\ IsLaunched(c) => vm[c] # None /\ claim[c].zone \in Zones
               /\ claim[c].token # None => claim[c].token <= attempts[c]
    BY DEF IInv, ClaimInv, Ordered, TokenGone
  <2> QED BY <2>0, <2>1, <2>2, <2>3, <2>4 DEF TypeOK, Shapes
<1> QED BY <1>1, Inductive, PTL

\* No claim with the mark of the lifecycle controller has a valid bootstrap
\* token, whatever fails and however launches, updates and writes interleave
\* (nodeclaim/lifecycle/controller.go).
THEOREM TokensRevoked == Spec => []TokenRevoked
<1>1. IInv => TokenRevoked
  BY DEF IInv, ClaimInv, TokenGone, TokenRevoked
<1> QED BY <1>1, Inductive, PTL

\* The in-place hash on a claim is true of its VM between recorded updates
\* (nodeclaim/inplaceupdate/controller.go).
THEOREM UpdatesRecorded == Spec => []RecordedIsApplied
<1>1. IInv => RecordedIsApplied
  BY DEF IInv, ClaimInv, Applied, HasRules, InPool, RecordedIsApplied
<1> QED BY <1>1, Inductive, PTL

\* Drift says what is true of the VM (cloudprovider/drift.go).
THEOREM DriftTrue == Spec => []DriftTruthful
<1>1. IInv => DriftTruthful
  <2> SUFFICES ASSUME IInv, NEW c \in Claims, IsLaunched(c)
               PROVE  /\ class.hash = Hash(class.spec) =>
                           (AreStaticFieldsDrifted(c) <=> vm[c].built # class.spec.rev)
                      /\ HasTemplate(claim[c].zone, GetTemplateIDs)
                         /\ cache[claim[c].zone] = template[claim[c].zone] =>
                           (IsTemplateDrifted(c) \/ vm[c].image = template[claim[c].zone])
    BY DEF DriftTruthful
  <2>0. Globals /\ Shapes /\ ClaimInv(c)
    BY DEF IInv
  <2>1. vm[c] \in VMState /\ claim[c] \in ClaimState /\ claim[c].zone \in Zones /\ class.spec \in Specs
    BY <2>0 DEF Shapes, ClaimInv, Ordered, Globals, ClassState
  <2>2. vm[c].built = claim[c].hash /\ ImageBetween(claim[c].zone, claim[c].image, vm[c].image)
    BY <2>0 DEF ClaimInv, Built
  <2>3. vm[c].built # None /\ class.spec.rev # None
    BY <2>1, NodeClaimsAssumption DEF VMState
  <2>4. class.hash = Hash(class.spec) => (AreStaticFieldsDrifted(c) <=> vm[c].built # class.spec.rev)
    BY <2>2, <2>3 DEF AreStaticFieldsDrifted, Hash
  <2>5. /\ vm[c].image \in Nat /\ claim[c].image \in Nat
        /\ template[claim[c].zone] \in Nat /\ cache[claim[c].zone] \in Nat
    BY <2>0, <2>1 DEF VMState, ClaimState, Globals
  <2>6. ASSUME HasTemplate(claim[c].zone, GetTemplateIDs),
               cache[claim[c].zone] = template[claim[c].zone], ~IsTemplateDrifted(c)
        PROVE  vm[c].image = template[claim[c].zone]
    BY <2>2, <2>5, <2>6 DEF IsTemplateDrifted, HasTemplate, ImageBetween
  <2> QED BY <2>4, <2>6
<1> QED BY <1>1, Inductive, PTL

===============================================================================
