------------------------------ MODULE NodeClaims ------------------------------
(***************************************************************************)
(* A node class, the claims that use it, and the VMs behind them: the      *)
(* controllers nodetemplateunmanagedclass.status, nodeclass.status,        *)
(* nodeclass.hash, nodeclaim.inplaceupdate and nodeclaim.lifecycle, the    *)
(* part of CloudProvider and of the instance provider that launches a      *)
(* claim, bootstrap tokens and drift.                                      *)
(*                                                                         *)
(* A claim is launched by Karpenter's core, which stores what Create       *)
(* returns.  The two claim controllers work on copies at the same time,    *)
(* and write them with an optimistic lock.  How a launch reserves capacity *)
(* and addresses is in InstanceLifecycle and NodeIpam.                     *)
(***************************************************************************)
EXTENDS Naturals, FiniteSets

CONSTANTS
    Claims,
    Zones,          \* zones with the boot storage of the class
    TemplateIDs,    \* VM IDs that templates may have
    FirstIDs,       \* per zone: the ID of its first template
    Specs,          \* [rev, tags, rules, pool, cdrom]: specifications
    FirstSpec,
    None,
    MaxAttempts,    \* bound: VMs cloned for a claim
    MaxEvents       \* bound: template changes, class edits, other writes to a
                    \* claim and failing requests, all together

ASSUME NodeClaimsAssumption ==
    /\ FirstSpec \in Specs
    /\ \A spec \in Specs : spec.rev # None /\ spec.cdrom \in BOOLEAN
    /\ IsFiniteSet(Zones) /\ IsFiniteSet(Claims)
    /\ FirstIDs \in [Zones -> TemplateIDs]
    /\ \A y, z \in Zones : FirstIDs[y] = FirstIDs[z] => y = z
    /\ {MaxAttempts, MaxEvents} \subseteq Nat

VARIABLES
    template,   \* per zone: version of the template in Proxmox, 0 for none
    ident,      \* per zone: the VM ID of that template
    made,       \* versions made so far
    cache,      \* the versions as SyncInstanceTemplates saw them last
    cacheIdent, \* and the IDs
    prepared,   \* <<zone, ID>>s in the status of the template object
    class,      \* the ProxmoxNodeClass
    claim,      \* per claim: the NodeClaim
    vm,         \* per claim: its VM
    tokens,     \* bootstrap tokens that are valid, <<claim, attempt>>
    launch,     \* per claim: CloudProvider.Create
    update,     \* per claim: the reconcile of inplaceupdate
    finish,     \* per claim: the reconcile of lifecycle
    stale,      \* reconciles whose copy the API server would refuse
    attempts,   \* per claim: VMs cloned so far
    unrecorded, \* history: claims with updates that no annotation records
    events      \* events so far, for the bound

vars == <<template, ident, made, cache, cacheIdent, prepared, class, claim, vm, tokens, launch, update,
          finish, stale, attempts, unrecorded, events>>
templates == <<template, ident, made, cache, cacheIdent, prepared>>
tasks == <<launch, update, finish, stale>>

Hash(spec) == spec.rev
InPlaceHash(spec) == <<spec.tags, spec.rules, spec.pool>>

\* What Proxmox has of the VM of a claim.
VMState ==
    [built : {spec.rev : spec \in Specs}, image : Nat,
     tags : {spec.tags : spec \in Specs}, cloudinit : BOOLEAN, iso : BOOLEAN,
     rules : {spec.rules : spec \in Specs},
     pool : {None} \cup {spec.pool : spec \in Specs}]

ASSUME NoneAssumption == None \notin VMState

NewClaim ==
    [phase |-> "new", deleting |-> FALSE, initialized |-> FALSE, hash |-> None,
     inplace |-> None, pool |-> None, token |-> None, marked |-> FALSE,
     image |-> 0, zone |-> None]
GoneClaim == [NewClaim EXCEPT !.phase = "gone"]

Event == events < MaxEvents /\ events' = events + 1

Idle == [pc |-> "idle"]
Running(task, c) == task[c].pc # "idle"

\* A write to a claim outdates the copies of the other controller.
Write(c, new) ==
    /\ claim' = [claim EXCEPT ![c] = new]
    /\ stale' = IF new = claim[c] THEN stale
                ELSE stale \cup ({c} \X {"update", "finish"})

-------------------------------------------------------------------------------
(* Templates, the class and its controllers.                               *)

\* External: someone removes the template in a zone, or makes one, in place of
\* the old one or under an ID that no other template has.
ChangeTemplate(z) ==
    /\ \/ /\ template[z] # 0 /\ UNCHANGED <<made, ident>>
          /\ template' = [template EXCEPT ![z] = 0]
       \/ /\ made' = made + 1
          /\ template' = [template EXCEPT ![z] = made']
          /\ \E id \in TemplateIDs :
                 /\ \A y \in Zones \ {z} : template[y] # 0 => ident[y] # id
                 /\ ident' = [ident EXCEPT ![z] = id]
    /\ Event
    /\ UNCHANGED <<cache, cacheIdent, prepared, class, claim, vm, tokens, tasks,
                   attempts, unrecorded>>

\* nodetemplateunmanagedclass.status scans Proxmox again and again.
UnmanagedStatus ==
    /\ cache' = template /\ cacheIdent' = ident
    /\ prepared' = {<<z, ident[z]>> : z \in {y \in Zones : template[y] # 0}}
    /\ UNCHANGED <<template, ident, made, class, claim, vm, tokens, tasks,
                   attempts, unrecorded, events>>

\* What the class reads from the zones it has selected.
GetZones == {s[1] : s \in class.selected}
GetTemplateIDs == {s[2] : s \in class.selected}

\* nodeclass.status, with both of its parts.
NodeClassStatus ==
    /\ class' = [class EXCEPT !.selected = prepared, !.ready = prepared # {}]
    /\ UNCHANGED <<templates, claim, vm, tokens, tasks, attempts, unrecorded,
                   events>>

NodeClassHash ==
    /\ class' = [class EXCEPT !.hash = Hash(class.spec)]
    /\ UNCHANGED <<templates, claim, vm, tokens, tasks, attempts, unrecorded,
                   events>>

Edit(spec) ==
    /\ Event /\ spec # class.spec
    /\ class' = [class EXCEPT !.spec = spec]
    /\ UNCHANGED <<templates, claim, vm, tokens, tasks, attempts, unrecorded>>

-------------------------------------------------------------------------------
(* CloudProvider.Create and instance.Create.                               *)

\* Mutant: a launched claim is launched again.
LaunchableAgain(c) == ~claim[c].deleting /\ ~Running(launch, c)

\* External: the core calls Create until it has returned a claim.
Launchable(c) ==
    claim[c].phase = "new" /\ ~claim[c].deleting /\ ~Running(launch, c)

LaunchBegin(c) ==
    /\ Launchable(c)
    /\ class.ready
    /\ launch' = [launch EXCEPT ![c] =
           [pc |-> "zones", spec |-> class.spec, zones |-> GetZones,
            ids |-> GetTemplateIDs, zone |-> None, id |-> None, image |-> 0,
            token |-> None]]
    /\ UNCHANGED <<templates, class, claim, vm, tokens, update, finish, stale,
                   attempts, unrecorded, events>>

\* The template of a zone as ListWithFilter finds it: it has to be cached, with
\* one of the IDs that the class has selected.
HasTemplate(z, ids) == cache[z] # 0 /\ cacheIdent[z] \in ids

\* The template of the zone is listed; its hash goes into the node's label.
PickTemplate(c, z) ==
    /\ launch[c].pc = "zones" /\ z \in launch[c].zones
    /\ launch' = [launch EXCEPT ![c].zones = @ \ {z},
           ![c].pc = IF HasTemplate(z, launch[c].ids) THEN "clone" ELSE "zones",
           ![c].zone = z, ![c].id = cacheIdent[z], ![c].image = cache[z]]
    /\ UNCHANGED <<templates, class, claim, vm, tokens, update, finish, stale,
                   attempts, unrecorded, events>>

ClonedVM(c) ==
    LET spec == launch[c].spec IN
    [built |-> spec.rev, image |-> template[launch[c].zone],
     tags |-> spec.tags, cloudinit |-> spec.cdrom, iso |-> spec.cdrom,
     rules |-> spec.rules, pool |-> spec.pool]

\* The clone is made from the ID that was listed.
Clonable(c) ==
    template[launch[c].zone] # 0 /\ ident[launch[c].zone] = launch[c].id

CreateToken(c) == tokens' = tokens \cup {<<c, attempts[c] + 1>>}

\* CloneVM with its pool and tags, the firewall rules and the ISO, for which
\* a token is made.
CloneVM(c) ==
    /\ launch[c].pc = "clone" /\ Clonable(c)
    /\ attempts[c] < MaxAttempts
    /\ attempts' = [attempts EXCEPT ![c] = @ + 1]
    /\ vm' = [vm EXCEPT ![c] = ClonedVM(c)]
    /\ IF launch[c].spec.cdrom
       THEN /\ CreateToken(c)
            /\ launch' = [launch EXCEPT ![c].pc = "start",
                                        ![c].token = attempts[c] + 1]
       ELSE /\ launch' = [launch EXCEPT ![c].pc = "start"]
            /\ UNCHANGED tokens
    /\ UNCHANGED <<templates, class, claim, update, finish, stale, unrecorded,
                   events>>

\* The template is gone or a request fails: the VM is deleted, if there is
\* one, and the next zone is tried.  The token is not taken back.
AttemptFails(c) ==
    /\ \/ launch[c].pc = "clone" /\ ~Clonable(c) /\ UNCHANGED events
       \/ launch[c].pc \in {"clone", "start"} /\ Event
    /\ vm' = [vm EXCEPT ![c] = None]
    /\ launch' = [launch EXCEPT ![c].pc = "zones"]
    /\ UNCHANGED <<templates, class, claim, tokens, update, finish, stale,
                   attempts, unrecorded>>

\* No zone is left: an error for the core, which tries again.
LaunchFails(c) ==
    /\ launch[c].pc = "zones" /\ launch[c].zones = {}
    /\ launch' = [launch EXCEPT ![c] = Idle]
    /\ UNCHANGED <<templates, class, claim, vm, tokens, update, finish, stale,
                   attempts, unrecorded, events>>

\* Mutant: the hash of the class at the end of Create.
HashOnReturn(c) == Hash(class.spec)

\* What Create says the claim was built from: the class it read first.
HashOfClaim(c) == Hash(launch[c].spec)

\* The image of the template that was chosen first.
ImageOfClaim(c) == launch[c].image

\* The VM starts and the core stores the claim that Create returns.
Launched(c) ==
    /\ launch[c].pc = "start"
    /\ launch' = [launch EXCEPT ![c] = Idle]
    /\ Write(c, [claim[c] EXCEPT !.phase = "launched",
           !.hash = HashOfClaim(c), !.inplace = InPlaceHash(launch[c].spec),
           !.token = launch[c].token, !.image = ImageOfClaim(c),
           !.zone = launch[c].zone])
    /\ UNCHANGED <<templates, class, vm, tokens, update, finish, attempts,
                   unrecorded, events>>

-------------------------------------------------------------------------------
(* External: what the core and others do to a claim.                       *)

\* The node has joined and is ready.
Initialize(c) ==
    /\ claim[c].phase = "launched" /\ ~claim[c].deleting /\ ~claim[c].initialized
    /\ Write(c, [claim[c] EXCEPT !.initialized = TRUE])
    /\ UNCHANGED <<templates, class, vm, tokens, launch, update, finish, attempts,
                   unrecorded, events>>

Touch(c) ==
    /\ Event /\ claim[c].phase = "launched"
    /\ stale' = stale \cup ({c} \X {"update", "finish"})
    /\ UNCHANGED <<templates, class, claim, vm, tokens, launch, update, finish,
                   attempts, unrecorded>>

DeleteClaim(c) ==
    /\ claim[c].phase # "gone" /\ ~claim[c].deleting /\ ~Running(launch, c)
    /\ Write(c, [claim[c] EXCEPT !.deleting = TRUE])
    /\ UNCHANGED <<templates, class, vm, tokens, launch, update, finish, attempts,
                   unrecorded, events>>

Terminate(c) ==
    /\ claim[c].deleting
    /\ vm' = [vm EXCEPT ![c] = None]
    /\ Write(c, GoneClaim)
    /\ UNCHANGED <<templates, class, tokens, launch, update, finish, attempts,
                   unrecorded, events>>

-------------------------------------------------------------------------------
(* nodeclaim.inplaceupdate.                                                *)

\* Mutant: a failed update is not tried again.
PendingOnce(c) ==
    claim[c].inplace # InPlaceHash(class.spec) /\ c \notin unrecorded

\* The claim is not up to date, be it that nothing was applied or that what
\* was applied could not be recorded.
Pending(c) == claim[c].inplace # InPlaceHash(class.spec)

\* Reads the claim, the class and, in UpdateTags, the VM.
UpdateBegin(c) ==
    /\ ~Running(update, c)
    /\ claim[c].phase = "launched" /\ ~claim[c].deleting
    /\ Pending(c)
    /\ update' = [update EXCEPT ![c] =
           [pc |-> "tags", spec |-> class.spec, oldPool |-> claim[c].pool,
            cloudinit |-> vm[c].cloudinit, ok |-> TRUE]]
    /\ stale' = stale \ {<<c, "update">>}
    /\ UNCHANGED <<templates, class, claim, vm, tokens, launch, finish, attempts,
                   unrecorded, events>>

After(c, pc, ok) == [update EXCEPT ![c].pc = pc, ![c].ok = @ /\ ok]

\* The error of the request that writes the tags is not looked at.
UpdateTags(c) ==
    /\ update[c].pc = "tags"
    /\ \/ /\ vm[c] # None
          /\ vm' = [vm EXCEPT ![c].tags = update[c].spec.tags,
                              ![c].cloudinit = update[c].cloudinit]
          /\ update' = After(c, "rules", TRUE)
          /\ UNCHANGED events
       \/ /\ vm[c] = None
          /\ update' = After(c, "rules", FALSE)
          /\ UNCHANGED <<vm, events>>
       \/ /\ vm[c] # None /\ Event
          /\ update' = After(c, "rules", TRUE)
          /\ UNCHANGED vm
    /\ unrecorded' = unrecorded \cup {c}
    /\ UNCHANGED <<templates, class, claim, tokens, launch, finish, stale,
                   attempts>>

UpdateFirewallRules(c) ==
    /\ update[c].pc = "rules"
    /\ \/ /\ vm[c] # None
          /\ vm' = [vm EXCEPT ![c].rules = update[c].spec.rules]
          /\ update' = After(c, "pool", TRUE)
          /\ UNCHANGED events
       \/ /\ vm[c] = None /\ UNCHANGED <<vm, events>>
          /\ update' = After(c, "pool", FALSE)
       \/ /\ vm[c] # None /\ Event /\ UNCHANGED vm
          /\ update' = After(c, "pool", FALSE)
    /\ UNCHANGED <<templates, class, claim, tokens, launch, finish, stale,
                   attempts, unrecorded>>

\* The pool of the VM once it has left the one that the annotation names.
Left(c) ==
    IF update[c].oldPool # update[c].spec.pool /\ vm[c].pool = update[c].oldPool
    THEN None
    ELSE vm[c].pool

\* Leaves the pool that the annotation names and joins the one of the class.
\* External: a VM is in one pool at most, and Proxmox refuses to add one that is
\* in another pool unless it is told to move it, which the request does not.
UpdatePoolMembership(c) ==
    LET new == update[c].spec.pool
        free == new = None \/ Left(c) \in {None, new}
    IN
    /\ update[c].pc = "pool"
    /\ \/ /\ vm[c] # None /\ UNCHANGED events
          /\ vm' = [vm EXCEPT ![c].pool =
                        IF free /\ new # None THEN new ELSE Left(c)]
          /\ update' = After(c, "patch", free)
       \/ /\ vm[c] = None /\ UNCHANGED <<vm, events>>
          /\ update' = After(c, "patch", new = None)
       \/ /\ vm[c] # None /\ Event
          /\ \E pool \in {vm[c].pool, Left(c)} :
                 vm' = [vm EXCEPT ![c].pool = pool]
          /\ update' = After(c, "patch", FALSE)
    /\ UNCHANGED <<templates, class, claim, tokens, launch, finish, stale,
                   attempts, unrecorded>>

\* Mutant: the hash is recorded after a failed update.
RecordsAlways(c) == <<c, "update">> \notin stale

\* The annotation is written when all three updates went well and the claim
\* has not changed since it was read.
Records(c) == update[c].ok /\ <<c, "update">> \notin stale

\* The hash of the class that was applied, not of the class as it is now.
RecordedHash(c) == InPlaceHash(update[c].spec)

UpdateDone(c) ==
    /\ update[c].pc = "patch"
    /\ update' = [update EXCEPT ![c] = Idle]
    /\ IF Records(c)
       THEN /\ Write(c, [claim[c] EXCEPT !.inplace = RecordedHash(c),
                                         !.pool = update[c].spec.pool])
            /\ unrecorded' = unrecorded \ {c}
       ELSE UNCHANGED <<claim, stale, unrecorded>>
    /\ UNCHANGED <<templates, class, vm, tokens, launch, finish, attempts, events>>

-------------------------------------------------------------------------------
(* nodeclaim.lifecycle.                                                    *)

\* Reads the claim, the class and, in DetachCloudInit, the VM.
FinishBegin(c) ==
    /\ ~Running(finish, c)
    /\ claim[c].phase = "launched" /\ ~claim[c].deleting
    /\ claim[c].initialized /\ ~claim[c].marked
    /\ finish' = [finish EXCEPT ![c] =
           [pc |-> IF class.spec.cdrom /\ vm[c].cloudinit THEN "detach" ELSE "token",
            tags |-> vm[c].tags]]
    /\ stale' = stale \ {<<c, "finish">>}
    /\ UNCHANGED <<templates, class, claim, vm, tokens, launch, update, attempts,
                   unrecorded, events>>

\* The ISO is unmounted; the tag goes with a write of the tags read before.
Detach(c) ==
    /\ finish[c].pc = "detach" /\ vm[c] # None
    /\ vm' = [vm EXCEPT ![c].iso = FALSE, ![c].cloudinit = FALSE,
                        ![c].tags = finish[c].tags]
    /\ finish' = [finish EXCEPT ![c].pc = "token"]
    /\ UNCHANGED <<templates, class, claim, tokens, launch, update, stale,
                   attempts, unrecorded, events>>

DeleteToken(c) ==
    /\ finish[c].pc = "token"
    /\ tokens' = tokens \ {<<c, claim[c].token>>}
    /\ finish' = [finish EXCEPT ![c].pc = "patch"]
    /\ UNCHANGED <<templates, class, claim, vm, launch, update, stale, attempts,
                   unrecorded, events>>

\* Mutant: a failure marks the claim as well.
FinishFailsThenMarks == "patch"

\* Where the reconcile goes on when a request fails: an error ends it.
FinishFailsThen == "idle"

FinishFails(c) ==
    /\ \/ finish[c].pc = "detach" /\ vm[c] = None /\ UNCHANGED events
       \/ finish[c].pc \in {"detach", "token"} /\ Event
    /\ finish' = [finish EXCEPT ![c] = [Idle EXCEPT !.pc = FinishFailsThen]]
    /\ UNCHANGED <<templates, class, claim, vm, tokens, launch, update, stale,
                   attempts, unrecorded>>

FinishDone(c) ==
    /\ finish[c].pc = "patch"
    /\ finish' = [finish EXCEPT ![c] = Idle]
    /\ IF <<c, "finish">> \in stale
       THEN UNCHANGED <<claim, stale>>
       ELSE Write(c, [claim[c] EXCEPT !.marked = TRUE])
    /\ UNCHANGED <<templates, class, vm, tokens, launch, update, attempts,
                   unrecorded, events>>

-------------------------------------------------------------------------------
(* Drift.                                                                  *)

AreStaticFieldsDrifted(c) ==
    class.hash # None /\ claim[c].hash # None /\ class.hash # claim[c].hash

IsTemplateDrifted(c) ==
    /\ claim[c].image # 0
    /\ HasTemplate(claim[c].zone, GetTemplateIDs)
    /\ cache[claim[c].zone] # claim[c].image

-------------------------------------------------------------------------------

Init ==
    /\ template = [z \in Zones |-> 1] /\ made = 1
    /\ cache = [z \in Zones |-> 0]
    /\ ident = FirstIDs /\ cacheIdent = FirstIDs
    /\ prepared = {}
    /\ class = [spec |-> FirstSpec, hash |-> None, selected |-> {}, ready |-> FALSE]
    /\ claim = [c \in Claims |-> NewClaim]
    /\ vm = [c \in Claims |-> None]
    /\ tokens = {}
    /\ launch = [c \in Claims |-> Idle]
    /\ update = [c \in Claims |-> Idle]
    /\ finish = [c \in Claims |-> Idle]
    /\ stale = {}
    /\ attempts = [c \in Claims |-> 0]
    /\ unrecorded = {}
    /\ events = 0

Launch(c) ==
    \/ LaunchBegin(c) \/ \E z \in Zones : PickTemplate(c, z)
    \/ CloneVM(c) \/ AttemptFails(c) \/ LaunchFails(c) \/ Launched(c)

Update(c) ==
    \/ UpdateBegin(c) \/ UpdateTags(c) \/ UpdateFirewallRules(c)
    \/ UpdatePoolMembership(c) \/ UpdateDone(c)

Finish(c) ==
    FinishBegin(c) \/ Detach(c) \/ DeleteToken(c) \/ FinishFails(c) \/ FinishDone(c)

Next ==
    \/ \E z \in Zones : ChangeTemplate(z)
    \/ UnmanagedStatus
    \/ NodeClassStatus
    \/ NodeClassHash
    \/ \E spec \in Specs : Edit(spec)
    \/ \E c \in Claims :
           \/ Launch(c) \/ Update(c) \/ Finish(c)
           \/ Initialize(c) \/ Touch(c) \/ DeleteClaim(c) \/ Terminate(c)

Spec == Init /\ [][Next]_vars

\* Both claim controllers are queued again by a change of the claim or of the
\* class, and after an error or a conflict.
Fairness == \A c \in Claims : WF_vars(Update(c)) /\ WF_vars(Finish(c))

FairSpec == Spec /\ Fairness

-------------------------------------------------------------------------------
(* Properties.                                                             *)

IsLaunched(c) == claim[c].phase = "launched"

\* Every variable has its type, and the parts of a claim fit together: a
\* launch runs only for a claim that has no VM on record (Create is called by
\* the core until it returns), a launched claim that nobody deletes has its VM
\* and its zone, and a token on record was made.
TypeOK ==
    /\ template \in [Zones -> 0..made] /\ made \in 1..(MaxEvents + 1) /\ events \in 0..MaxEvents
    /\ cache \in [Zones -> 0..made]
    /\ {ident, cacheIdent} \subseteq [Zones -> TemplateIDs]
    /\ {prepared, class.selected} \subseteq SUBSET (Zones \X TemplateIDs)
    /\ class.spec \in Specs
    /\ class.hash \in {None} \cup {spec.rev : spec \in Specs}
    /\ tokens \subseteq Claims \X (1..MaxAttempts)
    /\ attempts \in [Claims -> 0..MaxAttempts]
    /\ stale \subseteq Claims \X {"update", "finish"}
    /\ unrecorded \subseteq Claims
    /\ \A c \in Claims :
           /\ claim[c].phase \in {"new", "launched", "gone"}
           /\ launch[c].pc \in {"idle", "zones", "clone", "start"}
           /\ update[c].pc \in {"idle", "tags", "rules", "pool", "patch"}
           /\ finish[c].pc \in {"idle", "detach", "token", "patch"}
           /\ Running(launch, c) => claim[c].phase = "new"
           /\ IsLaunched(c) =>
                  vm[c] # None /\ claim[c].zone \in Zones
           /\ claim[c].token # None => claim[c].token <= attempts[c]

\* A claim that carries the mark of the lifecycle controller has no valid
\* bootstrap token: the controller sets the mark only after the token on
\* record is gone, whatever failed in between and however often it ran.
TokenRevoked ==
    \A c \in Claims : claim[c].marked => <<c, claim[c].token>> \notin tokens

\* The in-place hash on a claim is true of its VM: when no update is under way
\* and every update made since was recorded, the VM has the firewall rules of
\* the recorded class and is in its pool, although the class changes and
\* requests fail while the three updates run.
RecordedIsApplied ==
    \A c \in Claims :
        IsLaunched(c) /\ ~Running(update, c) /\ c \notin unrecorded =>
            \E spec \in Specs :
                /\ InPlaceHash(spec) = claim[c].inplace
                /\ vm[c].rules = spec.rules
                /\ spec.pool # None => vm[c].pool = spec.pool

\* Drift is right although the class is edited and templates are replaced while
\* Create is under way.  Once nodeclass.hash has seen the class, a claim has
\* drifted if and only if its VM was built from other static fields.  And when
\* the template cache is right about a zone and the class has selected the ID of
\* that template, a claim without image drift has a VM cloned from it.  A template
\* that was replaced under another ID is found neither by Create nor by drift
\* until nodeclass.status has selected it.
DriftTruthful ==
    \A c \in Claims :
        LET z == claim[c].zone IN
        IsLaunched(c) =>
            /\ class.hash = Hash(class.spec) =>
                   (AreStaticFieldsDrifted(c) <=> vm[c].built # class.spec.rev)
            /\ HasTemplate(z, GetTemplateIDs) /\ cache[z] = template[z] =>
                   (IsTemplateDrifted(c) \/ vm[c].image = template[z])

\* A VM that cannot follow its class into another pool.  Create puts the VM in the
\* pool of the class but does not record it, so the update that follows leaves no
\* pool and Proxmox refuses to add the VM to the new one, however often it runs.
PoolStuck(c) ==
    /\ class.spec.pool # None /\ vm[c].pool \notin {None, class.spec.pool}
    /\ claim[c].pool # vm[c].pool

\* Once the class is left alone every claim that stays is brought up to date,
\* unless its VM is stuck in a pool, and every claim whose node is initialized is
\* marked: neither failing requests nor refused patches make a controller forget
\* a claim.
Settles ==
    <>[](\A c \in Claims :
             IsLaunched(c) /\ ~claim[c].deleting =>
                 /\ claim[c].inplace = InPlaceHash(class.spec) \/ PoolStuck(c)
                 /\ claim[c].initialized => claim[c].marked)
===============================================================================
