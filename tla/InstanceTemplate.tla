--------------------------- MODULE InstanceTemplate ---------------------------
(***************************************************************************)
(* The provider of VM templates and the controllers of ProxmoxTemplate     *)
(* objects that call it: status, termination, hash and inplaceupdate.      *)
(*                                                                         *)
(* A reconcile reads the object once and works on the copy while other     *)
(* controllers, the user and other classes go on.  Each step below is one  *)
(* request to Proxmox with the local work around it.  The status and the   *)
(* termination controller write with an optimistic lock, the other two     *)
(* without.  The zone locks and the cache of templates are shared by all.  *)
(***************************************************************************)
EXTENDS Naturals, Sequences, FiniteSets

CONSTANTS
    Classes,        \* ProxmoxTemplate objects
    Zones,
    ZonesOf,        \* per class: zones of its storages
    Specs,          \* [image, rev, opts]: what the user may ask for
    FirstSpec,      \* per class: the specification it is created with
    Touched,        \* bound: classes that the user edits or deletes
    ImportStorages, \* number of storages in a specification that hold images
    Store,          \* per zone: the storage of its images, which may be shared
    IDs,            \* VM identifiers
    None,
    Unmanaged,      \* a ProxmoxUnmanagedTemplate exists: its scans go on
    MaxTroubles     \* bound: edits, failing requests and restarts together

ASSUME InstanceTemplateAssumption ==
    /\ ZonesOf \in [Classes -> SUBSET Zones]
    /\ IsFiniteSet(Zones) /\ DOMAIN Store = Zones
    /\ FirstSpec \in [Classes -> Specs]
    /\ Touched \subseteq Classes
    /\ ImportStorages \in Nat \ {0}
    /\ IDs \subseteq Nat
    /\ IsFiniteSet(IDs)
    /\ Unmanaged \in BOOLEAN
    /\ MaxTroubles \in Nat
    /\ None \notin Classes \X {"status", "term", "inplace"}

VARIABLES
    obj,        \* per class: the object in the API server
    task,       \* per class and controller: its reconcile
    stale,      \* reconciles whose copy the API server would refuse
    wanted,     \* classes queued for the inplaceupdate controller
    lock,       \* per zone: the reconcile that holds zoneLocks
    cache,      \* instanceTemplate, the cache
    vms,        \* per identifier: the VM in Proxmox
    images,     \* images in the import storages, <<storage, image>>
    raced,      \* history: deleted by the user before status named its templates
    misread,    \* history: classes with a template that a failing scan left out
    misled,     \* history: classes whose Create a failing scan told wrong
    undercut,   \* history: creates whose image was removed through another zone
    troubles

vars == <<obj, task, stale, wanted, lock, cache, vms, images, raced, misread,
          misled, undercut, troubles>>
history == <<raced, misread, misled, undercut>>

Controllers == {"status", "term", "inplace"}
Procs == Classes \X Controllers

-------------------------------------------------------------------------------
(* Objects and templates.                                                  *)

GetImageID(spec) == spec.image
Hash(spec) == <<spec.image, spec.rev>>
InPlaceHash(spec) == spec.opts

New(c) ==
    [alive |-> TRUE, deleting |-> FALSE, finalizer |-> FALSE,
     spec |-> FirstSpec[c], imageID |-> None, zones |-> <<>>,
     ready |-> FALSE, hash |-> None, inplace |-> None]

Gone(c) == [New(c) EXCEPT !.alive = FALSE]

Idle == [pc |-> "idle", copy |-> None, left |-> <<>>, found |-> {},
         done |-> <<>>, id |-> None, deleted |-> FALSE]

\* What a reconcile uses of the object it has read.
Copy(c) == [spec |-> obj[c].spec, imageID |-> obj[c].imageID,
            zones |-> obj[c].zones]

InFlight(p) == task[p].pc # "idle"

\* Copies that the API server would refuse, of the reconciles that go on.
Outdated(procs) == stale' = {q \in stale \cup procs : task'[q].pc # "idle"}

\* A write to the object outdates the copies of all reconciles in flight.
Write(c, new) ==
    /\ obj' = [obj EXCEPT ![c] = new]
    /\ Outdated(IF new = obj[c] THEN {} ELSE {c} \X {"status", "term"})

\* A reconcile with an optimistic lock: a refused write changes nothing.
Patch(p, new) ==
    IF p \in stale THEN Outdated({}) /\ UNCHANGED obj ELSE Write(p[1], new)

Entry(id) == [id |-> id, class |-> vms[id].class, zone |-> vms[id].zone,
              hash |-> vms[id].hash]

Template(c, zone, spec) ==
    [class |-> c, zone |-> zone, hash |-> Hash(spec),
     opts |-> spec.opts]

Cached(e) == \E t \in cache : t.zone = e.zone /\ t.id = e.id

\* Mutant: DeleteVMByID finds the VM wherever it runs.
ExistsAnywhere(e) == vms[e.id] # None

\* External: DeleteVMByID finds the VM only at the node that runs it.
Exists(e) == vms[e.id] # None /\ vms[e.id].zone = e.zone

Named(c) == {obj[c].zones[i] : i \in DOMAIN obj[c].zones}

\* An edit, a failing request or a restart, of which there is a bounded number.
Trouble == troubles < MaxTroubles /\ troubles' = troubles + 1

Listed == {Entry(id) : id \in {i \in IDs : vms[i] # None}}

Lists(list, id) ==
    \E t \in list : t.id = id /\ t.class = vms[id].class /\ t.zone = vms[id].zone

\* Classes with a template that a list leaves out.
LeftOut(list) ==
    {vms[id].class : id \in {i \in IDs : vms[i] # None /\ ~Lists(list, i)}}

\* The scan of a region that fails leaves the old list; a template whose
\* configuration cannot be read is left out.
ScanFails(old) ==
    /\ cache' \in {old} \cup SUBSET Listed
    /\ misread' = misread \cup LeftOut(cache')

\* Its callers are told of no error.
SyncInstanceTemplates ==
    \/ cache' = Listed /\ UNCHANGED <<misread, troubles>>
    \/ Trouble /\ ScanFails(cache)

Unlocked(p) == [z \in Zones |-> IF lock[z] = p THEN None ELSE lock[z]]

\* The zones of a storage come in the order of a map.
Orders(c) ==
    {s \in [1..Cardinality(ZonesOf[c]) -> ZonesOf[c]] :
        \A z \in ZonesOf[c] : \E i \in DOMAIN s : s[i] = z}

-------------------------------------------------------------------------------
(* The status controller up to its first request.                          *)

AddFinalizer(c) ==
    /\ obj[c].alive /\ ~obj[c].deleting /\ ~obj[c].finalizer
    /\ UNCHANGED task
    /\ Write(c, [obj[c] EXCEPT !.finalizer = TRUE])
    /\ UNCHANGED <<wanted, lock, cache, vms, images, troubles, history>>

ImageChanged(o) == o.imageID # None /\ o.imageID # GetImageID(o.spec)

StatusBegin(c) ==
    /\ ~InFlight(<<c, "status">>)
    /\ obj[c].alive /\ ~obj[c].deleting /\ obj[c].finalizer
    /\ \E zones \in IF ImageChanged(obj[c]) THEN {obj[c].zones} ELSE Orders(c) :
           task' = [task EXCEPT ![<<c, "status">>] =
               [Idle EXCEPT !.copy = Copy(c), !.left = zones,
                    !.pc = IF ImageChanged(obj[c]) THEN "delete" ELSE "create"]]
    /\ UNCHANGED <<obj, stale, wanted, lock, cache, vms, images, troubles, history>>

-------------------------------------------------------------------------------
(* Delete, called by the status and by the termination controller.         *)

DeleteCalls == Classes \X {"status", "term"}

\* deleteTemplate: what is not in the cache counts as deleted.
DeleteTemplate(p) ==
    LET e == Head(task[p].left) IN
    /\ task[p].pc = "delete" /\ task[p].left # <<>>
    /\ Cached(e) => Exists(e)
    /\ vms' = IF Cached(e) THEN [vms EXCEPT ![e.id] = None] ELSE vms
    /\ task' = [task EXCEPT ![p].pc = "image", ![p].id = ImportStorages]
    /\ UNCHANGED <<obj, stale, wanted, lock, cache, images, troubles, history>>

\* The storages of a zone come before the other zones.
AfterImage(t) ==
    IF t.id > 1 THEN [t EXCEPT !.id = @ - 1]
    ELSE [t EXCEPT !.pc = "delete", !.id = None, !.left = Tail(@)]

Importing(t) == t.pc \in {"template", "vm"}

\* Where a create finds its image.
Source(t) == <<Store[Head(t.left)], GetImageID(t.copy.spec)>>

\* The image is removed from the storage, for all zones that share it.
RemoveImage(zone, image) ==
    /\ images' = images \ {<<Store[zone], image>>}
    /\ undercut' = undercut \cup {c \in Classes :
           LET t == task[<<c, "status">>] IN
           Importing(t) /\ Source(t) = <<Store[zone], image>> /\ Head(t.left) # zone}

\* Mutant: the image is removed without the lock of the zone.
DeleteImageUnlocked(p) ==
    /\ task[p].pc = "image"
    /\ RemoveImage(Head(task[p].left).zone, task[p].copy.imageID)
    /\ task' = [task EXCEPT ![p] = AfterImage(@)]
    /\ UNCHANGED <<obj, stale, wanted, lock, cache, vms, troubles, raced, misread, misled>>

\* The lock is taken once per storage and released when Delete returns.
DeleteImage(p) ==
    LET zone == Head(task[p].left).zone IN
    /\ task[p].pc = "image"
    /\ lock[zone] = None
    /\ lock' = [lock EXCEPT ![zone] = p]
    /\ RemoveImage(zone, task[p].copy.imageID)
    /\ task' = [task EXCEPT ![p] = AfterImage(@)]
    /\ UNCHANGED <<obj, stale, wanted, cache, vms, troubles, raced, misread, misled>>

\* Mutant: a failing Delete keeps its locks.
UnlockedOnFailureNone(p) ==
    IF task[p].pc = "image" THEN [lock EXCEPT ![Head(task[p].left).zone] = p]
    ELSE lock

\* The locks that a failing Delete gives back.
UnlockedOnFailure(p) == Unlocked(p)

\* Delete returns an error: a VM that is cached and does not exist, or a
\* request that fails.
DeleteFails(p) ==
    /\ \/ /\ task[p].pc = "delete" /\ task[p].left # <<>>
          /\ Cached(Head(task[p].left))
          /\ \/ ~Exists(Head(task[p].left)) /\ UNCHANGED troubles
             \/ Trouble
       \/ /\ task[p].pc = "image"
          /\ lock[Head(task[p].left).zone] = None
          /\ Trouble
    /\ lock' = UnlockedOnFailure(p)
    /\ task' = [task EXCEPT ![p] = Idle]
    /\ IF p[2] = "status"
       THEN Patch(p, [obj[p[1]] EXCEPT !.ready = FALSE])
       ELSE Outdated({}) /\ UNCHANGED obj
    /\ UNCHANGED <<wanted, cache, vms, images, history>>

\* Mutant: the finalizer goes with a zone left.
DeletedButOne(p) == task[p].pc = "delete" /\ Len(task[p].left) <= 1

Deleted(p) == task[p].pc = "delete" /\ task[p].left = <<>>

\* The status controller goes on with Create.
DeleteDone(c) ==
    LET p == <<c, "status">> IN
    /\ Deleted(p)
    /\ SyncInstanceTemplates
    /\ lock' = Unlocked(p)
    /\ \E zones \in Orders(c) :
           task' = [task EXCEPT ![p].pc = "create", ![p].deleted = TRUE,
                                ![p].left = zones]
    /\ UNCHANGED <<obj, stale, wanted, vms, images, raced, misled, undercut>>

-------------------------------------------------------------------------------
(* Create, called by the status controller only.                           *)

Zone(p) == Head(task[p].left)

\* The class's templates in the zone, as a list has them.
Matches(c, list) == {t \in list : t.class = c /\ t.zone = Zone(<<c, "status">>)}

\* Mutant: templates are looked for in a stale cache.
DownloadUnsynced(c) ==
    LET p == <<c, "status">> IN
    /\ task[p].pc = "create" /\ task[p].left # <<>>
    /\ lock[Zone(p)] = None
    /\ lock' = [lock EXCEPT ![Zone(p)] = p]
    /\ images' = images \cup {Source(task[p])}
    /\ task' = [task EXCEPT ![p].pc = "template", ![p].found = Matches(c, cache)]
    /\ UNCHANGED <<obj, stale, wanted, cache, vms, troubles, history>>

\* downloadImage and SyncInstanceTemplates, under the lock of the zone;
\* createTemplate then looks for the templates of the class.
Download(c) ==
    LET p == <<c, "status">> IN
    /\ task[p].pc = "create" /\ task[p].left # <<>>
    /\ lock[Zone(p)] = None
    /\ lock' = [lock EXCEPT ![Zone(p)] = p]
    /\ images' = images \cup {Source(task[p])}
    /\ SyncInstanceTemplates
    /\ task' = [task EXCEPT ![p].pc = "template", ![p].found = Matches(c, cache')]
    /\ misled' = IF Matches(c, cache') = Matches(c, Listed) THEN misled
                 ELSE misled \cup {c}
    /\ UNCHANGED <<obj, stale, wanted, vms, raced, undercut>>

NextZone(p) == [task EXCEPT ![p].pc = "create", ![p].id = None,
                            ![p].found = {}, ![p].left = Tail(@)]

DownloadFails(c) ==
    LET p == <<c, "status">> IN
    /\ task[p].pc = "create" /\ task[p].left # <<>>
    /\ lock[Zone(p)] = None
    /\ Trouble
    /\ task' = NextZone(p)
    /\ UNCHANGED <<obj, stale, wanted, lock, cache, vms, images, history>>

Installed(p, id) ==
    [NextZone(p) EXCEPT
        ![p].done = Append(@, [zone |-> Zone(p), id |-> id])]

\* Mutant: the lock of a zone is kept until Create returns.
LeaveZoneLocked(p, next) ==
    /\ task' = next
    /\ UNCHANGED lock
    /\ undercut' = undercut \ {p[1]}

\* The function for the zone returns and unlocks it.
LeaveZone(p, next) ==
    /\ task' = next
    /\ lock' = Unlocked(p)
    /\ undercut' = undercut \ {p[1]}

UseTemplate(c) ==
    LET p == <<c, "status">> IN
    /\ task[p].pc = "template"
    /\ \E t \in task[p].found :
           /\ t.hash = Hash(task[p].copy.spec)
           /\ LeaveZone(p, Installed(p, t.id))
    /\ UNCHANGED <<obj, stale, wanted, cache, vms, images, troubles, raced, misread, misled>>

\* Outdated templates go, one by one; the identifier of the last is used
\* again.  What is no longer in the cache counts as deleted.
DeleteOutdated(c) ==
    LET p == <<c, "status">> IN
    /\ task[p].pc = "template"
    /\ \E t \in task[p].found :
           /\ t.hash # Hash(task[p].copy.spec)
           /\ Cached(t) => Exists(t)
           /\ vms' = IF Cached(t) THEN [vms EXCEPT ![t.id] = None] ELSE vms
           /\ task' = [task EXCEPT ![p].found = @ \ {t}, ![p].id = t.id,
                  ![p].pc = IF task[p].found = {t} THEN "vm" ELSE "template"]
    /\ UNCHANGED <<obj, stale, wanted, lock, cache, images, troubles, history>>

\* External: GetNextID names the first free identifier and reserves nothing.
GetNextID ==
    LET free == {i \in IDs : vms[i] = None} IN
    CHOOSE i \in free : \A j \in free : i <= j

NewTemplate(c) ==
    LET p == <<c, "status">> IN
    /\ task[p].pc = "template"
    /\ task[p].found = {}
    /\ \E i \in IDs : vms[i] = None
    /\ task' = [task EXCEPT ![p].pc = "vm", ![p].id = GetNextID]
    /\ UNCHANGED <<obj, stale, wanted, lock, cache, vms, images, troubles, history>>

\* createTemplate fails before CreateVM: an outdated template is gone, all
\* identifiers are in use, or a request fails.
CreateTemplateFails(c) ==
    LET p == <<c, "status">>
        outdated == {t \in task[p].found : t.hash # Hash(task[p].copy.spec)}
    IN
    /\ task[p].pc = "template"
    /\ \/ /\ \/ \E t \in outdated : Cached(t) /\ ~Exists(t)
             \/ task[p].found = {} /\ \A i \in IDs : vms[i] # None
          /\ UNCHANGED troubles
       \/ /\ \/ \E t \in outdated : Cached(t)
             \/ task[p].found = {}
          /\ Trouble
    /\ LeaveZone(p, NextZone(p))
    /\ UNCHANGED <<obj, stale, wanted, cache, vms, images, raced, misread, misled>>

CreateVM(c) ==
    LET p == <<c, "status">>
        id == task[p].id
    IN
    /\ task[p].pc = "vm"
    /\ vms[id] = None /\ Source(task[p]) \in images
    /\ vms' = [vms EXCEPT ![id] = Template(c, Zone(p), task[p].copy.spec)]
    /\ LeaveZone(p, Installed(p, id))
    /\ UNCHANGED <<obj, stale, wanted, cache, images, troubles, raced, misread, misled>>

\* The identifier is taken, the image is gone or the request fails; the
\* clean-up deletes the VM with this identifier if it is in the zone.
CreateVMFails(c) ==
    LET p == <<c, "status">>
        e == [id |-> task[p].id, zone |-> Zone(p)]
    IN
    /\ task[p].pc = "vm"
    /\ \/ /\ vms[e.id] # None \/ Source(task[p]) \notin images
          /\ UNCHANGED troubles
       \/ /\ vms[e.id] = None /\ Source(task[p]) \in images
          /\ Trouble
    /\ vms' = IF Exists(e) THEN [vms EXCEPT ![e.id] = None] ELSE vms
    /\ LeaveZone(p, NextZone(p))
    /\ UNCHANGED <<obj, stale, wanted, cache, images, raced, misread, misled>>

\* The status that Create and the status controller leave behind.
Status(o, t) ==
    LET image == IF t.done # <<>> \/ t.deleted THEN GetImageID(t.copy.spec)
                 ELSE t.copy.imageID
        zones == IF t.done # <<>> THEN t.done
                 ELSE IF t.deleted THEN <<>> ELSE t.copy.zones
    IN  [o EXCEPT !.imageID = image, !.zones = zones,
             !.ready = IF image = None THEN FALSE
                       ELSE zones # <<>> \/ t.deleted]

CreateDone(c) ==
    LET p == <<c, "status">> IN
    /\ task[p].pc = "create" /\ task[p].left = <<>>
    /\ SyncInstanceTemplates
    /\ task' = [task EXCEPT ![p] = Idle]
    /\ Patch(p, Status(obj[c], task[p]))
    /\ UNCHANGED <<wanted, lock, vms, images, raced, misled, undercut>>

-------------------------------------------------------------------------------
(* The termination controller.                                             *)

TermBegin(c) ==
    /\ ~InFlight(<<c, "term">>)
    /\ obj[c].alive /\ obj[c].deleting /\ obj[c].finalizer
    /\ task' = [task EXCEPT ![<<c, "term">>] =
           [Idle EXCEPT !.pc = "delete", !.copy = Copy(c), !.left = obj[c].zones]]
    /\ UNCHANGED <<obj, stale, wanted, lock, cache, vms, images, troubles, history>>

\* The finalizer is removed unless the object has changed.
TermDone(c) ==
    LET p == <<c, "term">> IN
    /\ Deleted(p)
    /\ IF task[p].copy.zones = <<>>
       THEN UNCHANGED <<cache, misread, troubles>>
       ELSE SyncInstanceTemplates
    /\ lock' = Unlocked(p)
    /\ task' = [task EXCEPT ![p] = Idle]
    /\ Patch(p, Gone(c))
    /\ UNCHANGED <<wanted, vms, images, raced, misled, undercut>>

-------------------------------------------------------------------------------
(* The hash and the inplaceupdate controller.                              *)

HashReconcile(c) ==
    /\ obj[c].alive /\ ~obj[c].deleting
    /\ obj[c].imageID # None /\ obj[c].zones # <<>>
    /\ obj[c].hash # Hash(obj[c].spec)
    /\ UNCHANGED task
    /\ Write(c, [obj[c] EXCEPT !.hash = Hash(obj[c].spec)])
    /\ UNCHANGED <<wanted, lock, cache, vms, images, troubles, history>>

\* Nothing to update yet, or nothing any more: the event is dropped.  While
\* the class is not ready or its hash is not current the event waits.
InPlaceDropped(c) ==
    /\ c \in wanted /\ ~InFlight(<<c, "inplace">>)
    /\ \/ ~obj[c].alive
       \/ obj[c].imageID = None
       \/ obj[c].zones = <<>>
       \/ /\ obj[c].ready /\ obj[c].hash = Hash(obj[c].spec)
          /\ obj[c].inplace = InPlaceHash(obj[c].spec)
    /\ wanted' = wanted \ {c}
    /\ UNCHANGED <<obj, task, stale, lock, cache, vms, images, troubles, history>>

InPlaceBegin(c) ==
    /\ c \in wanted /\ ~InFlight(<<c, "inplace">>)
    /\ obj[c].alive /\ obj[c].imageID # None /\ obj[c].zones # <<>>
    /\ obj[c].ready /\ obj[c].hash = Hash(obj[c].spec)
    /\ obj[c].inplace # InPlaceHash(obj[c].spec)
    /\ wanted' = wanted \ {c}
    /\ task' = [task EXCEPT ![<<c, "inplace">>] =
                    [Idle EXCEPT !.pc = "update", !.copy = Copy(c)]]
    /\ UNCHANGED <<obj, stale, lock, cache, vms, images, troubles, history>>

\* Update of all templates that the copy names.  The configuration that is
\* written has the hash of the copy in its description.
InPlaceUpdate(c) ==
    LET copy == task[<<c, "inplace">>].copy
        named == {copy.zones[i] : i \in DOMAIN copy.zones}
        updated == {e.id : e \in {n \in named : Cached(n) /\ Exists(n)}}
        ok == \A e \in named : Cached(e)
    IN
    /\ task[<<c, "inplace">>].pc = "update"
    /\ vms' = [id \in IDs |->
           IF id \in updated
           THEN [vms[id] EXCEPT !.opts = copy.spec.opts, !.hash = Hash(copy.spec)]
           ELSE vms[id]]
    /\ task' = [task EXCEPT ![<<c, "inplace">>] = Idle]
    /\ IF ok /\ obj[c].alive
       THEN Write(c, [obj[c] EXCEPT !.inplace = InPlaceHash(copy.spec)])
       ELSE UNCHANGED <<obj, stale>>
    /\ wanted' = IF ok THEN wanted ELSE wanted \cup {c}
    /\ UNCHANGED <<lock, cache, images, troubles, history>>

-------------------------------------------------------------------------------
(* The environment: the scans of unmanaged classes, users, restarts.       *)

UnmanagedScan ==
    /\ Unmanaged
    /\ SyncInstanceTemplates
    /\ UNCHANGED <<obj, task, stale, wanted, lock, vms, images, raced, misled, undercut>>

Edit(c, spec) ==
    /\ Trouble
    /\ obj[c].alive /\ ~obj[c].deleting /\ spec # obj[c].spec
    /\ UNCHANGED task
    /\ Write(c, [obj[c] EXCEPT !.spec = spec])
    /\ wanted' = IF InPlaceHash(spec) # InPlaceHash(obj[c].spec)
                 THEN wanted \cup {c} ELSE wanted
    /\ UNCHANGED <<lock, cache, vms, images, history>>

\* A template that the status does not name: its write was refused, or the
\* last Create failed in that zone.
Unrecorded(c) ==
    \E id \in IDs : /\ vms[id] # None /\ vms[id].class = c
                    /\ [zone |-> vms[id].zone, id |-> id] \notin Named(c)

UserDelete(c) ==
    /\ obj[c].alive /\ ~obj[c].deleting
    /\ UNCHANGED task
    /\ Write(c, IF obj[c].finalizer THEN [obj[c] EXCEPT !.deleting = TRUE]
                ELSE Gone(c))
    /\ raced' = IF InFlight(<<c, "status">>) \/ Unrecorded(c)
                THEN raced \cup {c} ELSE raced
    /\ UNCHANGED <<wanted, lock, cache, vms, images, troubles, misread, misled, undercut>>

\* The operator starts again, with a first scan that may leave out anything.
Restart ==
    /\ Trouble
    /\ task' = [p \in Procs |-> Idle]
    /\ lock' = [z \in Zones |-> None]
    /\ wanted' = {}
    /\ ScanFails({})
    /\ stale' = {}
    /\ undercut' = {}
    /\ UNCHANGED <<obj, vms, images, raced, misled>>

-------------------------------------------------------------------------------

Init ==
    /\ obj = [c \in Classes |-> New(c)]
    /\ task = [p \in Procs |-> Idle]
    /\ stale = {}
    /\ wanted = {}
    /\ lock = [z \in Zones |-> None]
    /\ cache = {}
    /\ vms = [id \in IDs |-> None]
    /\ images = {}
    /\ raced = {}
    /\ misread = {}
    /\ misled = {}
    /\ undercut = {}
    /\ troubles = 0

DeleteStep(p) == DeleteTemplate(p) \/ DeleteImage(p) \/ DeleteFails(p)

CreateStep(c) ==
    \/ Download(c) \/ DownloadFails(c)
    \/ UseTemplate(c) \/ DeleteOutdated(c) \/ NewTemplate(c)
    \/ CreateTemplateFails(c)
    \/ CreateVM(c) \/ CreateVMFails(c)
    \/ CreateDone(c)

StatusReconcile(c) ==
    \/ AddFinalizer(c) \/ StatusBegin(c)
    \/ DeleteStep(<<c, "status">>) \/ DeleteDone(c)
    \/ CreateStep(c)

TermReconcile(c) == TermBegin(c) \/ DeleteStep(<<c, "term">>) \/ TermDone(c)

InPlaceReconcile(c) == InPlaceDropped(c) \/ InPlaceBegin(c) \/ InPlaceUpdate(c)

Next ==
    \/ \E c \in Classes : StatusReconcile(c) \/ TermReconcile(c)
    \/ \E c \in Touched :
           \/ HashReconcile(c)
           \/ InPlaceReconcile(c)
           \/ UserDelete(c)
           \/ \E spec \in Specs : Edit(c, spec)
    \/ UnmanagedScan
    \/ Restart

Spec == Init /\ [][Next]_vars

-------------------------------------------------------------------------------
(* Properties.                                                             *)

Object == [alive : BOOLEAN, deleting : BOOLEAN, finalizer : BOOLEAN,
            ready : BOOLEAN, spec : Specs,
            imageID : {None} \cup {s.image : s \in Specs},
            zones : Seq([zone : Zones, id : IDs]),
            hash : {None} \cup {Hash(s) : s \in Specs},
            inplace : {None} \cup {s.opts : s \in Specs}]

\* Types; a lock is held by a reconcile that is in flight, and none is held
\* by one that has returned, with or without an error (Locks, Unlock in the
\* deferred calls of Create and Delete).
TypeOK ==
    /\ \A c \in Classes : obj[c] \in Object
    /\ \A z \in Zones : lock[z] \in {None} \cup DeleteCalls
    /\ \A z \in Zones : lock[z] # None => InFlight(lock[z])
    /\ stale \subseteq Procs /\ wanted \subseteq Classes
    /\ images \subseteq {Store[z] : z \in Zones} \X {s.image : s \in Specs}

\* A class has at most one template in a zone, whatever was edited, failed
\* or restarted, unless the scan of its own Create once failed and told it
\* wrong about just these templates, which Create does not notice:
\* createTemplate looks for them in a list that it has just made, under the
\* lock of the zone.
OneTemplatePerZone ==
    \A i, j \in IDs :
        (vms[i] # None /\ vms[j] # None /\ vms[i].class \notin misled
            /\ vms[i].class = vms[j].class /\ vms[i].zone = vms[j].zone) => i = j

\* Between the download and the CreateVM that imports the image no Delete in
\* the same zone removes it.  One in a zone that shares the import storage
\* may: the locks are those of the zones.
ImageUnderCreate ==
    \A c \in Classes \ undercut :
        LET p == <<c, "status">> IN
        Importing(task[p]) => Source(task[p]) \in images

\* The zone lock that a reconcile waits for, if any.
WaitsFor(p) ==
    LET zone == IF task[p].pc = "image" THEN Head(task[p].left).zone
                ELSE IF task[p].pc = "create" /\ task[p].left # <<>>
                THEN Head(task[p].left) ELSE None
    IN  IF zone = None THEN None ELSE lock[zone]

\* No reconciles wait for each other's zone locks, and none for its own.
NoLockCycle ==
    \A S \in (SUBSET DeleteCalls) \ {{}} : \E p \in S : WaitsFor(p) \notin S

\* Whoever waits for a Create waits for one that is at work: Create gives the
\* lock of a zone back before it asks for the next.  So only Deletes, which
\* keep the locks of all their zones until they return, can wait for each
\* other for ever.
NoWaitingCreateInTheWay ==
    \A q \in DeleteCalls :
        LET p == WaitsFor(q) IN
        p # None /\ task[p].pc \notin {"delete", "image"} => WaitsFor(p) = None

\* The clean-up after a failing CreateVM removes no template of another class
\* (but for one that a failing scan left out): the identifier is not reserved,
\* but who else takes it is in another zone, where the clean-up does not look.
CleanUpSparesOthers ==
    [][\A c \in Classes : task[<<c, "status">>].pc = "vm"
                              /\ task'[<<c, "status">>] # task[<<c, "status">>] =>
           \A id \in IDs : vms[id] # None /\ vms'[id] = None =>
               vms[id].class \in {c} \cup misread]_vars

\* When an object is gone and its reconciles have returned, no template of
\* the class is left in Proxmox: finalize removes the finalizer only when all
\* templates are deleted.  Two cases are known to leave templates behind:
\* the user deleted the object while status was at work or did not name all
\* that it had made, and a scan failed to list a template of the class, which
\* Delete then takes for deleted.
NoOrphans ==
    \A c \in Classes :
        (~obj[c].alive /\ c \notin raced \cup misread
            /\ \A k \in Controllers : ~InFlight(<<c, k>>)) =>
        \A id \in IDs : vms[id] # None => vms[id].class # c

===============================================================================
