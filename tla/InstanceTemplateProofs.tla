------------------------ MODULE InstanceTemplateProofs ------------------------
(***************************************************************************)
(* Theorems about the templates of the classes, for any number of classes, *)
(* zones, specifications, identifiers and troubles.                        *)
(*                                                                         *)
(* The invariant has four layers.  Shapes says what a reconcile holds at   *)
(* each stage.  Locking ties the zone locks to the stages, and with them   *)
(* the images that are under import.  Lookups says what createTemplate may *)
(* rely on when it has looked for templates under the lock.  Tracing       *)
(* follows the templates of a class from CreateVM to the removal of the    *)
(* finalizer.  Scans may fail at any time: what they leave out is on       *)
(* record in misread, and a Create that went by such a scan in misled.     *)
(***************************************************************************)
EXTENDS InstanceTemplate, WellFoundedInduction, SequenceTheorems, FiniteSetTheorems, TLAPS

-------------------------------------------------------------------------------
(* Shapes.                                                                 *)

Images == {s.image : s \in Specs}
Hashes == {Hash(s) : s \in Specs}
Entries == [zone : Zones, id : IDs]
Items == [id : IDs, class : Classes, zone : Zones, hash : Hashes]
Places == {Store[z] : z \in Zones}

Copies == [spec : Specs, imageID : {None} \cup Images, zones : Seq(Entries)]

VMState == [class : Classes, zone : Zones, hash : Hashes, opts : {s.opts : s \in Specs}]

TaskState ==
    [pc : {"idle", "delete", "image", "create", "template", "vm", "update"},
     copy : Copies \cup {None}, left : Seq(Entries) \cup Seq(Zones),
     found : SUBSET Items, done : Seq(Entries), id : Nat \cup {None}, deleted : BOOLEAN]

\* What the reconcile p has at hand in the stage t.
StageOK(p, t) ==
    /\ t.pc # "idle" => t.copy \in Copies
    /\ t.pc \in {"delete", "image"} =>
           p[2] \in {"status", "term"} /\ t.left \in Seq(Entries)
    /\ t.pc \in {"create", "template", "vm"} =>
           p[2] = "status" /\ t.left \in Seq(Zones)
    /\ t.pc \in {"image", "template", "vm"} => t.left # <<>>
    /\ t.pc = "image" => t.id \in Nat \ {0}
    /\ t.pc = "vm" => t.id \in IDs
    /\ t.pc = "update" => p[2] = "inplace"

Shapes ==
    /\ obj \in [Classes -> Object]
    /\ task \in [Procs -> TaskState]
    /\ \A p \in Procs : StageOK(p, task[p])
    /\ vms \in [IDs -> VMState \cup {None}]
    /\ cache \subseteq Items
    /\ stale \subseteq Procs /\ wanted \subseteq Classes
    /\ images \subseteq Places \X Images

-------------------------------------------------------------------------------
(* Locks and images.                                                       *)

Holding(t, z) == t.pc \in {"delete", "image"} \/ (Importing(t) /\ Head(t.left) = z)

Locking ==
    /\ lock \in [Zones -> DeleteCalls \cup {None}]
    /\ \A z \in Zones : lock[z] # None => Holding(task[lock[z]], z)
    /\ \A p \in Procs : Importing(task[p]) =>
           /\ lock[Head(task[p].left)] = p
           /\ p[1] \in undercut \/ Source(task[p]) \in images

-------------------------------------------------------------------------------
(* Lookups.                                                                *)

\* The template of class c in the zone.
TemplateOf(c, z, id) == vms[id] # None /\ vms[id].class = c /\ vms[id].zone = z

InCache(c, z, id) == \E t \in cache : t.class = c /\ t.zone = z /\ t.id = id

\* The cache has the templates of the zone that no scan has left out.
Scanned(z) ==
    \A id \in IDs : vms[id] # None /\ vms[id].zone = z =>
        Lists(cache, id) \/ vms[id].class \in misread

\* What createTemplate has found under the lock of the zone.
Lookup(c, t) ==
    /\ t.pc = "template" =>
           /\ \A e \in t.found : e.zone = Head(t.left)
           /\ Scanned(Head(t.left))
           /\ c \notin misled =>
                  /\ \A id \in IDs : TemplateOf(c, Head(t.left), id) =>
                         \E e \in t.found : e.id = id
                  /\ \A e, f \in t.found : e = f
    /\ t.pc = "vm" =>
           /\ c \notin misled =>
                  \A id \in IDs : TemplateOf(c, Head(t.left), id) => id = t.id
           /\ vms[t.id] # None /\ vms[t.id].zone = Head(t.left) =>
                  vms[t.id].class \in {c} \cup misread

Lookups == \A c \in Classes : Lookup(c, task[<<c, "status">>])

-------------------------------------------------------------------------------
(* Tracing.                                                                *)

Creating(t) == t.pc \in {"create", "template", "vm"}

\* The templates of class c are all among the entries of a sequence.
AllIn(c, s) ==
    \A id \in IDs : vms[id] # None /\ vms[id].class = c =>
        \E i \in 1..Len(s) : s[i] = [zone |-> vms[id].zone, id |-> id]

NoTemplates(c) == \A id \in IDs : vms[id] # None => vms[id].class # c

\* A template is in the cache unless status is about to list it.
Known(c) ==
    c \notin misread /\ ~Creating(task[<<c, "status">>]) =>
        \A id \in IDs : vms[id] # None /\ vms[id].class = c =>
            InCache(c, vms[id].zone, id)

\* A reconcile that may write has read an object of this kind.
Current(c) ==
    /\ InFlight(<<c, "status">>) /\ <<c, "status">> \notin stale =>
           obj[c].alive /\ ~obj[c].deleting /\ obj[c].finalizer
    /\ InFlight(<<c, "term">>) /\ <<c, "term">> \notin stale =>
           obj[c].alive /\ obj[c].deleting
    /\ InFlight(<<c, "term">>) => ~obj[c].alive \/ obj[c].deleting
    /\ ~obj[c].finalizer => obj[c].zones = <<>>

\* From the deletion by the user to the removal of the finalizer.
Traced(c) ==
    c \notin raced \cup misread =>
        /\ ~obj[c].alive \/ obj[c].deleting => ~InFlight(<<c, "status">>)
        /\ obj[c].alive /\ obj[c].deleting => AllIn(c, obj[c].zones)
        /\ task[<<c, "term">>].pc = "delete" => AllIn(c, task[<<c, "term">>].left)
        /\ task[<<c, "term">>].pc = "image" => AllIn(c, Tail(task[<<c, "term">>].left))
        /\ ~obj[c].alive => NoTemplates(c)

Tracing == \A c \in Classes : Known(c) /\ Current(c) /\ Traced(c)

IInv == Shapes /\ Locking /\ Lookups /\ OneTemplatePerZone /\ Tracing

-------------------------------------------------------------------------------
(* What most steps have in common.                                         *)

\* The reconcile p goes on to the stage t.
Step(p, t) ==
    /\ p \in Procs /\ t \in TaskState /\ StageOK(p, t)
    /\ task' = [task EXCEPT ![p] = t]

\* Templates are removed or changed in place, and none is made.
VMsStay ==
    \A id \in IDs : vms'[id] # None =>
        /\ vms[id] # None
        /\ vms'[id].class = vms[id].class /\ vms'[id].zone = vms[id].zone

\* A list has all templates but those that are on record as left out.
Complete(list, missing) ==
    \A id \in IDs : vms[id] # None => Lists(list, id) \/ vms[id].class \in missing

\* The cache is as it was, or a list of what exists.
CacheStays ==
    \/ cache' = cache
    \/ cache' \subseteq Listed /\ vms' = vms /\ Complete(cache', misread')

\* Copies that were out of date stay so.
StaleStays == \A q \in Procs : q \in stale /\ task'[q].pc # "idle" => q \in stale'

HistoryStays ==
    raced \subseteq raced' /\ misread \subseteq misread' /\ misled \subseteq misled'

\* The reconciles of a class are reconciles, and two of them call Delete.
LEMMA ProcsOf ==
    ASSUME NEW c \in Classes
    PROVE  /\ <<c, "status">> \in Procs /\ <<c, "term">> \in Procs
           /\ <<c, "inplace">> \in Procs
           /\ <<c, "status">> \in DeleteCalls /\ <<c, "term">> \in DeleteCalls
BY DEF Procs, Controllers, DeleteCalls

\* What SyncInstanceTemplates lists.
LEMMA ListedOf ==
    ASSUME Shapes
    PROVE  /\ Listed \subseteq Items
           /\ \A t \in Listed : /\ t.id \in IDs /\ vms[t.id] # None /\ t = Entry(t.id)
                                /\ t.class = vms[t.id].class /\ t.zone = vms[t.id].zone
           /\ \A id \in IDs : vms[id] # None =>
                  \E t \in Listed : /\ t.id = id /\ t.class = vms[id].class
                                    /\ t.zone = vms[id].zone
<1>1. \A id \in IDs : vms[id] # None => vms[id] \in VMState
  BY DEF Shapes
<1>2. ASSUME NEW id \in IDs, vms[id] # None
      PROVE  /\ Entry(id) \in Items
             /\ Entry(id).id = id /\ Entry(id).class = vms[id].class
             /\ Entry(id).zone = vms[id].zone
  BY <1>1, <1>2 DEF Entry, VMState, Items
<1>3. \A t \in Listed : \E id \in IDs : vms[id] # None /\ t = Entry(id)
  BY DEF Listed
<1>4. \A id \in IDs : vms[id] # None => Entry(id) \in Listed
  BY DEF Listed
<1> QED BY <1>2, <1>3, <1>4

\* What SyncInstanceTemplates does, whether it fails or not.
LEMMA SyncOf ==
    ASSUME Shapes, SyncInstanceTemplates
    PROVE  /\ cache' = cache \/ cache' \subseteq Listed
           /\ Complete(cache', misread') /\ misread \subseteq misread'
<1>1. CASE cache' = Listed /\ UNCHANGED misread
  <2>1. \A id \in IDs : vms[id] # None => Lists(Listed, id)
    BY ListedOf DEF Lists
  <2> QED BY <1>1, <2>1 DEF Complete
<1>2. CASE ScanFails(cache)
  <2>1. \A id \in IDs : vms[id] # None /\ ~Lists(cache', id) =>
            vms[id].class \in LeftOut(cache')
    BY DEF LeftOut
  <2>2. cache' = cache \/ cache' \subseteq Listed
    BY <1>2 DEF ScanFails
  <2>3. misread' = misread \cup LeftOut(cache')
    BY <1>2 DEF ScanFails
  <2> QED BY <2>1, <2>2, <2>3 DEF Complete
<1> QED BY <1>1, <1>2 DEF SyncInstanceTemplates

\* The order in which Create goes through the zones.
LEMMA OrdersOf ==
    ASSUME NEW c \in Classes
    PROVE  Orders(c) \subseteq Seq(Zones)
<1>1. ZonesOf[c] \subseteq Zones /\ IsFiniteSet(ZonesOf[c])
  BY InstanceTemplateAssumption, FS_Subset
<1>2. PICK n \in Nat : n = Cardinality(ZonesOf[c])
  BY <1>1, FS_CardinalityType
<1>3. \A s \in Orders(c) : s \in [1..n -> Zones]
  BY <1>1, <1>2 DEF Orders
<1>4. \A s \in [1..n -> Zones] : s \in Seq(Zones)
  OBVIOUS
<1> QED BY <1>3, <1>4

\* A reconcile goes on, and the rest has the right types.
LEMMA ShapesStep ==
    ASSUME Shapes, NEW p, NEW t, Step(p, t), obj' \in [Classes -> Object],
           vms' \in [IDs -> VMState \cup {None}], CacheStays, stale' \subseteq Procs,
           wanted' \subseteq Classes, images' \subseteq Places \X Images
    PROVE  Shapes'
<1>1. cache' \subseteq Items
  BY ListedOf DEF Shapes, CacheStays
<1>2. task' \in [Procs -> TaskState]
  BY DEF Shapes, Step
<1>3. \A q \in Procs : StageOK(q, task'[q])
  BY DEF Shapes, Step
<1>4. \A q \in Procs : StageOK(q, task[q])'
  BY <1>3 DEF StageOK
<1> QED BY <1>1, <1>2, <1>4 DEF Shapes

\* Only the reconcile that acts takes locks or gives back its own.
LEMMA LockingStep ==
    ASSUME Shapes, Locking, NEW p, NEW t, Step(p, t),
           lock' \in [Zones -> DeleteCalls \cup {None}],
           \A z \in Zones : lock[z] # p /\ lock[z] # None => lock'[z] = lock[z],
           \A z \in Zones : lock'[z] = lock[z] \/ lock'[z] = p \/ lock'[z] = None,
           \A z \in Zones : lock'[z] = p => Holding(t, z),
           Importing(t) =>
               lock'[Head(t.left)] = p /\ (p[1] \in undercut' \/ Source(t) \in images'),
           \A q \in Procs \ {p} : Importing(task[q]) =>
               q[1] \in undercut' \/ Source(task[q]) \in images'
    PROVE  Locking'
<1>0. task'[p] = t /\ \A q \in Procs \ {p} : task'[q] = task[q]
  BY DEF Step, Shapes
<1>1. ASSUME NEW z \in Zones, lock'[z] # None
      PROVE  Holding(task'[lock'[z]], z)
  <2>1. CASE lock'[z] = p
    BY <1>0, <2>1
  <2>2. CASE lock'[z] # p
    <3>1. lock'[z] = lock[z] /\ lock[z] \in Procs
      BY <1>1, <2>2 DEF DeleteCalls, Procs, Controllers, Locking
    <3>2. task'[lock'[z]] = task[lock[z]]
      BY <1>0, <2>2, <3>1
    <3> QED BY <1>1, <3>1, <3>2 DEF Locking
  <2> QED BY <2>1, <2>2
<1>2. ASSUME NEW q \in Procs, Importing(task'[q])
      PROVE  /\ lock'[Head(task'[q].left)] = q
             /\ q[1] \in undercut' \/ Source(task'[q]) \in images'
  <2>1. CASE q = p
    BY <1>0, <1>2, <2>1
  <2>2. CASE q # p
    <3>1. task'[q] = task[q] /\ Importing(task[q]) /\ q \in Procs \ {p}
      BY <1>0, <1>2, <2>2
    <3>2. task[q].left \in Seq(Zones) /\ task[q].left # <<>> /\ q[2] = "status"
      BY <3>1 DEF Shapes, StageOK, Importing
    <3>3. Head(task[q].left) \in Zones /\ q \in DeleteCalls
      BY <3>2 DEF Procs, DeleteCalls
    <3>4. lock[Head(task[q].left)] = q /\ q # None
      BY <3>1, <3>3, InstanceTemplateAssumption DEF Locking, DeleteCalls
    <3>5. lock'[Head(task[q].left)] = q
      BY <2>2, <3>3, <3>4
    <3> QED BY <3>1, <3>5
  <2> QED BY <2>1, <2>2
<1>3. (\A z \in Zones : lock[z] # None => Holding(task[lock[z]], z))'
  BY <1>1 DEF Holding, Importing
<1>4. (\A q \in Procs : Importing(task[q]) =>
           /\ lock[Head(task[q].left)] = q
           /\ q[1] \in undercut \/ Source(task[q]) \in images)'
  BY <1>2 DEF Importing, Source
<1> QED BY <1>3, <1>4 DEF Locking

\* Templates that go and lists that are made anew leave what createTemplate
\* has found as true as it was.
LEMMA LookupStays ==
    ASSUME Shapes, NEW c \in Classes, NEW t \in TaskState, t.pc = "vm" => t.id \in IDs,
           Lookup(c, t), VMsStay, CacheStays, HistoryStays
    PROVE  Lookup(c, t)'
<1> DEFINE z == Head(t.left)
<1>0. \A id \in IDs : TemplateOf(c, z, id)' => TemplateOf(c, z, id)
  BY DEF TemplateOf, VMsStay
<1>1. CASE t.pc = "template"
  <2>1. Scanned(z)'
    <3> SUFFICES ASSUME NEW id \in IDs, vms'[id] # None, vms'[id].zone = z
                 PROVE  Lists(cache, id)' \/ vms'[id].class \in misread'
      BY DEF Scanned
    <3>1. /\ vms[id] # None /\ vms[id].zone = z
          /\ vms'[id].class = vms[id].class /\ vms'[id].zone = vms[id].zone
      BY DEF VMsStay
    <3>2. CASE cache' = cache
      BY <1>1, <3>1, <3>2 DEF Lookup, Scanned, Lists, HistoryStays
    <3>3. CASE Complete(cache', misread')
      BY <3>1, <3>3 DEF Complete, Lists
    <3> QED BY <3>2, <3>3 DEF CacheStays
  <2>2. c \notin misled' => c \notin misled
    BY DEF HistoryStays
  <2> QED BY <1>0, <1>1, <2>1, <2>2 DEF Lookup
<1>2. CASE t.pc = "vm"
  <2>1. c \notin misled' => \A id \in IDs : TemplateOf(c, z, id)' => id = t.id
    BY <1>0, <1>2 DEF Lookup, HistoryStays
  <2>2. vms'[t.id] # None /\ vms'[t.id].zone = z => vms'[t.id].class \in {c} \cup misread'
    BY <1>2 DEF Lookup, VMsStay, HistoryStays
  <2> QED BY <1>2, <2>1, <2>2 DEF Lookup
<1> QED BY <1>1, <1>2 DEF Lookup

\* The same for all classes: only the one that acts has to be looked at.
LEMMA LookupsStep ==
    ASSUME Shapes, Lookups, OneTemplatePerZone, NEW p, NEW t, Step(p, t),
           VMsStay, CacheStays, HistoryStays,
           p[2] = "status" => Lookup(p[1], t)'
    PROVE  Lookups' /\ OneTemplatePerZone'
<1>1. ASSUME NEW c \in Classes PROVE Lookup(c, task[<<c, "status">>])'
  <2>0. <<c, "status">> \in Procs
    BY ProcsOf
  <2>1. CASE p = <<c, "status">>
    <3>1. task'[<<c, "status">>] = t /\ p[1] = c /\ p[2] = "status"
      BY <2>0, <2>1 DEF Step, Shapes
    <3> QED BY <3>1 DEF Lookup, TemplateOf, Scanned, Lists
  <2>2. CASE p # <<c, "status">>
    <3>1. PICK u \in TaskState : u = task[<<c, "status">>] /\ StageOK(<<c, "status">>, u)
      BY <2>0 DEF Shapes
    <3>2. task'[<<c, "status">>] = u
      BY <2>0, <2>2, <3>1 DEF Step, Shapes
    <3>3. u.pc = "vm" => u.id \in IDs
      BY <3>1 DEF StageOK
    <3>4. Lookup(c, u)
      BY <3>1 DEF Lookups
    <3>5. Lookup(c, u)'
      BY <3>3, <3>4, LookupStays
    <3> QED BY <3>2, <3>5 DEF Lookup, TemplateOf, Scanned, Lists
  <2> QED BY <2>1, <2>2
<1>2. OneTemplatePerZone'
  BY DEF OneTemplatePerZone, VMsStay, HistoryStays
<1> QED BY <1>1, <1>2 DEF Lookups

-------------------------------------------------------------------------------
(* Tracing, class by class.                                                *)

\* No template of class c is made.
ClassStays(c) ==
    \A id \in IDs : vms'[id] # None /\ vms'[id].class = c =>
        /\ vms[id] # None /\ vms[id].class = c /\ vms'[id].zone = vms[id].zone

\* Status lists the templates when it stops creating.
ListsInTheEnd(c) ==
    Creating(task[<<c, "status">>]) =>
        Creating(task'[<<c, "status">>]) \/ Complete(cache', misread')

\* A reconcile of status begins only with an object that is in use.
BeginsInUse(c) ==
    task'[<<c, "status">>].pc # "idle" =>
        \/ InFlight(<<c, "status">>)
        \/ obj[c].alive /\ ~obj[c].deleting /\ obj[c].finalizer

\* The object is neither deleted nor released.  Status may record its work.
SameUse(c) ==
    /\ obj'[c].alive = obj[c].alive /\ obj'[c].deleting = obj[c].deleting
    /\ obj[c].finalizer => obj'[c].finalizer
    /\ \/ obj'[c].zones = obj[c].zones
       \/ obj[c].finalizer /\ InFlight(<<c, "status">>)

\* A step that does not end the use of the object of c, nor terminates it.
Quiet(c) ==
    /\ SameUse(c)
    /\ task'[<<c, "term">>] = task[<<c, "term">>]
    /\ BeginsInUse(c) /\ ListsInTheEnd(c)
    /\ ClassStays(c) \/ (InFlight(<<c, "status">>) /\ Creating(task'[<<c, "status">>]))

\* The templates of c stay known.
LEMMA KnownStep ==
    ASSUME Shapes, NEW c \in Classes, Known(c), ClassStays(c), CacheStays, HistoryStays,
           ListsInTheEnd(c)
    PROVE  Known(c)'
<1>1. SUFFICES ASSUME c \notin misread', ~Creating(task'[<<c, "status">>]),
                      NEW id \in IDs, vms'[id] # None /\ vms'[id].class = c
               PROVE  InCache(c, vms[id].zone, id)'
  BY DEF Known, Creating
<1>2. /\ vms[id] # None /\ vms[id].class = c /\ vms'[id].zone = vms[id].zone
      /\ c \notin misread
  BY <1>1 DEF ClassStays, HistoryStays
<1>3. CASE Complete(cache', misread')
  <2>1. Lists(cache', id)
    BY <1>1, <1>2, <1>3 DEF Complete
  <2> QED BY <1>2, <2>1 DEF InCache, Lists
<1>4. CASE ~Complete(cache', misread') /\ cache' = cache
  <2>1. ~Creating(task[<<c, "status">>])
    BY <1>1, <1>4 DEF ListsInTheEnd
  <2>2. InCache(c, vms[id].zone, id)
    BY <1>2, <2>1 DEF Known
  <2> QED BY <1>2, <1>4, <2>2 DEF InCache
<1> QED BY <1>3, <1>4 DEF CacheStays

\* Entries hold the templates of c as long as none is made.
LEMMA AllInStays ==
    ASSUME NEW c, NEW s, AllIn(c, s), ClassStays(c)
    PROVE  AllIn(c, s)'
BY DEF AllIn, ClassStays

\* Fewer templates, or none.
LEMMA NoTemplatesStays ==
    ASSUME NEW c, NoTemplates(c), ClassStays(c)
    PROVE  NoTemplates(c)'
BY DEF NoTemplates, ClassStays

\* A step that does not touch a class, and keeps what the provider knows, keeps the
\* trace from its templates to its object.
LEMMA QuietTraced ==
    ASSUME Shapes, NEW c \in Classes, Known(c), Current(c), Traced(c), Quiet(c),
           CacheStays, StaleStays, HistoryStays
    PROVE  Known(c)' /\ Current(c)' /\ Traced(c)'
<1>0. <<c, "status">> \in Procs /\ <<c, "term">> \in Procs
  BY ProcsOf
<1>1. Known(c)'
  <2>1. CASE ClassStays(c)
    BY <2>1, KnownStep DEF Quiet
  <2>2. CASE Creating(task'[<<c, "status">>])
    BY <2>2 DEF Known, Creating
  <2> QED BY <2>1, <2>2 DEF Quiet
<1>2. Current(c)'
  <2>1. InFlight(<<c, "status">>)' /\ <<c, "status">> \notin stale' =>
            obj'[c].alive /\ ~obj'[c].deleting /\ obj'[c].finalizer
    BY <1>0 DEF Current, Quiet, SameUse, BeginsInUse, StaleStays, InFlight
  <2>2. InFlight(<<c, "term">>)' /\ <<c, "term">> \notin stale' =>
            obj'[c].alive /\ obj'[c].deleting
    BY <1>0 DEF Current, Quiet, SameUse, StaleStays, InFlight
  <2>3. InFlight(<<c, "term">>)' => ~obj'[c].alive \/ obj'[c].deleting
    BY DEF Current, Quiet, SameUse, InFlight
  <2>4. ~obj'[c].finalizer => obj'[c].zones = <<>>
    BY DEF Current, Quiet, SameUse
  <2> QED BY <2>1, <2>2, <2>3, <2>4 DEF Current
<1>3. ASSUME c \notin raced' \cup misread'
      PROVE  /\ ~obj'[c].alive \/ obj'[c].deleting => ~InFlight(<<c, "status">>)'
             /\ obj'[c].alive /\ obj'[c].deleting => AllIn(c, obj[c].zones)'
             /\ task'[<<c, "term">>].pc = "delete" => AllIn(c, task[<<c, "term">>].left)'
             /\ task'[<<c, "term">>].pc = "image" => AllIn(c, Tail(task[<<c, "term">>].left))'
             /\ ~obj'[c].alive => NoTemplates(c)'
  <2>1. c \notin raced \cup misread
    BY <1>3 DEF HistoryStays
  <2>2. ~obj'[c].alive \/ obj'[c].deleting => ~InFlight(<<c, "status">>)'
    BY <2>1 DEF Traced, Quiet, SameUse, BeginsInUse, InFlight
  <2>3. CASE InFlight(<<c, "status">>)
    <3>1. obj[c].alive /\ ~obj[c].deleting
      BY <2>1, <2>3 DEF Traced
    <3>2. ~InFlight(<<c, "term">>)
      BY <3>1 DEF Current
    <3> QED BY <2>2, <3>1, <3>2 DEF Quiet, SameUse, InFlight
  <2>4. CASE ~InFlight(<<c, "status">>)
    <3>0. ClassStays(c) /\ obj'[c].zones = obj[c].zones
      BY <2>4 DEF Quiet, SameUse
    <3>1. obj'[c].alive /\ obj'[c].deleting => AllIn(c, obj[c].zones)'
      <4> HAVE obj'[c].alive /\ obj'[c].deleting
      <4>1. PICK s : s = obj[c].zones /\ AllIn(c, s)
        BY <2>1 DEF Traced, Quiet, SameUse
      <4>2. AllIn(c, s)' /\ obj'[c].zones = s
        BY <3>0, <4>1, AllInStays DEF Quiet
      <4> QED BY <4>2 DEF AllIn
    <3>2. task'[<<c, "term">>].pc = "delete" => AllIn(c, task[<<c, "term">>].left)'
      <4> HAVE task'[<<c, "term">>].pc = "delete"
      <4>1. PICK s : s = task[<<c, "term">>].left /\ AllIn(c, s)
        BY <2>1 DEF Traced, Quiet
      <4>2. AllIn(c, s)' /\ task'[<<c, "term">>].left = s
        BY <3>0, <4>1, AllInStays DEF Quiet
      <4> QED BY <4>2 DEF AllIn
    <3>3. task'[<<c, "term">>].pc = "image" => AllIn(c, Tail(task[<<c, "term">>].left))'
      <4> HAVE task'[<<c, "term">>].pc = "image"
      <4>1. PICK s : s = Tail(task[<<c, "term">>].left) /\ AllIn(c, s)
        BY <2>1 DEF Traced, Quiet
      <4>2. AllIn(c, s)' /\ Tail(task'[<<c, "term">>].left) = s
        BY <3>0, <4>1, AllInStays DEF Quiet
      <4> QED BY <4>2 DEF AllIn
    <3>4. ~obj'[c].alive => NoTemplates(c)'
      BY <2>1, <3>0, NoTemplatesStays DEF Traced, Quiet, SameUse
    <3> QED BY <2>2, <3>1, <3>2, <3>3, <3>4
  <2> QED BY <2>3, <2>4
<1>4. Traced(c)'
  BY <1>3 DEF Traced
<1> QED BY <1>1, <1>2, <1>4

\* A reconcile of class c does nothing to the other classes.
LEMMA OthersQuiet ==
    ASSUME Shapes, NEW c \in Classes, NEW p \in Procs, p[1] = c, NEW t, Step(p, t),
           \A d \in Classes \ {c} : obj'[d] = obj[d] /\ ClassStays(d)
    PROVE  \A d \in Classes \ {c} : Quiet(d)
<1> SUFFICES ASSUME NEW d \in Classes \ {c} PROVE Quiet(d)
  OBVIOUS
<1>1. <<d, "status">> \in Procs /\ <<d, "term">> \in Procs
  BY ProcsOf
<1>2. p # <<d, "status">> /\ p # <<d, "term">>
  OBVIOUS
<1>3. /\ task'[<<d, "status">>] = task[<<d, "status">>]
      /\ task'[<<d, "term">>] = task[<<d, "term">>]
  BY <1>1, <1>2 DEF Step, Shapes
<1> QED BY <1>3 DEF Quiet, SameUse, BeginsInUse, ListsInTheEnd, InFlight, Creating

\* Templates that only go stay with their class.
LEMMA VMsStayInClass ==
    ASSUME VMsStay, NEW c
    PROVE  ClassStays(c)
BY DEF VMsStay, ClassStays

\* Tracing is kept by a step that is quiet for all classes.
LEMMA TracingStep ==
    ASSUME Shapes, Tracing, \A c \in Classes : Quiet(c),
           CacheStays, StaleStays, HistoryStays
    PROVE  Tracing'
BY QuietTraced DEF Tracing

-------------------------------------------------------------------------------
(* Locks that are kept and locks that are given back.                      *)

\* A free lock is not held by a reconcile.
LEMMA NoneIsNoProc ==
    ASSUME NEW p \in Procs
    PROVE  p # None
BY InstanceTemplateAssumption DEF Procs, Controllers

\* A reconcile that goes on with the locks it has.
LEMMA LockingKept ==
    ASSUME Shapes, Locking, NEW p, NEW t, Step(p, t),
           UNCHANGED <<lock, images, undercut>>,
           \A z \in Zones : Holding(task[p], z) => Holding(t, z),
           Importing(t) => /\ Importing(task[p]) /\ Source(t) = Source(task[p])
                           /\ Head(t.left) = Head(task[p].left)
    PROVE  Locking'
<1>1. lock' \in [Zones -> DeleteCalls \cup {None}] /\ p \in Procs /\ p # None
  BY NoneIsNoProc DEF Locking, Step
<1>2. \A z \in Zones : lock'[z] = p => Holding(t, z)
  BY <1>1 DEF Locking
<1>3. Importing(t) =>
          lock'[Head(t.left)] = p /\ (p[1] \in undercut' \/ Source(t) \in images')
  BY <1>1 DEF Locking
<1>4. \A q \in Procs \ {p} : Importing(task[q]) =>
          q[1] \in undercut' \/ Source(task[q]) \in images'
  BY DEF Locking
<1> QED BY <1>1, <1>2, <1>3, <1>4, LockingStep

\* A reconcile that gives back its locks.
LEMMA LockingReleased ==
    ASSUME Shapes, Locking, NEW p, NEW t, Step(p, t), lock' = Unlocked(p),
           \/ undercut' = undercut
           \/ p[2] = "status" /\ undercut' = undercut \ {p[1]},
           images \subseteq images', ~Importing(t)
    PROVE  Locking'
<1>1. lock \in [Zones -> DeleteCalls \cup {None}] /\ p \in Procs /\ p # None
  BY NoneIsNoProc DEF Locking, Step
<1>2. lock' \in [Zones -> DeleteCalls \cup {None}]
      /\ \A z \in Zones : lock'[z] = IF lock[z] = p THEN None ELSE lock[z]
  BY <1>1 DEF Unlocked
<1>3. \A z \in Zones : lock'[z] # p
  BY <1>1, <1>2
<1>4. \A z \in Zones : lock[z] # p /\ lock[z] # None => lock'[z] = lock[z]
  BY <1>2
<1>5. \A z \in Zones : lock'[z] = lock[z] \/ lock'[z] = p \/ lock'[z] = None
  BY <1>2
<1>6. ASSUME NEW q \in Procs \ {p}, Importing(task[q])
      PROVE  q[1] \in undercut' \/ Source(task[q]) \in images'
  <2>1. q[1] \in undercut \/ Source(task[q]) \in images
    BY <1>6 DEF Locking
  <2>2. q[2] = "status"
    BY <1>6 DEF Shapes, StageOK, Importing
  <2>3. p[2] = "status" => p[1] # q[1]
    BY <1>1, <2>2 DEF Procs
  <2> QED BY <2>1, <2>3
<1> QED BY <1>2, <1>3, <1>4, <1>5, <1>6, LockingStep

\* p takes the lock of the zone.
Takes(p, zone) == lock[zone] = None /\ lock' = [lock EXCEPT ![zone] = p]

\* What the creates in other zones import stays, or they are on record.
OthersKept(zone) ==
    \A q \in Procs :
        (/\ Importing(task[q]) /\ Head(task[q].left) # zone
         /\ q[1] \in undercut \/ Source(task[q]) \in images) =>
        q[1] \in undercut' \/ Source(task[q]) \in images'

\* A reconcile that takes the lock of a zone that is free.
LEMMA LockingTaken ==
    ASSUME Shapes, Locking, NEW p, p \in DeleteCalls, NEW t, Step(p, t),
           NEW zone \in Zones, Takes(p, zone),
           \A z \in Zones : Holding(task[p], z) => Holding(t, z), Holding(t, zone),
           Importing(t) => Head(t.left) = zone /\ Source(t) \in images', OthersKept(zone)
    PROVE  Locking'
<1>1. lock \in [Zones -> DeleteCalls \cup {None}] /\ p \in Procs /\ p # None
  BY NoneIsNoProc DEF Locking, Step
<1>2. lock' \in [Zones -> DeleteCalls \cup {None}]
      /\ lock[zone] = None /\ lock'[zone] = p
      /\ \A z \in Zones : z # zone => lock'[z] = lock[z]
  BY <1>1 DEF Takes
<1>3. \A z \in Zones : lock[z] # p /\ lock[z] # None => lock'[z] = lock[z]
  BY <1>2
<1>4. \A z \in Zones : lock'[z] = lock[z] \/ lock'[z] = p \/ lock'[z] = None
  BY <1>2
<1>5. \A z \in Zones : lock'[z] = p => Holding(t, z)
  BY <1>1, <1>2 DEF Locking
<1>6. Importing(t) => lock'[Head(t.left)] = p /\ Source(t) \in images'
  BY <1>2
<1>7. ASSUME NEW q \in Procs \ {p}, Importing(task[q])
      PROVE  q[1] \in undercut' \/ Source(task[q]) \in images'
  <2>1. task[q].left \in Seq(Zones) /\ task[q].left # <<>>
    BY <1>7 DEF Shapes, StageOK, Importing
  <2>2. PICK z \in Zones : z = Head(task[q].left)
    BY <2>1
  <2>3. lock[z] = q /\ q # None /\ (q[1] \in undercut \/ Source(task[q]) \in images)
    BY <1>7, <2>2, NoneIsNoProc DEF Locking
  <2>4. z # zone
    BY <1>2, <2>3
  <2> QED BY <1>7, <2>2, <2>3, <2>4 DEF OthersKept
<1> QED BY <1>2, <1>3, <1>4, <1>5, <1>6, <1>7, LockingStep

-------------------------------------------------------------------------------
(* The status controller.                                                  *)

\* At most the object of c is written, and it stays in use.
ObjStays(c) ==
    /\ obj' \in [Classes -> Object] /\ stale' \subseteq Procs /\ StaleStays
    /\ \A d \in Classes \ {c} : obj'[d] = obj[d]
    /\ SameUse(c)

\* A step of a controller other than termination that makes no template.
LEMMA QuietStep ==
    ASSUME IInv, NEW c \in Classes, NEW p \in {<<c, "status">>, <<c, "inplace">>},
           NEW t, Step(p, t), ObjStays(c), wanted' \subseteq Classes, HistoryStays,
           vms' \in [IDs -> VMState \cup {None}], VMsStay, CacheStays,
           images' \subseteq Places \X Images, Locking',
           p[2] = "status" =>
               /\ t.pc # "idle" =>
                      \/ InFlight(p)
                      \/ obj[c].alive /\ ~obj[c].deleting /\ obj[c].finalizer
               /\ Creating(task[p]) => Creating(t) \/ Complete(cache', misread')
               /\ Lookup(c, t)'
    PROVE  IInv'
<1>0. <<c, "status">> \in Procs /\ <<c, "term">> \in Procs /\ p \in Procs /\ Shapes
      /\ p[1] = c
  <2>1. <<c, "status">> \in Procs /\ <<c, "term">> \in Procs /\ <<c, "inplace">> \in Procs
    BY ProcsOf
  <2>2. p[1] = c
    OBVIOUS
  <2> QED BY <2>1, <2>2 DEF IInv
<1>1. Shapes'
  BY <1>0, ShapesStep DEF ObjStays
<1>2. Lookups' /\ OneTemplatePerZone'
  BY <1>0, LookupsStep DEF IInv
<1>3. \A d \in Classes : ClassStays(d)
  BY VMsStayInClass
<1>4. \A d \in Classes \ {c} : Quiet(d)
  BY <1>0, <1>3, OthersQuiet DEF ObjStays
<1>5. Quiet(c)
  <2>1. task'[<<c, "term">>] = task[<<c, "term">>]
    BY <1>0 DEF Step, Shapes
  <2>2. CASE p = <<c, "status">>
    <3>1. task'[<<c, "status">>] = t
      BY <1>0, <2>2 DEF Step, Shapes
    <3> QED BY <1>3, <2>1, <2>2, <3>1 DEF Quiet, ObjStays, BeginsInUse, ListsInTheEnd
  <2>3. CASE p = <<c, "inplace">>
    <3>1. task'[<<c, "status">>] = task[<<c, "status">>]
      BY <1>0, <2>3 DEF Step, Shapes
    <3> QED BY <1>3, <2>1, <3>1 DEF Quiet, ObjStays, BeginsInUse, ListsInTheEnd, InFlight
  <2> QED BY <2>2, <2>3
<1>6. Tracing'
  BY <1>0, <1>4, <1>5, TracingStep DEF IInv, ObjStays
<1> QED BY <1>1, <1>2, <1>6 DEF IInv

\* No object is written.
LEMMA ObjUnchanged ==
    ASSUME Shapes, NEW c, UNCHANGED <<obj, stale>>
    PROVE  ObjStays(c)
BY DEF ObjStays, Shapes, StaleStays, SameUse

\* A step of status that leaves the object alone.
LEMMA StatusStep ==
    ASSUME IInv, NEW c \in Classes, NEW t, Step(<<c, "status">>, t),
           UNCHANGED <<obj, stale, wanted>>, HistoryStays,
           vms' \in [IDs -> VMState \cup {None}], VMsStay, CacheStays,
           images' \subseteq Places \X Images,
           \/ InFlight(<<c, "status">>)
           \/ obj[c].alive /\ ~obj[c].deleting /\ obj[c].finalizer,
           Creating(task[<<c, "status">>]) => Creating(t),
           Locking', Lookup(c, t)'
    PROVE  IInv'
<1>1. ObjStays(c) /\ wanted' \subseteq Classes
  BY ObjUnchanged DEF IInv, Shapes
<1> QED BY <1>1, QuietStep

\* A VM that is deleted, and nothing else in Proxmox.
LEMMA VMDeleted ==
    ASSUME Shapes, NEW id, vms' = [vms EXCEPT ![id] = None] \/ vms' = vms
    PROVE  vms' \in [IDs -> VMState \cup {None}] /\ VMsStay
BY DEF Shapes, VMsStay

\* The copy of an object.
LEMMA CopyOf ==
    ASSUME Shapes, NEW c \in Classes
    PROVE  Copy(c) \in Copies /\ obj[c].zones \in Seq(Entries)
<1>1. obj[c] \in Object
  BY DEF Shapes
<1> QED BY <1>1 DEF Copy, Copies, Object, Images, Entries

\* The stage before the first one and after the last.
LEMMA IdleOf ==
    ASSUME NEW p
    PROVE  /\ Idle \in TaskState /\ StageOK(p, Idle)
           /\ Idle.pc = "idle" /\ ~Importing(Idle) /\ ~Creating(Idle)
           /\ \A z : ~Holding(Idle, z)
<1>1. Idle \in TaskState
  BY DEF Idle, TaskState
<1>2. Idle.pc = "idle"
  BY DEF Idle
<1> QED BY <1>1, <1>2 DEF StageOK, Importing, Creating, Holding

\* A status reconcile starts: it holds no lock and its list is the list of its object.
LEMMA StatusBeginKeeps ==
    ASSUME IInv, NEW c \in Classes, StatusBegin(c)
    PROVE  IInv'
<1> DEFINE p == <<c, "status">>
<1>0. p \in Procs /\ Shapes /\ Locking
  BY ProcsOf DEF IInv
<1>1. PICK pc \in {"delete", "create"}, left \in Seq(Entries) \cup Seq(Zones) :
          /\ task' = [task EXCEPT ![p] = [Idle EXCEPT !.copy = Copy(c), !.left = left,
                                                      !.pc = pc]]
          /\ pc = "delete" => left \in Seq(Entries)
          /\ pc = "create" => left \in Seq(Zones)
  <2>1. PICK left \in IF ImageChanged(obj[c]) THEN {obj[c].zones} ELSE Orders(c) :
            task' = [task EXCEPT ![p] = [Idle EXCEPT !.copy = Copy(c), !.left = left,
                         !.pc = IF ImageChanged(obj[c]) THEN "delete" ELSE "create"]]
    BY Zenon DEF StatusBegin
  <2>2. PICK pc \in {"delete", "create"} :
            pc = IF ImageChanged(obj[c]) THEN "delete" ELSE "create"
    OBVIOUS
  <2>3. pc = "delete" => left \in Seq(Entries)
    BY <1>0, <2>1, <2>2, CopyOf
  <2>4. pc = "create" => left \in Seq(Zones)
    BY <2>1, <2>2, OrdersOf
  <2>5. task' = [task EXCEPT ![p] = [Idle EXCEPT !.copy = Copy(c), !.left = left, !.pc = pc]]
    BY <2>1, <2>2, Zenon
  <2> QED BY <2>2, <2>3, <2>4, <2>5, Zenon
<1>2. PICK copy \in Copies : copy = Copy(c)
  BY <1>0, CopyOf
<1>3. PICK idle \in TaskState : idle = Idle
  BY IdleOf
<1>4. PICK t : t = [idle EXCEPT !.copy = copy, !.left = left, !.pc = pc]
  OBVIOUS
<1>5. task' = [task EXCEPT ![p] = t]
  BY <1>1, <1>2, <1>3, <1>4, Zenon
<1>6. t \in TaskState /\ t.pc = pc /\ t.copy = copy /\ t.left = left
  BY <1>4 DEF TaskState
<1>7. StageOK(p, t)
  BY <1>1, <1>6 DEF StageOK
<1>8. Step(p, t)
  BY <1>0, <1>5, <1>6, <1>7 DEF Step
<1>9. /\ UNCHANGED <<obj, stale, wanted, raced, misread, misled, undercut, vms, cache, images, lock>>
      /\ obj[c].alive /\ ~obj[c].deleting /\ obj[c].finalizer
      /\ task[p].pc = "idle"
  BY DEF StatusBegin, history, InFlight
<1>10. Locking'
  BY <1>0, <1>1, <1>6, <1>8, <1>9, LockingKept DEF Holding, Importing
<1>11. Lookup(c, t)'
  BY <1>1, <1>6 DEF Lookup
<1>12. /\ vms' \in [IDs -> VMState \cup {None}] /\ VMsStay
       /\ CacheStays /\ HistoryStays /\ images' \subseteq Places \X Images
  BY <1>0, <1>9 DEF Shapes, VMsStay, CacheStays, HistoryStays
<1>13. ~Creating(task[p])
  BY <1>9 DEF Creating
<1> QED BY <1>8, <1>9, <1>10, <1>11, <1>12, <1>13, StatusStep

-------------------------------------------------------------------------------
(* Delete, on behalf of status and of termination.                         *)

\* A step of termination that leaves the object alone.
LEMMA TermStep ==
    ASSUME IInv, NEW c \in Classes, NEW t, Step(<<c, "term">>, t),
           UNCHANGED <<obj, wanted>>, HistoryStays, stale' \subseteq Procs, StaleStays,
           vms' \in [IDs -> VMState \cup {None}], VMsStay, CacheStays,
           images' \subseteq Places \X Images, Locking',
           InFlight(<<c, "term">>) \/ (obj[c].alive /\ obj[c].deleting),
           c \notin raced \cup misread =>
               /\ t.pc = "delete" => AllIn(c, t.left)'
               /\ t.pc = "image" => AllIn(c, Tail(t.left))'
    PROVE  IInv'
<1> DEFINE p == <<c, "term">>
<1>0. <<c, "status">> \in Procs /\ p \in Procs /\ Shapes /\ Tracing
  BY ProcsOf DEF IInv
<1>1. Shapes'
  <2>1. obj' \in [Classes -> Object] /\ wanted' \subseteq Classes
    BY <1>0 DEF Shapes
  <2> QED BY <1>0, <2>1, ShapesStep
<1>2. Lookups' /\ OneTemplatePerZone'
  BY LookupsStep DEF IInv
<1>3. \A d \in Classes : ClassStays(d)
  BY VMsStayInClass
<1>4. \A d \in Classes \ {c} : Quiet(d)
  BY <1>0, <1>3, OthersQuiet
<1>5. StaleStays /\ HistoryStays
  OBVIOUS
<1>6. \A d \in Classes \ {c} : Known(d)' /\ Current(d)' /\ Traced(d)'
  BY <1>0, <1>4, <1>5, QuietTraced DEF Tracing
<1>7. task'[p] = t /\ task'[<<c, "status">>] = task[<<c, "status">>]
  BY <1>0 DEF Step, Shapes
<1>8. Known(c)'
  BY <1>0, <1>3, <1>5, <1>7, KnownStep DEF Tracing, ListsInTheEnd
<1>9. Current(c)'
  BY <1>0, <1>7 DEF Tracing, Current, InFlight, StaleStays
<1>10. ASSUME c \notin raced' \cup misread'
       PROVE  /\ ~obj'[c].alive \/ obj'[c].deleting => ~InFlight(<<c, "status">>)'
              /\ obj'[c].alive /\ obj'[c].deleting => AllIn(c, obj[c].zones)'
              /\ task'[p].pc = "delete" => AllIn(c, task[p].left)'
              /\ task'[p].pc = "image" => AllIn(c, Tail(task[p].left))'
              /\ ~obj'[c].alive => NoTemplates(c)'
  <2>1. c \notin raced \cup misread /\ Traced(c)
    BY <1>0, <1>5, <1>10 DEF Tracing, HistoryStays
  <2>2. ~obj'[c].alive \/ obj'[c].deleting => ~InFlight(<<c, "status">>)'
    BY <1>7, <2>1 DEF Traced, InFlight
  <2>3. obj'[c].alive /\ obj'[c].deleting => AllIn(c, obj[c].zones)'
    <3> HAVE obj'[c].alive /\ obj'[c].deleting
    <3>1. PICK s : s = obj[c].zones /\ AllIn(c, s)
      BY <2>1 DEF Traced
    <3>2. AllIn(c, s)' /\ obj'[c].zones = s
      BY <1>3, <3>1, AllInStays
    <3> QED BY <3>2 DEF AllIn
  <2>4. task'[p].pc = "delete" => AllIn(c, task[p].left)'
    BY <1>7, <2>1 DEF AllIn
  <2>5. task'[p].pc = "image" => AllIn(c, Tail(task[p].left))'
    BY <1>7, <2>1 DEF AllIn
  <2>6. ~obj'[c].alive => NoTemplates(c)'
    BY <1>3, <2>1, NoTemplatesStays DEF Traced
  <2> QED BY <2>2, <2>3, <2>4, <2>5, <2>6
<1>11. Traced(c)'
  BY <1>10 DEF Traced
<1> QED BY <1>1, <1>2, <1>6, <1>8, <1>9, <1>11 DEF IInv, Tracing

\* What deleteTemplate does, whoever calls it.
LEMMA DeleteTemplateEffect ==
    ASSUME Shapes, Locking, NEW p \in DeleteCalls, DeleteTemplate(p)
    PROVE  \E t : /\ Step(p, t) /\ t.pc = "image" /\ t.left = task[p].left
                  /\ t.id = ImportStorages
                  /\ t.copy = task[p].copy /\ t.done = task[p].done
                  /\ InFlight(p) /\ ~Creating(task[p])
                  /\ vms' \in [IDs -> VMState \cup {None}] /\ VMsStay /\ Locking'
<1>0. p \in Procs /\ p[2] \in {"status", "term"}
  BY DEF DeleteCalls, Procs, Controllers
<1>1. PICK old \in TaskState : old = task[p] /\ StageOK(p, old)
  BY <1>0 DEF Shapes
<1>2. old.pc = "delete" /\ old.left # <<>> /\ old.left \in Seq(Entries) /\ old.copy \in Copies
  BY <1>1 DEF DeleteTemplate, StageOK
<1>3. ImportStorages \in Nat \ {0}
  BY InstanceTemplateAssumption
<1>4. PICK t : t = [old EXCEPT !.pc = "image", !.id = ImportStorages]
  OBVIOUS
<1>5. task' = [task EXCEPT ![p] = t]
  <2>1. task' = [task EXCEPT ![p] = [task[p] EXCEPT !.pc = "image", !.id = ImportStorages]]
    BY <1>0 DEF DeleteTemplate, Shapes
  <2> QED BY <1>1, <1>4, <2>1, Zenon
<1>6. /\ t \in TaskState /\ t.pc = "image" /\ t.id = ImportStorages
      /\ t.left = old.left /\ t.copy = old.copy /\ t.done = old.done
  BY <1>3, <1>4 DEF TaskState
<1>7. StageOK(p, t)
  BY <1>0, <1>2, <1>3, <1>6 DEF StageOK
<1>8. Step(p, t)
  BY <1>0, <1>5, <1>6, <1>7 DEF Step
<1>9. vms' \in [IDs -> VMState \cup {None}] /\ VMsStay
  BY VMDeleted DEF DeleteTemplate
<1>10. UNCHANGED <<lock, images, undercut>>
  BY DEF DeleteTemplate, history
<1>11. Locking'
  BY <1>6, <1>8, <1>10, LockingKept DEF Holding, Importing
<1> QED BY <1>1, <1>2, <1>6, <1>8, <1>9, <1>11 DEF InFlight, Creating

\* What deleteImage does, whoever calls it: the images of a zone go under its
\* lock, so no image that is under import goes.
LEMMA DeleteImageEffect ==
    ASSUME Shapes, Locking, NEW p \in DeleteCalls, DeleteImage(p)
    PROVE  \E t : /\ Step(p, t) /\ t.pc \in {"delete", "image"}
                  /\ t.pc = "image" => t.left = task[p].left
                  /\ t.pc = "delete" => t.left = Tail(task[p].left)
                  /\ t.pc = "image" => task[p].id > 1
                  /\ t.copy = task[p].copy /\ t.done = task[p].done
                  /\ task[p].pc = "image" /\ InFlight(p) /\ ~Creating(task[p])
                  /\ images' \subseteq Places \X Images /\ Locking'
<1>0. p \in Procs /\ p[2] \in {"status", "term"}
  BY DEF DeleteCalls, Procs, Controllers
<1>1. PICK old \in TaskState : old = task[p] /\ StageOK(p, old)
  BY <1>0 DEF Shapes
<1>2. /\ old.pc = "image" /\ old.left # <<>> /\ old.left \in Seq(Entries)
      /\ old.id \in Nat \ {0} /\ old.copy \in Copies
  BY <1>1 DEF DeleteImage, StageOK
<1>3. PICK zone \in Zones : zone = Head(old.left).zone
  <2>1. Head(old.left) \in Entries
    BY <1>2
  <2> QED BY <2>1 DEF Entries
<1>4. PICK t : /\ t \in TaskState /\ t.pc \in {"delete", "image"} /\ StageOK(p, t)
               /\ t.pc = "image" => t.left = old.left
               /\ t.pc = "delete" => t.left = Tail(old.left)
               /\ t.pc = "image" => old.id > 1
               /\ t.copy = old.copy /\ t.done = old.done
               /\ t = AfterImage(old)
  <2>1. CASE old.id > 1
    <3>1. PICK n \in Nat \ {0} : n = old.id - 1
      BY <1>2, <2>1
    <3>2. PICK t : t = [old EXCEPT !.id = n]
      OBVIOUS
    <3>3. /\ t \in TaskState /\ t.pc = old.pc /\ t.left = old.left /\ t.id = n
          /\ t.copy = old.copy /\ t.done = old.done
      BY <3>2 DEF TaskState
    <3>4. StageOK(p, t)
      BY <1>0, <1>2, <3>3 DEF StageOK
    <3>5. t = AfterImage(old)
      BY <2>1, <3>1, <3>2 DEF AfterImage
    <3> QED BY <1>2, <2>1, <3>3, <3>4, <3>5
  <2>2. CASE ~(old.id > 1)
    <3>1. PICK rest \in Seq(Entries) : rest = Tail(old.left)
      BY <1>2, HeadTailProperties
    <3>2. PICK t : t = [old EXCEPT !.pc = "delete", !.id = None, !.left = rest]
      OBVIOUS
    <3>3. /\ t \in TaskState /\ t.pc = "delete" /\ t.left = rest
          /\ t.copy = old.copy /\ t.done = old.done
      BY <3>2 DEF TaskState
    <3>4. StageOK(p, t)
      BY <1>0, <1>2, <3>3 DEF StageOK
    <3>5. t = AfterImage(old)
      <4>1. AfterImage(old) = [old EXCEPT !.pc = "delete", !.id = None, !.left = Tail(old.left)]
        BY <2>2 DEF AfterImage
      <4> QED BY <3>1, <3>2, <4>1, Zenon
    <3> QED BY <3>1, <3>3, <3>4, <3>5
  <2> QED BY <2>1, <2>2
<1>5. task' = [task EXCEPT ![p] = t]
  <2>1. task' = [task EXCEPT ![p] = AfterImage(task[p])]
    BY <1>0 DEF DeleteImage, Shapes
  <2> QED BY <1>1, <1>4, <2>1
<1>6. Step(p, t)
  BY <1>0, <1>4, <1>5 DEF Step
<1>7. Takes(p, zone) /\ RemoveImage(zone, old.copy.imageID)
  BY <1>1, <1>3 DEF DeleteImage, Takes
<1>8. OthersKept(zone)
  <2> SUFFICES ASSUME NEW q \in Procs, Importing(task[q]), Head(task[q].left) # zone,
                      q[1] \in undercut \/ Source(task[q]) \in images
               PROVE  q[1] \in undercut' \/ Source(task[q]) \in images'
    BY DEF OthersKept
  <2>1. PICK d \in Classes : d = q[1] /\ q = <<d, "status">>
    BY DEF Shapes, StageOK, Importing, Procs
  <2>2. CASE Source(task[q]) = <<Store[zone], old.copy.imageID>>
    BY <1>7, <2>1, <2>2 DEF RemoveImage
  <2>3. CASE Source(task[q]) # <<Store[zone], old.copy.imageID>>
    BY <1>7, <2>3 DEF RemoveImage
  <2> QED BY <2>2, <2>3
<1>9. Locking'
  <2>1. t.pc \in {"delete", "image"}
    BY <1>4
  <2>2. (\A z \in Zones : Holding(t, z)) /\ ~Importing(t)
    BY <2>1 DEF Holding, Importing
  <2>3. \A z \in Zones : Holding(task[p], z) => Holding(t, z)
    BY <2>2
  <2>4. Importing(t) => Head(t.left) = zone /\ Source(t) \in images'
    BY <2>2
  <2>5. Holding(t, zone)
    BY <1>3, <2>2
  <2> QED BY <1>3, <1>6, <1>7, <1>8, <2>3, <2>4, <2>5, LockingTaken
<1>10. images' \subseteq Places \X Images
  BY <1>7 DEF Shapes, RemoveImage
<1> QED BY <1>1, <1>2, <1>4, <1>6, <1>9, <1>10 DEF InFlight, Creating

\* The head of a sequence, and what is behind it.
LEMMA HeadTail ==
    ASSUME NEW S, NEW s \in Seq(S), s # <<>>, NEW x,
           \E i \in 1..Len(s) : s[i] = x
    PROVE  x = Head(s) \/ \E i \in 1..Len(Tail(s)) : Tail(s)[i] = x
<1>1. PICK i \in 1..Len(s) : s[i] = x
  OBVIOUS
<1>2. CASE i = 1
  BY <1>1, <1>2
<1>3. CASE i # 1
  <2>1. i - 1 \in 1..(Len(s) - 1) /\ Len(Tail(s)) = Len(s) - 1 /\ i - 1 + 1 = i
    BY <1>3
  <2>2. Tail(s)[i - 1] = s[i]
    BY <2>1
  <2> QED BY <1>1, <2>1, <2>2
<1> QED BY <1>2, <1>3

\* The template of the first entry is gone: it was in the cache, unless there
\* was none.
LEMMA FirstIsDeleted ==
    ASSUME Shapes, NEW c \in Classes, DeleteTemplate(<<c, "term">>), Known(c),
           c \notin misread,
           ~Creating(task[<<c, "status">>]), AllIn(c, task[<<c, "term">>].left)
    PROVE  AllIn(c, Tail(task[<<c, "term">>].left))'
<1>0. <<c, "term">> \in Procs
  BY ProcsOf
<1>1. PICK s \in Seq(Entries) : s = task[<<c, "term">>].left /\ s # <<>>
  BY <1>0 DEF DeleteTemplate, Shapes, StageOK
<1>2. PICK e \in Entries : e = Head(s)
  BY <1>1
<1>3. vms' = IF Cached(e) THEN [vms EXCEPT ![e.id] = None] ELSE vms
  BY <1>1, <1>2 DEF DeleteTemplate
<1>4. vms \in [IDs -> VMState \cup {None}] /\ e.id \in IDs
  BY DEF Shapes, Entries
<1>5. ASSUME NEW id \in IDs, vms'[id] # None, vms'[id].class = c
      PROVE  \E i \in 1..Len(Tail(s)) : Tail(s)[i] = [zone |-> vms'[id].zone, id |-> id]
  <2>1. vms[id] # None /\ vms'[id] = vms[id] /\ vms[id].class = c
    BY <1>3, <1>4, <1>5
  <2>2. PICK x : x = [zone |-> vms[id].zone, id |-> id]
    OBVIOUS
  <2>3. \E i \in 1..Len(s) : s[i] = x
    BY <1>1, <2>1, <2>2 DEF AllIn
  <2>4. x # e
    <3> SUFFICES ASSUME x = e PROVE FALSE
      OBVIOUS
    <3>1. e.id = id /\ e.zone = vms[id].zone
      BY <2>2
    <3>2. InCache(c, e.zone, e.id)
      BY <2>1, <3>1 DEF Known
    <3>3. Cached(e)
      BY <3>2 DEF InCache, Cached
    <3>4. vms'[id] = None
      BY <1>3, <1>4, <3>1, <3>3
    <3> QED BY <1>5, <3>4
  <2>5. \E i \in 1..Len(Tail(s)) : Tail(s)[i] = x
    BY <1>1, <1>2, <2>3, <2>4, HeadTail
  <2> QED BY <2>1, <2>2, <2>5
<1>6. AllIn(c, Tail(s))'
  BY <1>5 DEF AllIn
<1>7. Tail(task'[<<c, "term">>].left) = Tail(s)
  <2>1. task' = [task EXCEPT ![<<c, "term">>] =
                    [task[<<c, "term">>] EXCEPT !.pc = "image", !.id = ImportStorages]]
    BY <1>0 DEF DeleteTemplate, Shapes
  <2>2. PICK old \in TaskState : old = task[<<c, "term">>]
    BY <1>0 DEF Shapes
  <2>3. PICK t : t = [old EXCEPT !.pc = "image", !.id = ImportStorages]
    OBVIOUS
  <2>4. t.left = old.left
    BY <2>3 DEF TaskState
  <2>5. task' = [task EXCEPT ![<<c, "term">>] = t]
    BY <2>1, <2>2, <2>3, Zenon
  <2> QED BY <1>0, <1>1, <2>2, <2>4, <2>5 DEF Shapes
<1> QED BY <1>6, <1>7 DEF AllIn

\* The templates of a class whose termination runs are those of its object.
LEMMA TermSettled ==
    ASSUME Tracing, NEW c \in Classes, InFlight(<<c, "term">>), c \notin raced \cup misread
    PROVE  ~InFlight(<<c, "status">>) /\ ~Creating(task[<<c, "status">>])
BY DEF Tracing, Current, Traced, InFlight, Creating

\* DeleteTemplate, without a lock: the VM that goes is one that the status names.
LEMMA DeleteTemplateKeeps ==
    ASSUME IInv, NEW p \in DeleteCalls, DeleteTemplate(p)
    PROVE  IInv'
<1>0. Shapes /\ Locking /\ Tracing
  BY DEF IInv
<1>1. PICK t : /\ Step(p, t) /\ t.pc = "image" /\ t.left = task[p].left
               /\ InFlight(p) /\ ~Creating(task[p])
               /\ vms' \in [IDs -> VMState \cup {None}] /\ VMsStay /\ Locking'
  BY <1>0, DeleteTemplateEffect
<1>2. UNCHANGED <<obj, stale, wanted, raced, misread, misled, undercut, cache, images>>
  BY DEF DeleteTemplate, history
<1>3. CacheStays /\ HistoryStays /\ images' \subseteq Places \X Images
  BY <1>0, <1>2 DEF CacheStays, HistoryStays, Shapes
<1>4. PICK c \in Classes : p = <<c, "status">> \/ p = <<c, "term">>
  BY DEF DeleteCalls
<1>5. CASE p = <<c, "status">>
  <2>1. Lookup(c, t)'
    BY <1>1 DEF Lookup
  <2> QED BY <1>1, <1>2, <1>3, <1>5, <2>1, StatusStep
<1>6. CASE p = <<c, "term">>
  <2>1. ASSUME c \notin raced \cup misread PROVE AllIn(c, Tail(t.left))'
    <3>1. ~Creating(task[<<c, "status">>])
      BY <1>0, <1>1, <1>6, <2>1, TermSettled
    <3>2. Known(c) /\ AllIn(c, task[p].left)
      BY <1>0, <1>6, <2>1 DEF Tracing, Traced, DeleteTemplate
    <3>3. AllIn(c, Tail(task[<<c, "term">>].left))'
      BY <1>0, <1>6, <2>1, <3>1, <3>2, FirstIsDeleted
    <3>4. task'[<<c, "term">>] = t /\ Tail(t.left) = Tail(task'[<<c, "term">>].left)
      BY <1>0, <1>1, <1>6 DEF Step, Shapes
    <3> QED BY <3>3, <3>4 DEF AllIn
  <2>2. stale' \subseteq Procs /\ StaleStays
    BY <1>0, <1>2 DEF Shapes, StaleStays
  <2> QED BY <1>1, <1>2, <1>3, <1>6, <2>1, <2>2, TermStep
<1> QED BY <1>4, <1>5, <1>6

\* DeleteImage takes the lock of the zone; only an import in another zone can lose its image.
LEMMA DeleteImageKeeps ==
    ASSUME IInv, NEW p \in DeleteCalls, DeleteImage(p)
    PROVE  IInv'
<1>0. Shapes /\ Locking /\ Tracing
  BY DEF IInv
<1>1. PICK t : /\ Step(p, t) /\ t.pc \in {"delete", "image"}
               /\ t.pc = "image" => t.left = task[p].left
               /\ t.pc = "delete" => t.left = Tail(task[p].left)
               /\ task[p].pc = "image" /\ InFlight(p) /\ ~Creating(task[p])
               /\ images' \subseteq Places \X Images /\ Locking'
  BY <1>0, DeleteImageEffect
<1>2. UNCHANGED <<obj, stale, wanted, raced, misread, misled, cache, vms>>
  BY DEF DeleteImage, history
<1>3. CacheStays /\ HistoryStays /\ VMsStay /\ vms' \in [IDs -> VMState \cup {None}]
  BY <1>0, <1>2 DEF CacheStays, HistoryStays, VMsStay, Shapes
<1>4. PICK c \in Classes : p = <<c, "status">> \/ p = <<c, "term">>
  BY DEF DeleteCalls
<1>5. CASE p = <<c, "status">>
  <2>1. Lookup(c, t)'
    BY <1>1 DEF Lookup
  <2> QED BY <1>1, <1>2, <1>3, <1>5, <2>1, StatusStep
<1>6. CASE p = <<c, "term">>
  <2>1. ASSUME c \notin raced \cup misread
        PROVE  /\ t.pc = "delete" => AllIn(c, t.left)'
               /\ t.pc = "image" => AllIn(c, Tail(t.left))'
    <3>1. PICK s : s = Tail(task[p].left) /\ AllIn(c, s)
      BY <1>0, <1>1, <1>6, <2>1 DEF Tracing, Traced
    <3>2. AllIn(c, s)'
      BY <1>3, <3>1, VMsStayInClass, AllInStays
    <3>3. (t.pc = "delete" => t.left = s) /\ (t.pc = "image" => Tail(t.left) = s)
      BY <1>1, <3>1
    <3> QED BY <3>2, <3>3 DEF AllIn
  <2>2. stale' \subseteq Procs /\ StaleStays
    BY <1>0, <1>2 DEF Shapes, StaleStays
  <2> QED BY <1>1, <1>2, <1>3, <1>6, <2>1, <2>2, TermStep
<1> QED BY <1>4, <1>5, <1>6

-------------------------------------------------------------------------------
(* Writes to an object.                                                    *)

\* A write outdates the copies of the reconciles that go on.
LEMMA WriteOf ==
    ASSUME Shapes, NEW c \in Classes, NEW new \in Object, Write(c, new)
    PROVE  /\ obj' \in [Classes -> Object] /\ obj'[c] = new
           /\ \A d \in Classes \ {c} : obj'[d] = obj[d]
           /\ stale' \subseteq Procs /\ StaleStays
           /\ new # obj[c] =>
                  /\ task'[<<c, "status">>].pc # "idle" => <<c, "status">> \in stale'
                  /\ task'[<<c, "term">>].pc # "idle" => <<c, "term">> \in stale'
<1>1. obj' = [obj EXCEPT ![c] = new] /\ obj \in [Classes -> Object]
  BY DEF Write, Shapes
<1>2. PICK procs : /\ procs = IF new = obj[c] THEN {} ELSE {c} \X {"status", "term"}
                   /\ stale' = {q \in stale \cup procs : task'[q].pc # "idle"}
  BY DEF Write, Outdated
<1>3. procs \subseteq Procs
  BY <1>2 DEF Procs, Controllers
<1>4. stale' \subseteq Procs /\ StaleStays
  BY <1>2, <1>3 DEF Shapes, StaleStays
<1>5. new # obj[c] => <<c, "status">> \in procs /\ <<c, "term">> \in procs
  BY <1>2
<1> QED BY <1>1, <1>2, <1>4, <1>5

\* A write under the optimistic lock, of a copy that may be out of date.
LEMMA PatchOf ==
    ASSUME Shapes, NEW c \in Classes, NEW p, p[1] = c, NEW new \in Object, Patch(p, new)
    PROVE  /\ obj' \in [Classes -> Object]
           /\ \A d \in Classes \ {c} : obj'[d] = obj[d]
           /\ stale' \subseteq Procs /\ StaleStays
           /\ \/ obj' = obj
              \/ /\ p \notin stale /\ obj'[c] = new
                 /\ (new # obj[c] /\ task'[<<c, "status">>].pc # "idle") =>
                        <<c, "status">> \in stale'
<1>1. CASE p \in stale
  BY <1>1 DEF Patch, Outdated, Shapes, StaleStays
<1>2. CASE p \notin stale
  <2>1. Write(c, new)
    BY <1>2 DEF Patch
  <2> QED BY <1>2, <2>1, WriteOf
<1> QED BY <1>1, <1>2

\* A write that leaves the use of the object and its zones alone.
LEMMA WriteStays ==
    ASSUME Shapes, NEW c \in Classes, NEW new \in Object, Write(c, new),
           new.alive = obj[c].alive, new.deleting = obj[c].deleting,
           obj[c].finalizer => new.finalizer, new.zones = obj[c].zones
    PROVE  ObjStays(c)
BY WriteOf DEF ObjStays, SameUse

\* A reconcile that does not move.
LEMMA NoStep ==
    ASSUME Shapes, NEW p \in Procs, task' = task
    PROVE  Step(p, task[p])
BY DEF Shapes, Step

\* A write while no reconcile moves.
LEMMA QuietWrite ==
    ASSUME IInv, NEW c \in Classes, ObjStays(c),
           UNCHANGED <<task, lock, vms, images, undercut>>,
           wanted' \subseteq Classes, HistoryStays, CacheStays
    PROVE  IInv'
<1> DEFINE p == <<c, "status">>
<1>0. Shapes /\ p \in Procs /\ Locking
  BY ProcsOf DEF IInv
<1>1. PICK t \in TaskState : t = task[p] /\ Step(p, t) /\ StageOK(p, t)
  BY <1>0, NoStep DEF Shapes
<1>2. vms' \in [IDs -> VMState \cup {None}] /\ VMsStay /\ images' \subseteq Places \X Images
  BY <1>0 DEF Shapes, VMsStay
<1>3. Locking'
  BY <1>0 DEF Locking, Holding, Importing, Source
<1>4. Lookup(c, t)'
  <2>1. t.pc = "vm" => t.id \in IDs
    BY <1>1 DEF StageOK
  <2>2. Lookup(c, t)
    BY <1>1 DEF IInv, Lookups
  <2> QED BY <1>0, <1>2, <2>1, <2>2, LookupStays
<1>5. t.pc # "idle" => InFlight(p)
  BY <1>1 DEF InFlight
<1> QED BY <1>1, <1>2, <1>3, <1>4, <1>5, QuietStep

\* The finalizer is written before anything is created.
LEMMA AddFinalizerKeeps ==
    ASSUME IInv, NEW c \in Classes, AddFinalizer(c)
    PROVE  IInv'
<1>0. Shapes /\ <<c, "status">> \in Procs /\ Locking
  BY ProcsOf DEF IInv
<1>1. PICK o \in Object : o = obj[c]
  BY <1>0 DEF Shapes
<1>2. PICK new : new = [o EXCEPT !.finalizer = TRUE]
  OBVIOUS
<1>3. /\ new \in Object /\ new.alive = o.alive /\ new.deleting = o.deleting
      /\ new.zones = o.zones /\ new.finalizer
  BY <1>2 DEF Object
<1>4. Write(c, new)
  BY <1>1, <1>2 DEF AddFinalizer
<1>5. ObjStays(c)
  BY <1>0, <1>1, <1>3, <1>4, WriteStays
<1>6. UNCHANGED <<task, wanted, lock, cache, vms, images, raced, misread, misled, undercut>>
  BY DEF AddFinalizer, history
<1>7. wanted' \subseteq Classes /\ HistoryStays /\ CacheStays
  BY <1>0, <1>6 DEF Shapes, HistoryStays, CacheStays
<1> QED BY <1>5, <1>6, <1>7, QuietWrite

\* The hash controller changes annotations only.
LEMMA HashReconcileKeeps ==
    ASSUME IInv, NEW c \in Classes, HashReconcile(c)
    PROVE  IInv'
<1>0. Shapes
  BY DEF IInv
<1>1. PICK o \in Object : o = obj[c]
  BY <1>0 DEF Shapes
<1>2. PICK hash \in Hashes : hash = Hash(o.spec)
  BY DEF Hashes, Object
<1>3. PICK new : new = [o EXCEPT !.hash = hash]
  OBVIOUS
<1>4. /\ new \in Object /\ new.alive = o.alive /\ new.deleting = o.deleting
      /\ new.zones = o.zones /\ new.finalizer = o.finalizer
  BY <1>3 DEF Object, Hashes
<1>5. Write(c, new)
  <2>1. Write(c, [o EXCEPT !.hash = Hash(o.spec)])
    BY <1>1 DEF HashReconcile
  <2> QED BY <1>2, <1>3, <2>1, Zenon
<1>6. ObjStays(c)
  BY <1>0, <1>1, <1>4, <1>5, WriteStays
<1>7. UNCHANGED <<task, wanted, lock, cache, vms, images, raced, misread, misled, undercut>>
  BY DEF HashReconcile, history
<1>8. wanted' \subseteq Classes /\ HistoryStays /\ CacheStays
  BY <1>0, <1>7 DEF Shapes, HistoryStays, CacheStays
<1> QED BY <1>6, <1>7, <1>8, QuietWrite

\* The user edits the specification; the templates on record stay on record.
LEMMA EditKeeps ==
    ASSUME IInv, NEW c \in Classes, NEW spec \in Specs, Edit(c, spec)
    PROVE  IInv'
<1>0. Shapes
  BY DEF IInv
<1>1. PICK o \in Object : o = obj[c]
  BY <1>0 DEF Shapes
<1>2. PICK new : new = [o EXCEPT !.spec = spec]
  OBVIOUS
<1>3. /\ new \in Object /\ new.alive = o.alive /\ new.deleting = o.deleting
      /\ new.zones = o.zones /\ new.finalizer = o.finalizer
  BY <1>2 DEF Object
<1>4. Write(c, new)
  BY <1>1, <1>2 DEF Edit
<1>5. ObjStays(c)
  BY <1>0, <1>1, <1>3, <1>4, WriteStays
<1>6. /\ UNCHANGED <<task, lock, cache, vms, images, raced, misread, misled, undercut>>
      /\ wanted' = wanted \/ wanted' = wanted \cup {c}
  BY DEF Edit, history
<1>7. wanted' \subseteq Classes /\ HistoryStays /\ CacheStays
  BY <1>0, <1>6 DEF Shapes, HistoryStays, CacheStays
<1> QED BY <1>5, <1>6, <1>7, QuietWrite

\* An in-place update that has nothing to do leaves everything alone.
LEMMA InPlaceDroppedKeeps ==
    ASSUME IInv, NEW c \in Classes, InPlaceDropped(c)
    PROVE  IInv'
<1>0. Shapes
  BY DEF IInv
<1>1. /\ UNCHANGED <<obj, stale, task, lock, cache, vms, images, raced, misread, misled, undercut>>
      /\ wanted' = wanted \ {c}
  BY DEF InPlaceDropped, history
<1>2. ObjStays(c)
  BY <1>0, <1>1, ObjUnchanged
<1>3. wanted' \subseteq Classes /\ HistoryStays /\ CacheStays
  BY <1>0, <1>1 DEF Shapes, HistoryStays, CacheStays
<1> QED BY <1>1, <1>2, <1>3, QuietWrite

\* A reconcile of status or of inplaceupdate that holds nothing and stops.
LEMMA ReturnKeeps ==
    ASSUME IInv, NEW c \in Classes, NEW p \in {<<c, "status">>, <<c, "inplace">>},
           task' = [task EXCEPT ![p] = Idle], ObjStays(c), wanted' \subseteq Classes,
           HistoryStays, vms' \in [IDs -> VMState \cup {None}], VMsStay, CacheStays,
           images' \subseteq Places \X Images, Locking',
           p[2] = "status" /\ Creating(task[p]) => Complete(cache', misread')
    PROVE  IInv'
<1>1. Step(p, Idle)
  BY ProcsOf, IdleOf DEF Step
<1>2. Lookup(c, Idle)'
  BY IdleOf DEF Lookup
<1> QED BY <1>1, <1>2, IdleOf, QuietStep

\* Delete returns an error: it gives back its locks, and status reports.
LEMMA DeleteFailsKeeps ==
    ASSUME IInv, NEW p \in DeleteCalls, DeleteFails(p)
    PROVE  IInv'
<1>0. Shapes /\ Locking /\ Tracing /\ p \in Procs
  BY DEF IInv, DeleteCalls, Procs, Controllers
<1>1. /\ lock' = Unlocked(p) /\ task' = [task EXCEPT ![p] = Idle]
      /\ UNCHANGED <<wanted, cache, vms, images, raced, misread, misled, undercut>>
      /\ task[p].pc \in {"delete", "image"}
  BY DEF DeleteFails, UnlockedOnFailure, history
<1>2. Step(p, Idle)
  BY <1>0, <1>1, IdleOf DEF Step
<1>3. Locking'
  BY <1>0, <1>1, <1>2, IdleOf, LockingReleased
<1>4. /\ CacheStays /\ VMsStay /\ vms' \in [IDs -> VMState \cup {None}]
      /\ images' \subseteq Places \X Images /\ wanted' \subseteq Classes /\ HistoryStays
  BY <1>0, <1>1 DEF CacheStays, VMsStay, Shapes, HistoryStays
<1>5. PICK c \in Classes : p = <<c, "status">> \/ p = <<c, "term">>
  BY DEF DeleteCalls
<1>6. CASE p = <<c, "status">>
  <2>1. PICK o \in Object : o = obj[c]
    BY <1>0 DEF Shapes
  <2>2. PICK new : new = [o EXCEPT !.ready = FALSE]
    OBVIOUS
  <2>3. /\ new \in Object /\ new.alive = o.alive /\ new.deleting = o.deleting
        /\ new.zones = o.zones /\ new.finalizer = o.finalizer
    BY <2>2 DEF Object
  <2>4. p[1] = c /\ p[2] = "status"
    BY <1>6
  <2>5. Patch(p, new)
    BY <2>1, <2>2, <2>4 DEF DeleteFails
  <2>6. ObjStays(c)
    BY <1>0, <2>1, <2>3, <2>4, <2>5, PatchOf DEF ObjStays, SameUse
  <2>7. ~Creating(task[p])
    BY <1>1 DEF Creating
  <2> QED BY <1>1, <1>3, <1>4, <1>6, <2>6, <2>7, ReturnKeeps
<1>7. CASE p = <<c, "term">>
  <2>1. p[2] # "status"
    BY <1>7
  <2>2. Outdated({}) /\ obj' = obj
    BY <2>1 DEF DeleteFails
  <2>3. stale' \subseteq Procs /\ StaleStays
    BY <1>0, <2>2 DEF Outdated, Shapes, StaleStays
  <2>4. InFlight(p)
    BY <1>1 DEF InFlight
  <2> QED BY <1>1, <1>2, <1>3, <1>4, <1>7, <2>2, <2>3, <2>4, IdleOf, TermStep
<1> QED BY <1>5, <1>6, <1>7

\* Status goes on with Create.
LEMMA DeleteDoneKeeps ==
    ASSUME IInv, NEW c \in Classes, DeleteDone(c)
    PROVE  IInv'
<1> DEFINE p == <<c, "status">>
<1>0. Shapes /\ Locking /\ p \in Procs
  BY ProcsOf DEF IInv
<1>1. PICK old \in TaskState : old = task[p] /\ StageOK(p, old)
  BY <1>0 DEF Shapes
<1>2. old.pc = "delete" /\ old.copy \in Copies
  BY <1>1 DEF DeleteDone, Deleted, StageOK
<1>3. PICK left \in Seq(Zones) :
          task' = [task EXCEPT ![p].pc = "create", ![p].deleted = TRUE, ![p].left = left]
  BY OrdersOf, Zenon DEF DeleteDone
<1>4. PICK t : t = [old EXCEPT !.pc = "create", !.deleted = TRUE, !.left = left]
  OBVIOUS
<1>5. task' = [task EXCEPT ![p] = t]
  <2>1. task' = [task EXCEPT ![p] = [task[p] EXCEPT !.pc = "create", !.deleted = TRUE,
                                                    !.left = left]]
    BY <1>0, <1>3 DEF Shapes
  <2> QED BY <1>1, <1>4, <2>1, Zenon
<1>6. t \in TaskState /\ t.pc = "create" /\ t.left = left /\ t.copy = old.copy
  BY <1>4 DEF TaskState
<1>7. Step(p, t)
  BY <1>0, <1>2, <1>5, <1>6 DEF Step, StageOK
<1>8. /\ UNCHANGED <<obj, stale, wanted, vms, images, raced, misled, undercut>>
      /\ SyncInstanceTemplates /\ lock' = Unlocked(p)
  BY DEF DeleteDone
<1>9. Locking'
  BY <1>0, <1>6, <1>7, <1>8, LockingReleased DEF Importing
<1>10. /\ CacheStays /\ HistoryStays /\ VMsStay /\ vms' \in [IDs -> VMState \cup {None}]
       /\ images' \subseteq Places \X Images
  BY <1>0, <1>8, SyncOf DEF CacheStays, HistoryStays, VMsStay, Shapes
<1>11. Lookup(c, t)'
  BY <1>6 DEF Lookup
<1>12. InFlight(p) /\ Creating(t)
  BY <1>1, <1>2, <1>6 DEF InFlight, Creating
<1> QED BY <1>7, <1>8, <1>9, <1>10, <1>11, <1>12, StatusStep

-------------------------------------------------------------------------------
(* Create.                                                                 *)

\* Create goes on with the next zone.
LEMMA NextZoneOf ==
    ASSUME Shapes, NEW c \in Classes, Creating(task[<<c, "status">>]),
           task[<<c, "status">>].left # <<>>,
           \/ task' = NextZone(<<c, "status">>)
           \/ \E id \in IDs : task' = Installed(<<c, "status">>, id)
    PROVE  \E t : /\ Step(<<c, "status">>, t) /\ t.pc = "create"
                  /\ t.left = Tail(task[<<c, "status">>].left)
                  /\ t.copy = task[<<c, "status">>].copy
                  /\ \/ t.done = task[<<c, "status">>].done
                     \/ \E e \in Entries :
                            /\ e.zone = Head(task[<<c, "status">>].left)
                            /\ t.done = Append(task[<<c, "status">>].done, e)
<1> DEFINE p == <<c, "status">>
<1>0. p \in Procs
  BY ProcsOf
<1>1. PICK old \in TaskState : old = task[p] /\ StageOK(p, old)
  BY <1>0 DEF Shapes
<1>2. old.left \in Seq(Zones) /\ old.left # <<>> /\ old.copy \in Copies /\ old.done \in Seq(Entries)
  BY <1>1 DEF Creating, StageOK, TaskState
<1>3. PICK rest \in Seq(Zones) : rest = Tail(old.left)
  BY <1>2, HeadTailProperties
<1>4. PICK next : next = [old EXCEPT !.pc = "create", !.id = None, !.found = {}, !.left = rest]
  OBVIOUS
<1>5. /\ next \in TaskState /\ next.pc = "create" /\ next.left = rest
      /\ next.copy = old.copy /\ next.done = old.done
  BY <1>4 DEF TaskState
<1>6. PICK after \in [Procs -> TaskState] :
          after = NextZone(p) /\ after = [task EXCEPT ![p] = next]
  <2>1. NextZone(p) = [task EXCEPT ![p] =
            [task[p] EXCEPT !.pc = "create", !.id = None, !.found = {},
                            !.left = Tail(task[p].left)]]
    BY <1>0 DEF NextZone, Shapes
  <2>2. NextZone(p) = [task EXCEPT ![p] = next]
    BY <1>1, <1>3, <1>4, <2>1, Zenon
  <2>3. [task EXCEPT ![p] = next] \in [Procs -> TaskState]
    BY <1>5 DEF Shapes
  <2> QED BY <2>2, <2>3
<1>7. CASE task' = NextZone(p)
  <2>1. Step(p, next)
    BY <1>0, <1>2, <1>5, <1>6, <1>7 DEF Step, StageOK
  <2> QED BY <1>1, <1>3, <1>5, <2>1
<1>8. CASE \E id \in IDs : task' = Installed(p, id)
  <2>1. PICK id \in IDs : task' = Installed(p, id)
    BY <1>8
  <2>2. Head(old.left) \in Zones
    BY <1>2
  <2>3. PICK e \in Entries : e = [zone |-> Zone(p), id |-> id] /\ e.zone = Head(old.left)
    <3>1. Zone(p) = Head(old.left)
      BY <1>1 DEF Zone
    <3>2. [zone |-> Head(old.left), id |-> id] \in Entries
      BY <2>2 DEF Entries
    <3> QED BY <3>1, <3>2
  <2>4. PICK done \in Seq(Entries) : done = Append(next.done, e)
    BY <1>2, <1>5, AppendProperties
  <2>5. PICK t : t = [next EXCEPT !.done = done]
    OBVIOUS
  <2>6. /\ t \in TaskState /\ t.pc = "create" /\ t.left = rest
        /\ t.copy = old.copy /\ t.done = done
    BY <1>5, <2>5 DEF TaskState
  <2>7. task' = [task EXCEPT ![p] = t]
    <3>1. after[p] = next
      BY <1>0, <1>6 DEF Shapes
    <3>2. task' = [after EXCEPT ![p] = [after[p] EXCEPT !.done = Append(after[p].done, e)]]
      BY <1>0, <1>6, <2>1, <2>3 DEF Installed
    <3>3. task' = [after EXCEPT ![p] = t]
      BY <2>4, <2>5, <3>1, <3>2, Zenon
    <3> QED BY <1>0, <1>6, <3>3 DEF Shapes
  <2>8. Step(p, t)
    BY <1>0, <1>2, <2>6, <2>7 DEF Step, StageOK
  <2>9. t.done = Append(task[p].done, e) /\ e.zone = Head(task[p].left)
    BY <1>1, <1>5, <2>3, <2>4, <2>6
  <2> QED BY <1>1, <1>3, <2>6, <2>8, <2>9
<1> QED BY <1>7, <1>8

\* Create has done with a zone and has made no template of its own there.
LEMMA ZoneDoneKeeps ==
    ASSUME IInv, NEW c \in Classes, Creating(task[<<c, "status">>]),
           task[<<c, "status">>].left # <<>>,
           \/ task' = NextZone(<<c, "status">>)
           \/ \E id \in IDs : task' = Installed(<<c, "status">>, id),
           \/ lock' = Unlocked(<<c, "status">>) /\ undercut' = undercut \ {c}
           \/ UNCHANGED <<lock, undercut>> /\ task[<<c, "status">>].pc = "create",
           UNCHANGED <<obj, stale, wanted, cache, images, raced, misread, misled>>,
           vms' \in [IDs -> VMState \cup {None}], VMsStay
    PROVE  IInv'
<1> DEFINE p == <<c, "status">>
<1>0. Shapes /\ Locking
  BY DEF IInv
<1>1. PICK t : Step(p, t) /\ t.pc = "create"
  BY <1>0, NextZoneOf
<1>2. ~Importing(t) /\ Creating(t) /\ Lookup(c, t)' /\ InFlight(p)
  BY <1>1 DEF Importing, Creating, Lookup, InFlight
<1>3. Locking'
  <2>1. CASE lock' = Unlocked(p) /\ undercut' = undercut \ {c}
    BY <1>0, <1>1, <1>2, <2>1, LockingReleased
  <2>2. CASE UNCHANGED <<lock, undercut>> /\ task[p].pc = "create"
    <3>1. \A z \in Zones : ~Holding(task[p], z)
      BY <2>2 DEF Holding, Importing
    <3> QED BY <1>0, <1>1, <1>2, <2>2, <3>1, LockingKept
  <2> QED BY <2>1, <2>2
<1>4. CacheStays /\ HistoryStays /\ images' \subseteq Places \X Images
  BY <1>0 DEF CacheStays, HistoryStays, Shapes
<1> QED BY <1>1, <1>2, <1>3, <1>4, StatusStep

\* A reconcile that is at a zone.
LEMMA AtZone ==
    ASSUME Shapes, NEW c \in Classes, task[<<c, "status">>].pc \in {"template", "vm"}
    PROVE  /\ Creating(task[<<c, "status">>]) /\ Importing(task[<<c, "status">>])
           /\ task[<<c, "status">>].left # <<>> /\ Zone(<<c, "status">>) \in Zones
           /\ task[<<c, "status">>].left \in Seq(Zones)
           /\ task[<<c, "status">>].copy \in Copies
<1>1. StageOK(<<c, "status">>, task[<<c, "status">>])
  BY ProcsOf DEF Shapes
<1>2. /\ task[<<c, "status">>].left # <<>> /\ task[<<c, "status">>].left \in Seq(Zones)
      /\ task[<<c, "status">>].copy \in Copies
  BY <1>1 DEF StageOK
<1>3. Head(task[<<c, "status">>].left) \in Zones
  BY <1>2
<1> QED BY <1>2, <1>3 DEF Creating, Importing, Zone

\* A failed download moves on to the next zone with no lock held.
LEMMA DownloadFailsKeeps ==
    ASSUME IInv, NEW c \in Classes, DownloadFails(c)
    PROVE  IInv'
<1>1. /\ UNCHANGED <<obj, stale, wanted, lock, cache, vms, images, raced, misread, misled, undercut>>
      /\ task' = NextZone(<<c, "status">>) /\ task[<<c, "status">>].left # <<>>
      /\ task[<<c, "status">>].pc = "create"
  BY DEF DownloadFails, history
<1>2. vms' \in [IDs -> VMState \cup {None}] /\ VMsStay /\ Creating(task[<<c, "status">>])
  BY <1>1 DEF IInv, Shapes, VMsStay, Creating
<1> QED BY <1>1, <1>2, ZoneDoneKeeps

\* The template exists already: it is recorded and the lock goes.
LEMMA UseTemplateKeeps ==
    ASSUME IInv, NEW c \in Classes, UseTemplate(c)
    PROVE  IInv'
<1>0. Shapes
  BY DEF IInv
<1>1. /\ UNCHANGED <<obj, stale, wanted, cache, vms, images, raced, misread, misled>>
      /\ task[<<c, "status">>].pc = "template"
  BY DEF UseTemplate
<1>2. PICK t \in task[<<c, "status">>].found :
          LeaveZone(<<c, "status">>, Installed(<<c, "status">>, t.id))
  BY DEF UseTemplate
<1>3. t.id \in IDs
  <2>1. task[<<c, "status">>] \in TaskState
    BY <1>0, ProcsOf DEF Shapes
  <2>2. t \in Items
    BY <1>2, <2>1 DEF TaskState
  <2> QED BY <2>2 DEF Items
<1>5. /\ task' = Installed(<<c, "status">>, t.id)
      /\ lock' = Unlocked(<<c, "status">>) /\ undercut' = undercut \ {c}
  BY <1>2 DEF LeaveZone
<1>4. vms' \in [IDs -> VMState \cup {None}] /\ VMsStay
  BY <1>0, <1>1 DEF Shapes, VMsStay
<1> QED BY <1>0, <1>1, <1>3, <1>4, <1>5, AtZone, ZoneDoneKeeps

\* A failing list or ID request gives the lock back.
LEMMA CreateTemplateFailsKeeps ==
    ASSUME IInv, NEW c \in Classes, CreateTemplateFails(c)
    PROVE  IInv'
<1>0. Shapes
  BY DEF IInv
<1>1. /\ UNCHANGED <<obj, stale, wanted, cache, vms, images, raced, misread, misled>>
      /\ lock' = Unlocked(<<c, "status">>) /\ task[<<c, "status">>].pc = "template"
      /\ task' = NextZone(<<c, "status">>) /\ undercut' = undercut \ {c}
  BY DEF CreateTemplateFails, LeaveZone
<1>2. vms' \in [IDs -> VMState \cup {None}] /\ VMsStay
  BY <1>0, <1>1 DEF Shapes, VMsStay
<1> QED BY <1>0, <1>1, <1>2, AtZone, ZoneDoneKeeps

\* A failing creation removes what has its ID in the zone and gives the lock back.
LEMMA CreateVMFailsKeeps ==
    ASSUME IInv, NEW c \in Classes, CreateVMFails(c)
    PROVE  IInv'
<1>0. Shapes
  BY DEF IInv
<1>1. /\ UNCHANGED <<obj, stale, wanted, cache, images, raced, misread, misled>>
      /\ lock' = Unlocked(<<c, "status">>) /\ task[<<c, "status">>].pc = "vm"
      /\ task' = NextZone(<<c, "status">>) /\ undercut' = undercut \ {c}
  BY DEF CreateVMFails, LeaveZone
<1>2. \E id : vms' = [vms EXCEPT ![id] = None] \/ vms' = vms
  BY DEF CreateVMFails
<1>3. vms' \in [IDs -> VMState \cup {None}] /\ VMsStay
  BY <1>0, <1>2, VMDeleted
<1> QED BY <1>0, <1>1, <1>3, AtZone, ZoneDoneKeeps

\* The image is there and the list is fresh, under the lock of the zone.
LEMMA DownloadKeeps ==
    ASSUME IInv, NEW c \in Classes, Download(c)
    PROVE  IInv'
<1> DEFINE p == <<c, "status">>
<1>0. Shapes /\ Locking /\ OneTemplatePerZone /\ p \in Procs /\ p \in DeleteCalls
  BY ProcsOf DEF IInv
<1>1. PICK old \in TaskState : old = task[p] /\ StageOK(p, old)
  BY <1>0 DEF Shapes
<1>2. /\ old.pc = "create" /\ old.left # <<>> /\ old.left \in Seq(Zones)
      /\ old.copy \in Copies
  BY <1>1 DEF Download, StageOK
<1>3. PICK zone \in Zones : zone = Head(old.left)
  BY <1>2
<1>4. PICK found : found = {e \in cache' : e.class = c /\ e.zone = zone}
  OBVIOUS
<1>5. PICK t : t = [old EXCEPT !.pc = "template", !.found = found]
  OBVIOUS
<1>6. /\ UNCHANGED <<obj, stale, wanted, vms, raced, undercut>>
       /\ SyncInstanceTemplates /\ Takes(p, zone)
       /\ images' = images \cup {<<Store[zone], GetImageID(old.copy.spec)>>}
       /\ misled' = IF Matches(c, cache') = Matches(c, Listed) THEN misled
                    ELSE misled \cup {c}
  BY <1>1, <1>3 DEF Download, Zone, Takes, Source
<1>7. found \subseteq Items
  BY <1>0, <1>4, <1>6, SyncOf, ListedOf DEF Shapes
<1>8. /\ Matches(c, cache') = found
       /\ Matches(c, Listed) = {e \in Listed : e.class = c /\ e.zone = zone}
  BY <1>1, <1>3, <1>4 DEF Matches, Zone
<1>9. task' = [task EXCEPT ![p] = t]
  <2>1. task' = [task EXCEPT ![p] = [task[p] EXCEPT !.pc = "template", !.found = found]]
    BY <1>0, <1>8 DEF Download, Shapes
  <2> QED BY <1>1, <1>5, <2>1, Zenon
<1>10. /\ t \in TaskState /\ t.pc = "template" /\ t.left = old.left
      /\ t.copy = old.copy /\ t.found = found
  BY <1>5, <1>7 DEF TaskState
<1>11. Step(p, t)
  BY <1>0, <1>2, <1>9, <1>10 DEF Step, StageOK
<1>12. /\ cache' = cache \/ cache' \subseteq Listed
      /\ Complete(cache', misread') /\ misread \subseteq misread'
  BY <1>0, <1>6, SyncOf
<1>13. Holding(t, zone) /\ Importing(t) /\ Head(t.left) = zone /\ Source(t) \in images'
      /\ \A z \in Zones : ~Holding(old, z)
  BY <1>2, <1>3, <1>6, <1>10 DEF Holding, Importing, Source
<1>14. Locking'
  <2>1. OthersKept(zone)
    BY <1>6 DEF OthersKept
  <2> QED BY <1>0, <1>1, <1>6, <1>11, <1>13, <2>1, LockingTaken
<1>15. /\ CacheStays /\ HistoryStays /\ VMsStay
       /\ vms' \in [IDs -> VMState \cup {None}]
  BY <1>0, <1>6, <1>12 DEF CacheStays, HistoryStays, VMsStay, Shapes
<1>16. images' \subseteq Places \X Images
  <2>1. GetImageID(old.copy.spec) \in Images
    BY <1>2 DEF GetImageID, Images, Copies
  <2>2. Store[zone] \in Places
    BY DEF Places
  <2> QED BY <1>0, <1>6, <2>1, <2>2 DEF Shapes
<1>17. Lookup(c, t)'
  <2>1. Scanned(zone)'
    BY <1>6, <1>12 DEF Complete, Scanned, Lists
  <2>2. \A e \in found : e.zone = zone
    BY <1>4
  <2>3. ASSUME c \notin misled'
        PROVE  /\ \A id \in IDs : TemplateOf(c, zone, id)' => \E e \in found : e.id = id
               /\ \A e, f \in found : e = f
    <3>1. found = {e \in Listed : e.class = c /\ e.zone = zone} /\ c \notin misled
      BY <1>6, <1>8, <2>3
    <3>2. \A id \in IDs : TemplateOf(c, zone, id)' => \E e \in found : e.id = id
      BY <1>0, <1>6, <3>1, ListedOf DEF TemplateOf
    <3>3. ASSUME NEW e \in found, NEW f \in found PROVE e = f
      <4>1. /\ e \in Listed /\ e.class = c /\ e.zone = zone
            /\ f \in Listed /\ f.class = c /\ f.zone = zone
        BY <3>1
      <4>2. /\ e.id \in IDs /\ vms[e.id] # None /\ e = Entry(e.id)
            /\ vms[e.id].class = c /\ vms[e.id].zone = zone
            /\ f.id \in IDs /\ vms[f.id] # None /\ f = Entry(f.id)
            /\ vms[f.id].class = c /\ vms[f.id].zone = zone
        BY <1>0, <4>1, ListedOf
      <4>3. e.id = f.id
        BY <1>0, <3>1, <4>2 DEF OneTemplatePerZone
      <4> QED BY <4>2, <4>3, Zenon
    <3> QED BY <3>2, <3>3
  <2> QED BY <1>10, <1>13, <2>1, <2>2, <2>3 DEF Lookup
<1>18. InFlight(p) /\ Creating(t)
  BY <1>1, <1>2, <1>10 DEF InFlight, Creating
<1> QED BY <1>6, <1>11, <1>14, <1>15, <1>16, <1>17, <1>18, StatusStep

\* Create goes on in the zone, with what it has found there.
LEMMA InZoneKeeps ==
    ASSUME IInv, NEW c \in Classes, task[<<c, "status">>].pc = "template",
           NEW t, Step(<<c, "status">>, t), t.pc \in {"template", "vm"},
           t.left = task[<<c, "status">>].left, t.copy = task[<<c, "status">>].copy,
           UNCHANGED <<obj, stale, wanted, lock, cache, images, raced, misread, misled, undercut>>,
           vms' \in [IDs -> VMState \cup {None}], VMsStay, Lookup(c, t)'
    PROVE  IInv'
<1> DEFINE p == <<c, "status">>
<1>0. Shapes /\ Locking
  BY DEF IInv
<1>1. Importing(task[p]) /\ Importing(t) /\ InFlight(p) /\ Creating(t)
  BY DEF Importing, InFlight, Creating
<1>2. Locking'
  <2>1. \A z \in Zones : Holding(task[p], z) => Holding(t, z)
    BY <1>1 DEF Holding
  <2>2. Source(t) = Source(task[p])
    BY DEF Source
  <2> QED BY <1>0, <1>1, <2>1, <2>2, LockingKept
<1>3. CacheStays /\ HistoryStays /\ images' \subseteq Places \X Images
  BY <1>0 DEF CacheStays, HistoryStays, Shapes
<1> QED BY <1>1, <1>2, <1>3, StatusStep

\* The stage after one outdated template is deleted.
LEMMA OutdatedOf ==
    ASSUME Shapes, NEW c \in Classes, DeleteOutdated(c)
    PROVE  \E e, t :
               /\ e \in task[<<c, "status">>].found
               /\ vms' = IF Cached(e) THEN [vms EXCEPT ![e.id] = None] ELSE vms
               /\ Step(<<c, "status">>, t) /\ t.left = task[<<c, "status">>].left
               /\ t.copy = task[<<c, "status">>].copy /\ t.id = e.id /\ t.id \in IDs
               /\ t.found = task[<<c, "status">>].found \ {e}
               /\ t.pc = IF task[<<c, "status">>].found = {e} THEN "vm" ELSE "template"
<1> DEFINE p == <<c, "status">>
<1>0. p \in Procs /\ task[p].pc = "template"
  BY ProcsOf DEF DeleteOutdated
<1>1. PICK e \in task[p].found :
          /\ vms' = IF Cached(e) THEN [vms EXCEPT ![e.id] = None] ELSE vms
          /\ task' = [task EXCEPT ![p].found = @ \ {e}, ![p].id = e.id,
                 ![p].pc = IF task[p].found = {e} THEN "vm" ELSE "template"]
  BY Zenon DEF DeleteOutdated
<1>2. PICK old \in TaskState : old = task[p] /\ StageOK(p, old)
  BY <1>0 DEF Shapes
<1>3. old.pc = "template" /\ old.left # <<>> /\ old.left \in Seq(Zones) /\ old.copy \in Copies
  BY <1>0, <1>2 DEF StageOK
<1>4. PICK id \in IDs : id = e.id
  BY <1>2 DEF TaskState, Items
<1>5. PICK pc \in {"template", "vm"} :
          pc = IF task[p].found = {e} THEN "vm" ELSE "template"
  OBVIOUS
<1>6. PICK found \in SUBSET Items : found = task[p].found \ {e}
  BY <1>2 DEF TaskState
<1>7. PICK t : t = [old EXCEPT !.found = found, !.id = id, !.pc = pc]
  OBVIOUS
<1>8. task' = [task EXCEPT ![p] = t]
  <2>1. task' = [task EXCEPT ![p] = [task[p] EXCEPT !.found = task[p].found \ {e}, !.id = e.id,
                     !.pc = IF task[p].found = {e} THEN "vm" ELSE "template"]]
    BY <1>0, <1>1 DEF Shapes
  <2> QED BY <1>2, <1>4, <1>5, <1>6, <1>7, <2>1, Zenon
<1>9. id \in Nat
  BY InstanceTemplateAssumption
<1>10. /\ t \in TaskState /\ t.pc = pc /\ t.left = old.left /\ t.copy = old.copy
      /\ t.id = id /\ t.found = found
  BY <1>7, <1>9 DEF TaskState
<1>11. StageOK(p, t)
  BY <1>3, <1>10 DEF StageOK
<1>12. Step(p, t)
  BY <1>0, <1>8, <1>10, <1>11 DEF Step
<1> QED BY <1>2, <1>4, <1>5, <1>6, <1>10, <1>12, <1>1

\* The last of the outdated templates is the only one of the class in the zone.
LEMMA DeleteOutdatedKeeps ==
    ASSUME IInv, NEW c \in Classes, DeleteOutdated(c)
    PROVE  IInv'
<1> DEFINE p == <<c, "status">>
<1>0. Shapes /\ Lookup(c, task[p])
  BY DEF IInv, Lookups
<1>1. PICK z : z = Head(task[p].left)
  OBVIOUS
<1>2. /\ UNCHANGED <<obj, stale, wanted, lock, cache, images, raced, misread, misled, undercut>>
      /\ task[p].pc = "template"
  BY DEF DeleteOutdated, history
<1>3. PICK e, t :
          /\ e \in task[p].found
          /\ vms' = IF Cached(e) THEN [vms EXCEPT ![e.id] = None] ELSE vms
          /\ Step(p, t) /\ t.left = task[p].left /\ t.copy = task[p].copy
          /\ t.id = e.id /\ t.id \in IDs /\ t.found = task[p].found \ {e}
          /\ t.pc = IF task[p].found = {e} THEN "vm" ELSE "template"
  BY <1>0, OutdatedOf
<1>4. vms' \in [IDs -> VMState \cup {None}] /\ VMsStay
  BY <1>0, <1>3, VMDeleted
<1>5. /\ \A f \in task[p].found : f.zone = z
      /\ Scanned(z)
      /\ c \notin misled =>
             /\ \A id \in IDs : TemplateOf(c, z, id) =>
                    \E f \in task[p].found : f.id = id
             /\ \A f, g \in task[p].found : f = g
  BY <1>0, <1>2, <1>1 DEF Lookup
<1>6. \A id \in IDs : TemplateOf(c, z, id)' => TemplateOf(c, z, id)
  BY <1>4 DEF TemplateOf, VMsStay
<1>7. CASE task[p].found = {e}
  <2>1. c \notin misled' => \A id \in IDs : TemplateOf(c, z, id)' => id = t.id
    BY <1>2, <1>3, <1>5, <1>6, <1>7
  <2>2. ASSUME vms'[t.id] # None, vms'[t.id].zone = z
        PROVE  vms'[t.id].class \in misread'
    <3>1. vms' = vms /\ ~Cached(e)
      BY <1>0, <1>3, <2>2 DEF Shapes
    <3>2. ~Lists(cache, t.id)
      BY <1>3, <1>5, <2>2, <3>1 DEF Lists, Cached
    <3> QED BY <1>2, <1>3, <1>5, <2>2, <3>1, <3>2 DEF Scanned
  <2>3. t.pc = "vm" /\ Head(t.left) = z
    BY <1>3, <1>7, <1>1
  <2>4. Lookup(c, t)'
    BY <2>1, <2>2, <2>3 DEF Lookup
  <2> QED BY <1>2, <1>3, <1>4, <2>3, <2>4, InZoneKeeps
<1>8. CASE task[p].found # {e}
  <2>1. c \in misled'
    BY <1>2, <1>3, <1>5, <1>8
  <2>2. Scanned(z)'
    BY <1>2, <1>4, <1>5 DEF Scanned, Lists, VMsStay
  <2>3. t.pc = "template" /\ Head(t.left) = z /\ \A f \in t.found : f.zone = z
    BY <1>3, <1>5, <1>8, <1>1
  <2>4. Lookup(c, t)'
    BY <2>1, <2>2, <2>3 DEF Lookup
  <2> QED BY <1>2, <1>3, <1>4, <2>3, <2>4, InZoneKeeps
<1> QED BY <1>7, <1>8

\* GetNextID names an identifier.
LEMMA NextIDOf ==
    ASSUME \E i \in IDs : vms[i] = None
    PROVE  GetNextID \in IDs /\ vms[GetNextID] = None
<1> DEFINE free == {i \in IDs : vms[i] = None}
           R == {ss \in Nat \X Nat : ss[1] < ss[2]}
<1>1. free \subseteq Nat /\ free # {}
  BY InstanceTemplateAssumption
<1>2. IsWellFoundedOn(R, Nat)
  BY NatLessThanWellFounded, Zenon DEF OpToRel
<1>3. PICK m \in free : \A n \in free : ~(<<n, m>> \in R)
  <2> HIDE DEF R, free
  <2> QED BY <1>1, <1>2, WFMin
<1>4. ASSUME NEW n \in free PROVE m <= n
  <2>1. m \in Nat /\ n \in Nat /\ <<n, m>> \notin R
    BY <1>1, <1>3
  <2> QED BY <2>1
<1>5. \E i \in free : \A j \in free : i <= j
  BY <1>4
<1> QED BY <1>5 DEF GetNextID

\* The list has no template of the class in the zone, and there is none.
LEMMA NewTemplateKeeps ==
    ASSUME IInv, NEW c \in Classes, NewTemplate(c)
    PROVE  IInv'
<1> DEFINE p == <<c, "status">>
<1>0. Shapes /\ Lookup(c, task[p]) /\ p \in Procs
  BY ProcsOf DEF IInv, Lookups
<1>1. /\ UNCHANGED <<obj, stale, wanted, lock, cache, vms, images, raced, misread, misled,
                     undercut>>
      /\ task[p].pc = "template" /\ task[p].found = {}
  BY DEF NewTemplate, history
<1>2. PICK id \in IDs : id = GetNextID /\ vms[id] = None
  BY NextIDOf DEF NewTemplate
<1>3. PICK old \in TaskState : old = task[p] /\ StageOK(p, old)
  BY <1>0 DEF Shapes
<1>4. old.pc = "template" /\ old.left # <<>> /\ old.left \in Seq(Zones) /\ old.copy \in Copies
  BY <1>1, <1>3 DEF StageOK
<1>5. PICK t : t = [old EXCEPT !.pc = "vm", !.id = id]
  OBVIOUS
<1>6. task' = [task EXCEPT ![p] = t]
  <2>1. task' = [task EXCEPT ![p] = [task[p] EXCEPT !.pc = "vm", !.id = GetNextID]]
    BY <1>0 DEF NewTemplate, Shapes
  <2> QED BY <1>2, <1>3, <1>5, <2>1, Zenon
<1>7. id \in Nat
  BY InstanceTemplateAssumption
<1>8. t \in TaskState /\ t.pc = "vm" /\ t.left = old.left /\ t.copy = old.copy /\ t.id = id
  BY <1>5, <1>7 DEF TaskState
<1>9. Step(p, t)
  BY <1>0, <1>4, <1>6, <1>8 DEF Step, StageOK
<1>10. c \notin misled => \A i \in IDs : ~TemplateOf(c, Head(old.left), i)
  BY <1>0, <1>1, <1>3 DEF Lookup
<1>11. Lookup(c, t)'
  BY <1>1, <1>2, <1>8, <1>10 DEF Lookup, TemplateOf
<1>12. vms' \in [IDs -> VMState \cup {None}] /\ VMsStay
  BY <1>0, <1>1 DEF Shapes, VMsStay
<1> QED BY <1>1, <1>3, <1>8, <1>9, <1>11, <1>12, InZoneKeeps

\* The one step that makes a template: the zone is locked, so no other class
\* relies on what it found there, and the class has none in the zone.
LEMMA CreateVMKeeps ==
    ASSUME IInv, NEW c \in Classes, CreateVM(c)
    PROVE  IInv'
<1> DEFINE p == <<c, "status">>
<1>0. /\ Shapes /\ Locking /\ Lookups /\ OneTemplatePerZone /\ Tracing /\ p \in Procs
      /\ p[1] = c
  BY ProcsOf DEF IInv
<1>1. /\ UNCHANGED <<obj, stale, wanted, cache, images, raced, misread, misled>>
      /\ task[p].pc = "vm" /\ lock' = Unlocked(p) /\ undercut' = undercut \ {c}
  BY DEF CreateVM, LeaveZone
<1>2. PICK id \in IDs : id = task[p].id /\ vms[id] = None
  BY <1>0 DEF CreateVM, Shapes, StageOK
<1>3. PICK zone \in Zones : zone = Zone(p) /\ Importing(task[p]) /\ lock[zone] = p
  BY <1>0, <1>1, AtZone DEF Locking, Zone
<1>4. PICK made \in VMState : /\ made = Template(c, zone, task[p].copy.spec)
                              /\ made.class = c /\ made.zone = zone
  <2>1. task[p].copy.spec \in Specs
    BY <1>0, <1>1, AtZone DEF Copies
  <2>2. PICK spec \in Specs : spec = task[p].copy.spec
    BY <2>1
  <2>3. Hash(spec) \in Hashes /\ spec.opts \in {x.opts : x \in Specs}
    BY DEF Hashes
  <2>4. PICK made : made = Template(c, zone, spec)
    OBVIOUS
  <2>5. made \in VMState /\ made.class = c /\ made.zone = zone
    BY <2>3, <2>4 DEF Template, VMState
  <2> QED BY <2>2, <2>4, <2>5
<1>5. vms' = [vms EXCEPT ![id] = made]
  BY <1>2, <1>3, <1>4 DEF CreateVM
<1>6. /\ vms' \in [IDs -> VMState \cup {None}] /\ vms'[id] = made
      /\ \A i \in IDs : i # id => vms'[i] = vms[i]
  BY <1>0, <1>5 DEF Shapes
<1>7. PICK t : Step(p, t) /\ t.pc = "create"
  <2>1. task' = Installed(p, id)
    BY <1>2 DEF CreateVM, LeaveZone
  <2> QED BY <1>0, <1>1, <1>2, <2>1, AtZone, NextZoneOf
<1>8. ~Importing(t) /\ Creating(t) /\ Lookup(c, t)' /\ InFlight(p)
  BY <1>1, <1>7 DEF Importing, Creating, Lookup, InFlight
<1>9. CacheStays /\ StaleStays /\ HistoryStays
  BY <1>1 DEF CacheStays, StaleStays, HistoryStays
<1>10. Shapes'
  <2>1. /\ obj' \in [Classes -> Object] /\ stale' \subseteq Procs
        /\ wanted' \subseteq Classes /\ images' \subseteq Places \X Images
    BY <1>0, <1>1 DEF Shapes
  <2> QED BY <1>0, <1>6, <1>7, <1>9, <2>1, ShapesStep
<1>11. Locking'
  BY <1>0, <1>1, <1>7, <1>8, LockingReleased
<1>12. ASSUME NEW d \in Classes PROVE Lookup(d, task[<<d, "status">>])'
  <2>0. <<d, "status">> \in Procs
    BY ProcsOf
  <2>1. CASE d = c
    <3>1. task'[<<d, "status">>] = t
      BY <1>0, <1>7, <2>1 DEF Step, Shapes
    <3> QED BY <1>7, <3>1 DEF Lookup
  <2>2. CASE d # c
    <3>1. PICK u \in TaskState : /\ u = task[<<d, "status">>] /\ Lookup(d, u)
                                 /\ task'[<<d, "status">>] = u
                                 /\ u.pc = "vm" => u.id \in IDs
      BY <1>0, <1>7, <2>0, <2>2 DEF Lookups, Step, Shapes, StageOK
    <3>2. u.pc \in {"template", "vm"} => Head(u.left) # zone
      BY <1>0, <1>3, <2>0, <2>2, <3>1 DEF Locking, Importing
    <3>3. \A z, i : i \in IDs /\ TemplateOf(d, z, i)' => TemplateOf(d, z, i)
      BY <1>4, <1>6, <2>2 DEF TemplateOf
    <3>4. u.pc = "template" => Scanned(Head(u.left))'
      <4> HAVE u.pc = "template"
      <4>1. Scanned(Head(u.left))
        BY <3>1 DEF Lookup
      <4> QED BY <1>1, <1>4, <1>6, <3>2, <4>1 DEF Scanned, Lists
    <3>5. u.pc = "vm" /\ vms'[u.id] # None /\ vms'[u.id].zone = Head(u.left) =>
              vms'[u.id].class \in {d} \cup misread'
      BY <1>1, <1>4, <1>6, <3>1, <3>2 DEF Lookup
    <3>6. Lookup(d, u)'
      BY <1>1, <3>1, <3>3, <3>4, <3>5 DEF Lookup
    <3> QED BY <3>1, <3>6 DEF Lookup, TemplateOf, Scanned, Lists
  <2> QED BY <2>1, <2>2
<1>13. OneTemplatePerZone'
  <2>1. c \notin misled => \A i \in IDs : TemplateOf(c, zone, i) => i = id
    BY <1>0, <1>1, <1>2, <1>3 DEF Lookups, Lookup, Zone
  <2>2. c \notin misled => \A i \in IDs : ~TemplateOf(c, zone, i)
    BY <1>2, <2>1 DEF TemplateOf
  <2> QED BY <1>0, <1>1, <1>4, <1>6, <2>2 DEF OneTemplatePerZone, TemplateOf
<1>14. Tracing'
  <2>1. \A d \in Classes \ {c} : obj'[d] = obj[d] /\ ClassStays(d)
    BY <1>1, <1>4, <1>6 DEF ClassStays
  <2>2. \A d \in Classes \ {c} : Quiet(d)
    BY <1>0, <1>7, <2>1, OthersQuiet
  <2>3. /\ task'[p] = t /\ task'[<<c, "term">>] = task[<<c, "term">>]
    BY <1>0, <1>7, ProcsOf DEF Step, Shapes
  <2>4. Quiet(c)
    BY <1>1, <1>8, <2>3 DEF Quiet, SameUse, BeginsInUse, ListsInTheEnd
  <2> QED BY <1>0, <1>9, <2>2, <2>4, TracingStep
<1> QED BY <1>10, <1>11, <1>12, <1>13, <1>14 DEF IInv, Lookups

\* The status that is recorded.
LEMMA StatusOf ==
    ASSUME NEW o \in Object, NEW t \in TaskState, t.copy \in Copies
    PROVE  /\ Status(o, t) \in Object
           /\ Status(o, t).alive = o.alive /\ Status(o, t).deleting = o.deleting
           /\ Status(o, t).finalizer = o.finalizer
<1>0. /\ GetImageID(t.copy.spec) \in Images /\ t.copy.imageID \in {None} \cup Images
      /\ t.copy.zones \in Seq(Entries) /\ t.done \in Seq(Entries) /\ <<>> \in Seq(Entries)
  BY DEF Copies, GetImageID, Images, TaskState
<1>1. PICK image \in {None} \cup Images :
          image = IF t.done # <<>> \/ t.deleted THEN GetImageID(t.copy.spec)
                  ELSE t.copy.imageID
  BY <1>0
<1>2. PICK zones \in Seq(Entries) :
          zones = IF t.done # <<>> THEN t.done
                  ELSE IF t.deleted THEN <<>> ELSE t.copy.zones
  BY <1>0
<1>3. t.deleted \in BOOLEAN
  BY DEF TaskState
<1>4. PICK ready \in BOOLEAN :
          ready = IF image = None THEN FALSE ELSE zones # <<>> \/ t.deleted
  BY <1>3
<1>5. PICK new : new = [o EXCEPT !.imageID = image, !.zones = zones, !.ready = ready]
  OBVIOUS
<1>6. Status(o, t) = new
  <2>1. Status(o, t) = [o EXCEPT !.imageID = image, !.zones = zones,
            !.ready = IF image = None THEN FALSE ELSE zones # <<>> \/ t.deleted]
    BY <1>1, <1>2, Zenon DEF Status
  <2> QED BY <1>4, <1>5, <2>1, Zenon
<1>7. /\ new \in Object /\ new.alive = o.alive /\ new.deleting = o.deleting
      /\ new.finalizer = o.finalizer
  BY <1>5 DEF Object, Images, Entries
<1> QED BY <1>6, <1>7

\* All zones done: the cache is read again and the status written.
LEMMA CreateDoneKeeps ==
    ASSUME IInv, NEW c \in Classes, CreateDone(c)
    PROVE  IInv'
<1> DEFINE p == <<c, "status">>
<1>0. Shapes /\ Locking /\ Current(c) /\ p \in Procs /\ p[1] = c
  BY ProcsOf DEF IInv, Tracing
<1>1. /\ UNCHANGED <<wanted, lock, vms, images, raced, misled, undercut>>
      /\ SyncInstanceTemplates /\ task' = [task EXCEPT ![p] = Idle]
      /\ task[p].pc = "create" /\ Patch(p, Status(obj[c], task[p]))
  BY DEF CreateDone
<1>2. task[p] \in TaskState /\ task[p].copy \in Copies /\ obj[c] \in Object /\ InFlight(p)
  BY <1>0, <1>1 DEF Shapes, StageOK, InFlight
<1>3. ObjStays(c)
  BY <1>0, <1>1, <1>2, StatusOf, PatchOf DEF ObjStays, SameUse, Current
<1>4. /\ CacheStays /\ VMsStay /\ vms' \in [IDs -> VMState \cup {None}]
      /\ images' \subseteq Places \X Images /\ wanted' \subseteq Classes /\ HistoryStays
  BY <1>0, <1>1, SyncOf DEF CacheStays, VMsStay, Shapes, HistoryStays
<1>5. Step(p, Idle)
  BY <1>0, <1>1, IdleOf DEF Step
<1>6. Locking'
  <2>1. \A z \in Zones : ~Holding(task[p], z)
    BY <1>1 DEF Holding, Importing
  <2> QED BY <1>0, <1>1, <1>5, <2>1, IdleOf, LockingKept
<1>7. Complete(cache', misread')
  BY <1>0, <1>1, SyncOf
<1> QED BY <1>1, <1>3, <1>4, <1>6, <1>7, ReturnKeeps

-------------------------------------------------------------------------------
(* Termination and in-place updates.                                       *)

\* Termination starts with the list of its object and holds no lock.
LEMMA TermBeginKeeps ==
    ASSUME IInv, NEW c \in Classes, TermBegin(c)
    PROVE  IInv'
<1> DEFINE p == <<c, "term">>
<1>0. Shapes /\ Locking /\ Tracing /\ p \in Procs
  BY ProcsOf DEF IInv
<1>1. /\ UNCHANGED <<obj, stale, wanted, lock, cache, vms, images, raced, misread, misled, undercut>>
      /\ obj[c].alive /\ obj[c].deleting /\ task[p].pc = "idle"
  BY DEF TermBegin, history, InFlight
<1>2. PICK copy \in Copies, left \in Seq(Entries) : copy = Copy(c) /\ left = obj[c].zones
  BY <1>0, CopyOf
<1>3. PICK idle \in TaskState : idle = Idle
  BY IdleOf
<1>4. PICK t : t = [idle EXCEPT !.pc = "delete", !.copy = copy, !.left = left]
  OBVIOUS
<1>5. task' = [task EXCEPT ![p] = t]
  <2>1. task' = [task EXCEPT ![p] =
                    [Idle EXCEPT !.pc = "delete", !.copy = Copy(c), !.left = obj[c].zones]]
    BY DEF TermBegin
  <2> QED BY <1>2, <1>3, <1>4, <2>1, Zenon
<1>6. t \in TaskState /\ t.pc = "delete" /\ t.copy = copy /\ t.left = left
  BY <1>4 DEF TaskState
<1>7. Step(p, t)
  BY <1>0, <1>5, <1>6 DEF Step, StageOK
<1>8. Locking'
  <2>1. \A z \in Zones : ~Holding(task[p], z)
    BY <1>1 DEF Holding, Importing
  <2>2. ~Importing(t)
    BY <1>6 DEF Importing
  <2> QED BY <1>0, <1>1, <1>7, <2>1, <2>2, LockingKept
<1>9. /\ CacheStays /\ VMsStay /\ vms' \in [IDs -> VMState \cup {None}]
      /\ images' \subseteq Places \X Images /\ stale' \subseteq Procs /\ StaleStays
      /\ HistoryStays
  BY <1>0, <1>1 DEF CacheStays, VMsStay, Shapes, StaleStays, HistoryStays
<1>10. c \notin raced \cup misread => AllIn(c, t.left)'
  <2> HAVE c \notin raced \cup misread
  <2>1. AllIn(c, left)
    BY <1>0, <1>1, <1>2 DEF Tracing, Traced
  <2> QED BY <1>6, <1>9, <2>1, VMsStayInClass, AllInStays
<1> QED BY <1>1, <1>6, <1>7, <1>8, <1>9, <1>10, TermStep

\* The object that is released.
LEMMA GoneOf ==
    ASSUME NEW c \in Classes
    PROVE  /\ Gone(c) \in Object /\ ~Gone(c).alive /\ ~Gone(c).finalizer
           /\ Gone(c).zones = <<>>
<1>1. New(c) \in Object /\ New(c).zones = <<>> /\ ~New(c).finalizer
  <2>1. FirstSpec[c] \in Specs /\ <<>> \in Seq([zone : Zones, id : IDs])
    BY InstanceTemplateAssumption
  <2> QED BY <2>1 DEF New, Object
<1>2. PICK new \in Object : new = New(c)
  BY <1>1
<1>3. PICK g : g = [new EXCEPT !.alive = FALSE]
  OBVIOUS
<1>4. g \in Object /\ ~g.alive /\ g.finalizer = new.finalizer /\ g.zones = new.zones
  BY <1>3 DEF Object
<1>5. Gone(c) = g
  BY <1>2, <1>3 DEF Gone
<1> QED BY <1>1, <1>2, <1>4, <1>5

\* The finalizer goes when no entry is left, and with them no template.
LEMMA TermDoneKeeps ==
    ASSUME IInv, NEW c \in Classes, TermDone(c)
    PROVE  IInv'
<1> DEFINE p == <<c, "term">>
<1>0. /\ Shapes /\ Locking /\ Tracing /\ Lookups /\ OneTemplatePerZone
      /\ p \in Procs /\ p[1] = c /\ <<c, "status">> \in Procs
  BY ProcsOf DEF IInv
<1>1. /\ UNCHANGED <<wanted, vms, images, raced, misled, undercut>>
      /\ task[p].pc = "delete" /\ task[p].left = <<>> /\ lock' = Unlocked(p)
      /\ task' = [task EXCEPT ![p] = Idle] /\ Patch(p, Gone(c))
      /\ (cache' = cache /\ misread' = misread) \/ SyncInstanceTemplates
  BY DEF TermDone, Deleted
<1>2. Step(p, Idle)
  BY <1>0, <1>1, IdleOf DEF Step
<1>3. Locking'
  BY <1>0, <1>1, <1>2, IdleOf, LockingReleased
<1>4. /\ CacheStays /\ VMsStay /\ vms' \in [IDs -> VMState \cup {None}]
      /\ images' \subseteq Places \X Images /\ HistoryStays /\ InFlight(p)
      /\ wanted' \subseteq Classes
  BY <1>0, <1>1, SyncOf DEF CacheStays, VMsStay, Shapes, HistoryStays, InFlight
<1>5. /\ obj' \in [Classes -> Object] /\ stale' \subseteq Procs /\ StaleStays
      /\ \A d \in Classes \ {c} : obj'[d] = obj[d]
      /\ \/ obj' = obj
         \/ /\ p \notin stale /\ obj'[c] = Gone(c)
            /\ (Gone(c) # obj[c] /\ task'[<<c, "status">>].pc # "idle") =>
                   <<c, "status">> \in stale'
  BY <1>0, <1>1, GoneOf, PatchOf
<1>6. CASE obj' = obj
  BY <1>1, <1>2, <1>3, <1>4, <1>5, <1>6, IdleOf, TermStep
<1>7. CASE obj' # obj
  <2>1. p \notin stale /\ obj'[c] = Gone(c) /\ obj[c].alive /\ obj[c].deleting
    BY <1>0, <1>4, <1>5, <1>7 DEF Tracing, Current
  <2>2. ~obj'[c].alive /\ ~obj'[c].finalizer /\ obj'[c].zones = <<>>
        /\ (task'[<<c, "status">>].pc # "idle" => <<c, "status">> \in stale')
    BY <1>5, <1>7, <2>1, GoneOf
  <2>3. task'[p].pc = "idle" /\ task'[<<c, "status">>] = task[<<c, "status">>]
    BY <1>0, <1>1, IdleOf DEF Shapes
  <2>4. Shapes'
    BY <1>0, <1>2, <1>4, <1>5, ShapesStep
  <2>5. Lookups' /\ OneTemplatePerZone'
    BY <1>0, <1>2, <1>4, LookupsStep
  <2>6. \A d \in Classes : ClassStays(d)
    BY <1>4, VMsStayInClass
  <2>7. \A d \in Classes \ {c} : Known(d)' /\ Current(d)' /\ Traced(d)'
    <3>1. \A d \in Classes \ {c} : Quiet(d)
      BY <1>0, <1>2, <1>5, <2>6, OthersQuiet
    <3> QED BY <1>0, <1>4, <1>5, <3>1, QuietTraced DEF Tracing
  <2>8. Known(c)'
    BY <1>0, <1>4, <2>3, <2>6, KnownStep DEF Tracing, ListsInTheEnd
  <2>9. Current(c)'
    BY <2>2, <2>3 DEF Current, InFlight
  <2>10. ASSUME c \notin raced' \cup misread'
         PROVE  ~InFlight(<<c, "status">>)' /\ NoTemplates(c)'
    <3>1. c \notin raced \cup misread /\ Traced(c)
      BY <1>0, <1>4, <2>10 DEF Tracing, HistoryStays
    <3>2. ~InFlight(<<c, "status">>)'
      BY <2>1, <2>3, <3>1 DEF Traced, InFlight
    <3>3. AllIn(c, task[p].left)
      BY <1>1, <3>1 DEF Traced
    <3>4. \A i : i \notin 1..Len(task[p].left)
      BY <1>1
    <3>5. NoTemplates(c)
      BY <3>3, <3>4 DEF AllIn, NoTemplates
    <3> QED BY <2>6, <3>2, <3>5, NoTemplatesStays
  <2>11. Traced(c)'
    BY <2>2, <2>3, <2>10 DEF Traced
  <2> QED BY <1>3, <2>4, <2>5, <2>7, <2>8, <2>9, <2>11 DEF IInv, Tracing
<1> QED BY <1>6, <1>7

\* An in-place update works on a copy of the object and holds no lock.
LEMMA InPlaceBeginKeeps ==
    ASSUME IInv, NEW c \in Classes, InPlaceBegin(c)
    PROVE  IInv'
<1> DEFINE p == <<c, "inplace">>
<1>0. Shapes /\ Locking /\ p \in Procs
  BY ProcsOf DEF IInv
<1>1. /\ UNCHANGED <<obj, stale, lock, cache, vms, images, raced, misread, misled, undercut>>
      /\ wanted' = wanted \ {c} /\ task[p].pc = "idle"
  BY DEF InPlaceBegin, history, InFlight
<1>2. PICK copy \in Copies : copy = Copy(c)
  BY <1>0, CopyOf
<1>3. PICK idle \in TaskState : idle = Idle
  BY IdleOf
<1>4. PICK t : t = [idle EXCEPT !.pc = "update", !.copy = copy]
  OBVIOUS
<1>5. task' = [task EXCEPT ![p] = t]
  <2>1. task' = [task EXCEPT ![p] = [Idle EXCEPT !.pc = "update", !.copy = Copy(c)]]
    BY DEF InPlaceBegin
  <2> QED BY <1>2, <1>3, <1>4, <2>1, Zenon
<1>6. t \in TaskState /\ t.pc = "update" /\ t.copy = copy
  BY <1>4 DEF TaskState
<1>7. Step(p, t)
  BY <1>0, <1>5, <1>6 DEF Step, StageOK
<1>8. Locking'
  <2>1. \A z \in Zones : ~Holding(task[p], z)
    BY <1>1 DEF Holding, Importing
  <2>2. ~Importing(t)
    BY <1>6 DEF Importing
  <2> QED BY <1>0, <1>1, <1>7, <2>1, <2>2, LockingKept
<1>9. /\ CacheStays /\ VMsStay /\ vms' \in [IDs -> VMState \cup {None}]
      /\ images' \subseteq Places \X Images /\ wanted' \subseteq Classes /\ HistoryStays
  BY <1>0, <1>1 DEF CacheStays, VMsStay, Shapes, HistoryStays
<1>10. ObjStays(c)
  BY <1>0, <1>1, ObjUnchanged
<1> QED BY <1>7, <1>8, <1>9, <1>10, QuietStep

\* An update in place keeps the class and the zone of a template.
LEMMA InPlaceUpdateKeeps ==
    ASSUME IInv, NEW c \in Classes, InPlaceUpdate(c)
    PROVE  IInv'
<1> DEFINE p == <<c, "inplace">>
           copy == task[p].copy
<1>0. Shapes /\ Locking /\ p \in Procs
  BY ProcsOf DEF IInv
<1>1. copy \in Copies /\ task[p].pc = "update"
  BY <1>0 DEF InPlaceUpdate, Shapes, StageOK
<1> DEFINE named == {copy.zones[i] : i \in DOMAIN copy.zones}
           updated == {e.id : e \in {n \in named : Cached(n) /\ Exists(n)}}
           ok == \A e \in named : Cached(e)
<1>2. /\ UNCHANGED <<lock, cache, images, raced, misread, misled, undercut>>
      /\ task' = [task EXCEPT ![p] = Idle]
      /\ wanted' = wanted \/ wanted' = wanted \cup {c}
  BY DEF InPlaceUpdate, history
<1>3. vms' = [id \in IDs |->
           IF id \in updated
           THEN [vms[id] EXCEPT !.opts = copy.spec.opts, !.hash = Hash(copy.spec)]
           ELSE vms[id]]
  BY Zenon DEF InPlaceUpdate
<1>4. IF ok /\ obj[c].alive
      THEN Write(c, [obj[c] EXCEPT !.inplace = InPlaceHash(copy.spec)])
      ELSE UNCHANGED <<obj, stale>>
  BY Zenon DEF InPlaceUpdate
<1>5. \A id \in updated : vms[id] # None
  BY DEF Exists
<1> HIDE DEF updated, ok, copy
<1>6. PICK hash \in Hashes, opts \in {x.opts : x \in Specs} :
          hash = Hash(copy.spec) /\ opts = copy.spec.opts
  BY <1>1 DEF Copies, Hashes
<1>7. ASSUME NEW id \in IDs
      PROVE  /\ vms'[id] \in VMState \cup {None}
             /\ vms'[id] # None => /\ vms[id] # None /\ vms'[id].class = vms[id].class
                                   /\ vms'[id].zone = vms[id].zone
  <2>1. CASE id \notin updated
    BY <1>0, <1>3, <2>1 DEF Shapes
  <2>2. CASE id \in updated
    <3>1. PICK v \in VMState : v = vms[id] /\ vms[id] # None
      BY <1>0, <1>5, <2>2 DEF Shapes
    <3>2. PICK w : w = [v EXCEPT !.opts = opts, !.hash = hash]
      OBVIOUS
    <3>3. w \in VMState /\ w.class = v.class /\ w.zone = v.zone
      BY <3>2 DEF VMState
    <3>4. vms'[id] = [vms[id] EXCEPT !.opts = copy.spec.opts, !.hash = Hash(copy.spec)]
      BY <1>3, <2>2
    <3>5. vms'[id] = w
      BY <1>6, <3>1, <3>2, <3>4, Zenon
    <3> QED BY <3>1, <3>3, <3>5
  <2> QED BY <2>1, <2>2
<1>8. vms' \in [IDs -> VMState \cup {None}] /\ VMsStay
  <2>1. vms' = [id \in IDs |-> vms'[id]]
    BY <1>3
  <2> QED BY <1>7, <2>1 DEF VMsStay
<1>9. ObjStays(c)
  <2>1. CASE ok /\ obj[c].alive
    <3>1. PICK o \in Object : o = obj[c]
      BY <1>0 DEF Shapes
    <3>2. PICK new : new = [o EXCEPT !.inplace = opts]
      OBVIOUS
    <3>3. /\ new \in Object /\ new.alive = o.alive /\ new.deleting = o.deleting
          /\ new.zones = o.zones /\ new.finalizer = o.finalizer
      BY <3>2 DEF Object
    <3>4. InPlaceHash(copy.spec) = opts
      BY <1>6 DEF InPlaceHash
    <3>5. Write(c, new)
      <4>1. Write(c, [obj[c] EXCEPT !.inplace = InPlaceHash(copy.spec)])
        BY <1>4, <2>1
      <4> QED BY <3>1, <3>2, <3>4, <4>1, Zenon
    <3> QED BY <1>0, <3>1, <3>3, <3>5, WriteStays
  <2>2. CASE ~(ok /\ obj[c].alive)
    BY <1>0, <1>4, <2>2, ObjUnchanged
  <2> QED BY <2>1, <2>2
<1>10. Step(p, Idle)
  BY <1>0, <1>2, IdleOf DEF Step
<1>11. Locking'
  <2>1. \A z \in Zones : ~Holding(task[p], z)
    BY <1>1 DEF Holding, Importing
  <2> QED BY <1>0, <1>2, <1>10, <2>1, IdleOf, LockingKept
<1>12. /\ CacheStays /\ images' \subseteq Places \X Images /\ wanted' \subseteq Classes
       /\ HistoryStays
  BY <1>0, <1>2 DEF CacheStays, Shapes, HistoryStays
<1> QED BY <1>2, <1>8, <1>9, <1>11, <1>12, ReturnKeeps

-------------------------------------------------------------------------------
(* The environment.                                                        *)

\* What was found under the locks, while no reconcile moves.
LEMMA LookupsStill ==
    ASSUME Shapes, Lookups, UNCHANGED task, VMsStay, CacheStays, HistoryStays
    PROVE  Lookups'
<1> SUFFICES ASSUME NEW c \in Classes PROVE Lookup(c, task[<<c, "status">>])'
  BY DEF Lookups
<1>1. PICK u \in TaskState : u = task[<<c, "status">>] /\ StageOK(<<c, "status">>, u)
  BY ProcsOf DEF Shapes
<1>2. u.pc = "vm" => u.id \in IDs
  BY <1>1 DEF StageOK
<1>3. Lookup(c, u)'
  BY <1>1, <1>2, LookupStays DEF Lookups
<1> QED BY <1>1, <1>3 DEF Lookup, Scanned, TemplateOf, Lists

\* A list that is made between the steps of the reconciles, or no step.
LEMMA ScanKeeps ==
    ASSUME IInv, CacheStays, misread \subseteq misread',
           UNCHANGED <<obj, task, stale, wanted, lock, vms, images, raced, misled, undercut>>
    PROVE  IInv'
<1>0. Shapes /\ Locking /\ Lookups /\ OneTemplatePerZone /\ Tracing
  BY DEF IInv
<1>1. Shapes'
  BY <1>0, ListedOf DEF Shapes, StageOK, CacheStays
<1>2. Locking'
  BY <1>0 DEF Locking, Holding, Importing, Source
<1>3. VMsStay /\ StaleStays /\ HistoryStays
  BY DEF VMsStay, StaleStays, HistoryStays
<1>4. Lookups'
  BY <1>0, <1>3, LookupsStill
<1>5. OneTemplatePerZone'
  BY <1>0 DEF OneTemplatePerZone
<1>6. \A c \in Classes : Quiet(c)
  BY DEF Quiet, SameUse, BeginsInUse, ListsInTheEnd, InFlight, ClassStays
<1>7. Tracing'
  BY <1>0, <1>3, <1>6, TracingStep
<1> QED BY <1>1, <1>2, <1>4, <1>5, <1>7 DEF IInv

\* The user deletes an object.  When status runs, or has left a template
\* that the object does not name, the class counts as raced.
LEMMA UserDeleteKeeps ==
    ASSUME IInv, NEW c \in Classes, UserDelete(c)
    PROVE  IInv'
<1>0. /\ Shapes /\ Locking /\ Lookups /\ OneTemplatePerZone /\ Tracing
      /\ <<c, "status">> \in Procs
  BY ProcsOf DEF IInv
<1>1. /\ UNCHANGED <<task, wanted, lock, cache, vms, images, misread, misled, undercut>>
      /\ obj[c].alive /\ ~obj[c].deleting
      /\ raced' = IF InFlight(<<c, "status">>) \/ Unrecorded(c) THEN raced \cup {c} ELSE raced
  BY DEF UserDelete
<1>2. PICK o \in Object : o = obj[c]
  BY <1>0 DEF Shapes
<1>3. PICK new \in Object :
          /\ Write(c, new) /\ new # o
          /\ \/ new.alive /\ new.deleting /\ new.finalizer /\ new.zones = o.zones
             \/ ~o.finalizer /\ ~new.alive /\ new.zones = <<>>
  <2>1. CASE o.finalizer
    <3>1. PICK new : new = [o EXCEPT !.deleting = TRUE]
      OBVIOUS
    <3>2. /\ new \in Object /\ new.alive = o.alive /\ new.deleting
          /\ new.finalizer = o.finalizer /\ new.zones = o.zones
      BY <3>1 DEF Object
    <3>3. Write(c, new)
      BY <1>2, <2>1, <3>1 DEF UserDelete
    <3>4. new # o
      BY <1>1, <1>2, <3>2
    <3> QED BY <1>1, <1>2, <2>1, <3>2, <3>3, <3>4
  <2>2. CASE ~o.finalizer
    <3>1. Write(c, Gone(c))
      BY <1>2, <2>2 DEF UserDelete
    <3>2. Gone(c) # o
      BY <1>1, <1>2, GoneOf
    <3> QED BY <2>2, <3>1, <3>2, GoneOf
  <2> QED BY <2>1, <2>2
<1>4. /\ obj' \in [Classes -> Object] /\ obj'[c] = new
      /\ \A d \in Classes \ {c} : obj'[d] = obj[d]
      /\ stale' \subseteq Procs /\ StaleStays
      /\ task'[<<c, "status">>].pc # "idle" => <<c, "status">> \in stale'
      /\ task'[<<c, "term">>].pc # "idle" => <<c, "term">> \in stale'
  BY <1>0, <1>2, <1>3, WriteOf
<1>5. Shapes'
  BY <1>0, <1>1, <1>4 DEF Shapes, StageOK
<1>6. Locking' /\ Lookups' /\ OneTemplatePerZone'
  <2>1. Locking'
    BY <1>0, <1>1 DEF Locking, Holding, Importing, Source
  <2>2. Lookups'
    BY <1>0, <1>1, LookupsStill DEF VMsStay, CacheStays, HistoryStays
  <2>3. OneTemplatePerZone'
    BY <1>0, <1>1 DEF OneTemplatePerZone
  <2> QED BY <2>1, <2>2, <2>3
<1>7. CacheStays /\ VMsStay /\ HistoryStays
  BY <1>1 DEF CacheStays, VMsStay, HistoryStays
<1>8. \A d \in Classes : ClassStays(d)
  BY <1>7, VMsStayInClass
<1>9. \A d \in Classes \ {c} : Known(d)' /\ Current(d)' /\ Traced(d)'
  <2>1. \A d \in Classes \ {c} : Quiet(d)
    BY <1>1, <1>4, <1>8 DEF Quiet, SameUse, BeginsInUse, ListsInTheEnd, InFlight
  <2> QED BY <1>0, <1>4, <1>7, <2>1, QuietTraced DEF Tracing
<1>10. Known(c)'
  BY <1>0, <1>1, <1>7, <1>8, KnownStep DEF Tracing, ListsInTheEnd
<1>11. Current(c)'
  BY <1>3, <1>4 DEF Current, InFlight
<1>12. ASSUME c \notin raced' \cup misread'
       PROVE  /\ ~InFlight(<<c, "status">>)' /\ task'[<<c, "term">>].pc = "idle"
              /\ obj'[c].alive => AllIn(c, obj[c].zones)'
              /\ ~obj'[c].alive => NoTemplates(c)'
  <2>1. ~InFlight(<<c, "status">>) /\ ~Unrecorded(c)
    BY <1>1, <1>12
  <2>2. ~InFlight(<<c, "term">>)
    BY <1>0, <1>1 DEF Tracing, Current
  <2>3. o.zones \in Seq(Entries)
    BY <1>0, <1>2, CopyOf
  <2>4. \A id \in IDs : vms[id] # None /\ vms[id].class = c =>
            \E i \in 1..Len(o.zones) : o.zones[i] = [zone |-> vms[id].zone, id |-> id]
    BY <1>2, <2>1, <2>3 DEF Unrecorded, Named
  <2>5. obj'[c].alive => AllIn(c, obj[c].zones)'
    BY <1>1, <1>3, <1>4, <2>4 DEF AllIn
  <2>6. ~obj'[c].alive => NoTemplates(c)'
    <3> HAVE ~obj'[c].alive
    <3>1. ~o.finalizer
      BY <1>3, <1>4
    <3>2. o.zones = <<>>
      BY <1>0, <1>2, <3>1 DEF Tracing, Current
    <3>3. \A i : i \notin 1..Len(o.zones)
      BY <3>2
    <3> QED BY <1>1, <2>4, <3>3 DEF NoTemplates
  <2> QED BY <1>1, <2>1, <2>2, <2>5, <2>6 DEF InFlight
<1>13. Traced(c)'
  BY <1>12 DEF Traced
<1> QED BY <1>5, <1>6, <1>9, <1>10, <1>11, <1>13 DEF IInv, Tracing

\* The operator starts again: no reconcile, no lock, and a new list.
LEMMA RestartKeeps ==
    ASSUME IInv, Restart
    PROVE  IInv'
<1>0. Shapes /\ Locking /\ OneTemplatePerZone /\ Tracing
  BY DEF IInv
<1>1. /\ UNCHANGED <<obj, vms, images, raced, misled>> /\ wanted' = {} /\ stale' = {}
      /\ task' = [p \in Procs |-> Idle] /\ lock' = [z \in Zones |-> None]
      /\ ScanFails({})
  BY DEF Restart
<1>2. \A p \in Procs : task'[p] = Idle /\ task'[p].pc = "idle"
  BY <1>1, IdleOf
<1>3. Shapes'
  <2>1. cache' \subseteq Items
    BY <1>0, <1>1, ListedOf DEF ScanFails
  <2>2. task' \in [Procs -> TaskState]
    BY <1>1, IdleOf
  <2>3. \A p \in Procs : StageOK(p, task[p])'
    BY <1>2 DEF StageOK
  <2> QED BY <1>0, <1>1, <2>1, <2>2, <2>3 DEF Shapes
<1>4. Locking'
  <2>1. \A p \in Procs : ~Importing(task'[p])
    BY <1>2 DEF Importing
  <2>2. lock' \in [Zones -> DeleteCalls \cup {None}] /\ \A z \in Zones : lock'[z] = None
    BY <1>1
  <2> QED BY <2>1, <2>2 DEF Locking, Importing
<1>5. Lookups' /\ OneTemplatePerZone'
  BY <1>0, <1>1, <1>2, ProcsOf DEF Lookups, Lookup, OneTemplatePerZone
<1>6. ASSUME NEW c \in Classes PROVE Known(c)' /\ Current(c)' /\ Traced(c)'
  <2>0. /\ task'[<<c, "status">>].pc = "idle" /\ task'[<<c, "term">>].pc = "idle"
        /\ Known(c) /\ Current(c) /\ Traced(c)
    BY <1>0, <1>2, <1>6, ProcsOf DEF Tracing
  <2>1. Known(c)'
    <3>1. \A id \in IDs : vms[id] # None /\ ~Lists(cache', id) => vms[id].class \in misread'
      BY <1>1 DEF ScanFails, LeftOut
    <3> QED BY <1>1, <3>1 DEF Known, InCache, Lists
  <2>2. Current(c)'
    BY <1>1, <2>0 DEF Current, InFlight
  <2>3. Traced(c)'
    <3>1. misread \subseteq misread'
      BY <1>1 DEF ScanFails
    <3> QED BY <1>1, <2>0, <3>1 DEF Traced, InFlight, AllIn, NoTemplates
  <2> QED BY <2>1, <2>2, <2>3
<1> QED BY <1>3, <1>4, <1>5, <1>6 DEF IInv, Tracing

-------------------------------------------------------------------------------
(* The theorems.                                                           *)

\* The four layers hold of every state: the reconciles, the zone locks, the
\* lookups under the lock and the templates of each class fit together.
THEOREM Inductive == Spec => []IInv
<1>1. Init => IInv
  <2> SUFFICES ASSUME Init PROVE IInv
    OBVIOUS
  <2>0. /\ obj = [c \in Classes |-> New(c)] /\ task = [p \in Procs |-> Idle]
        /\ lock = [z \in Zones |-> None] /\ vms = [id \in IDs |-> None]
        /\ stale = {} /\ wanted = {} /\ cache = {} /\ images = {}
    BY DEF Init
  <2>1. \A p \in Procs : task[p] = Idle /\ task[p].pc = "idle"
    BY <2>0, IdleOf
  <2>2. \A c \in Classes : New(c) \in Object /\ New(c).zones = <<>> /\ New(c).alive
                           /\ ~New(c).deleting
    <3> SUFFICES ASSUME NEW c \in Classes
                 PROVE  New(c) \in Object /\ New(c).zones = <<>> /\ New(c).alive
                        /\ ~New(c).deleting
      OBVIOUS
    <3>1. FirstSpec[c] \in Specs /\ <<>> \in Seq([zone : Zones, id : IDs])
      BY InstanceTemplateAssumption
    <3> QED BY <3>1 DEF New, Object
  <2>3. Shapes
    <3>1. obj \in [Classes -> Object] /\ task \in [Procs -> TaskState]
      BY <2>0, <2>2, IdleOf
    <3>2. \A p \in Procs : StageOK(p, task[p])
      BY <2>1, IdleOf
    <3> QED BY <2>0, <3>1, <3>2 DEF Shapes
  <2>4. Locking
    BY <2>0, <2>1, IdleOf DEF Locking
  <2>5. Lookups /\ OneTemplatePerZone
    BY <2>0, <2>1, ProcsOf DEF Lookups, Lookup, OneTemplatePerZone
  <2>6. Tracing
    <3> SUFFICES ASSUME NEW c \in Classes PROVE Known(c) /\ Current(c) /\ Traced(c)
      BY DEF Tracing
    <3>1. /\ task[<<c, "status">>].pc = "idle" /\ task[<<c, "term">>].pc = "idle"
          /\ obj[c] = New(c)
      BY <2>0, <2>1, ProcsOf
    <3> QED BY <2>0, <2>2, <3>1 DEF Known, Current, Traced, InFlight
  <2> QED BY <2>3, <2>4, <2>5, <2>6 DEF IInv
<1>2. IInv /\ [Next]_vars => IInv'
  <2> SUFFICES ASSUME IInv, [Next]_vars PROVE IInv'
    OBVIOUS
  <2>1. ASSUME NEW p \in DeleteCalls, DeleteStep(p) PROVE IInv'
    BY <2>1, DeleteTemplateKeeps, DeleteImageKeeps, DeleteFailsKeeps DEF DeleteStep
  <2>2. ASSUME NEW c \in Classes, CreateStep(c) PROVE IInv'
    BY <2>2, DownloadKeeps, DownloadFailsKeeps, UseTemplateKeeps, DeleteOutdatedKeeps,
       NewTemplateKeeps, CreateTemplateFailsKeeps, CreateVMKeeps, CreateVMFailsKeeps,
       CreateDoneKeeps DEF CreateStep
  <2>3. ASSUME NEW c \in Classes, StatusReconcile(c) PROVE IInv'
    BY <2>1, <2>2, <2>3, ProcsOf, AddFinalizerKeeps, StatusBeginKeeps, DeleteDoneKeeps
       DEF StatusReconcile
  <2>4. ASSUME NEW c \in Classes, TermReconcile(c) PROVE IInv'
    BY <2>1, <2>4, ProcsOf, TermBeginKeeps, TermDoneKeeps DEF TermReconcile
  <2>5. ASSUME NEW c \in Classes, InPlaceReconcile(c) PROVE IInv'
    BY <2>5, InPlaceDroppedKeeps, InPlaceBeginKeeps, InPlaceUpdateKeeps DEF InPlaceReconcile
  <2>6. Touched \subseteq Classes
    BY InstanceTemplateAssumption
  <2>7. CASE UNCHANGED vars
    BY <2>7, ScanKeeps DEF vars, CacheStays
  <2>8. CASE UnmanagedScan
    <3>1. CacheStays /\ misread \subseteq misread'
      BY <2>8, SyncOf DEF IInv, UnmanagedScan, CacheStays
    <3> QED BY <2>8, <3>1, ScanKeeps DEF UnmanagedScan
  <2> QED BY <2>3, <2>4, <2>5, <2>6, <2>7, <2>8, HashReconcileKeeps, UserDeleteKeeps,
       EditKeeps, RestartKeeps DEF Next
<1> QED BY <1>1, <1>2, PTL DEF Spec

\* Types, and the locks: whoever holds the lock of a zone is in flight, so a
\* call of Create or Delete that has returned has given back all it took.
THEOREM TypeCorrect == Spec => []TypeOK
<1>1. IInv => TypeOK
  <2> SUFFICES ASSUME IInv PROVE TypeOK
    OBVIOUS
  <2>1. \A z \in Zones : lock[z] # None => InFlight(lock[z])
    BY DEF IInv, Locking, Holding, Importing, InFlight
  <2>2. \A c \in Classes : obj[c] \in Object
    BY DEF IInv, Shapes
  <2>3. \A z \in Zones : lock[z] \in {None} \cup DeleteCalls
    BY DEF IInv, Locking
  <2>4. stale \subseteq Procs /\ wanted \subseteq Classes
        /\ images \subseteq {Store[z] : z \in Zones} \X {s.image : s \in Specs}
    BY DEF IInv, Shapes, Images, Places
  <2> QED BY <2>1, <2>2, <2>3, <2>4 DEF TypeOK
<1> QED BY <1>1, Inductive, PTL

\* Whatever is edited, fails or starts again, a class has one template in a
\* zone at most, as long as the scans of its own Creates were complete: the
\* lookup of createTemplate and CreateVM are under one lock of the zone.
THEOREM OneTemplate == Spec => []OneTemplatePerZone
<1>1. IInv => OneTemplatePerZone
  BY DEF IInv
<1> QED BY <1>1, Inductive, PTL

\* No Delete in the zone takes away the image that a Create imports, since
\* both hold the lock of the zone; one in another zone of a shared storage
\* may, and is on record.
THEOREM ImageKept == Spec => []ImageUnderCreate
<1>1. IInv => ImageUnderCreate
  <2> SUFFICES ASSUME IInv, NEW c \in Classes \ undercut, Importing(task[<<c, "status">>])
               PROVE  Source(task[<<c, "status">>]) \in images
    BY DEF ImageUnderCreate
  <2>1. <<c, "status">> \in Procs
    BY ProcsOf
  <2> QED BY <2>1 DEF IInv, Locking
<1> QED BY <1>1, Inductive, PTL

\* A zone lock that a Create holds is soon free: a Create waits for no lock
\* while it holds one, whatever the order of its zones.
THEOREM CreatesAtWork == Spec => []NoWaitingCreateInTheWay
<1>1. IInv => NoWaitingCreateInTheWay
  <2> SUFFICES ASSUME IInv, NEW q \in DeleteCalls, WaitsFor(q) # None,
                      task[WaitsFor(q)].pc \notin {"delete", "image"}
               PROVE  WaitsFor(WaitsFor(q)) = None
    BY DEF NoWaitingCreateInTheWay
  <2>0. Shapes /\ Locking /\ q \in Procs
    BY DEF IInv, DeleteCalls, Procs, Controllers
  <2>1. PICK z \in Zones : WaitsFor(q) = lock[z]
    <3>1. CASE task[q].pc = "image"
      <4>1. task[q].left \in Seq(Entries) /\ task[q].left # <<>>
        BY <2>0, <3>1 DEF Shapes, StageOK
      <4>2. Head(task[q].left) \in Entries
        BY <4>1
      <4>3. Head(task[q].left).zone \in Zones
        BY <4>2 DEF Entries
      <4> QED BY <3>1, <4>3 DEF WaitsFor
    <3>2. CASE task[q].pc # "image" /\ task[q].pc = "create" /\ task[q].left # <<>>
      <4>1. task[q].left \in Seq(Zones)
        BY <2>0, <3>2 DEF Shapes, StageOK
      <4>2. Head(task[q].left) \in Zones
        BY <3>2, <4>1
      <4> QED BY <3>2, <4>2 DEF WaitsFor
    <3> QED BY <3>1, <3>2 DEF WaitsFor
  <2>2. PICK p : p = WaitsFor(q) /\ p = lock[z]
    BY <2>1
  <2>3. Importing(task[p])
    BY <2>0, <2>1, <2>2 DEF Locking, Holding
  <2>4. task[p].pc # "image" /\ task[p].pc # "create"
    BY <2>3 DEF Importing
  <2>5. WaitsFor(p) = None
    BY <2>4 DEF WaitsFor
  <2> QED BY <2>2, <2>5
<1> QED BY <1>1, Inductive, PTL

\* The clean-up of a failing CreateVM spares the templates of other classes,
\* although the identifier that it uses was not reserved: under the lock of
\* the zone no other class makes a template there.
THEOREM CleanUpSpares == Spec => CleanUpSparesOthers
<1> DEFINE Spares(c) ==
        task[<<c, "status">>].pc = "vm" /\ task'[<<c, "status">>] # task[<<c, "status">>] =>
            \A id \in IDs : vms[id] # None /\ vms'[id] = None =>
                vms[id].class \in {c} \cup misread
<1>1. IInv /\ [Next]_vars => \A c \in Classes : Spares(c)
  <2> SUFFICES ASSUME IInv, Next, NEW c \in Classes, task[<<c, "status">>].pc = "vm",
                      task'[<<c, "status">>] # task[<<c, "status">>],
                      NEW id \in IDs, vms[id] # None, vms'[id] = None
               PROVE  vms[id].class \in {c} \cup misread
    BY DEF vars
  <2>0. Shapes /\ Lookup(c, task[<<c, "status">>])
    BY DEF IInv, Lookups
  <2>1. vms' # vms
    OBVIOUS
  <2>2. CreateVM(c) \/ CreateVMFails(c)
    <3>0. \A p : p # <<c, "status">> => \A t : task' # [task EXCEPT ![p] = t]
      BY <2>0, ProcsOf DEF Shapes
    <3>1. ASSUME NEW p \in DeleteCalls, DeleteStep(p) PROVE FALSE
      <4>1. p # <<c, "status">>
        BY <3>1 DEF DeleteStep, DeleteTemplate, DeleteImage, DeleteFails
      <4>2. DeleteTemplate(p)
        BY <2>1, <3>1 DEF DeleteStep, DeleteImage, DeleteFails
      <4>3. \E t : Step(p, t)
        BY <2>0, <3>1, <4>2, DeleteTemplateEffect DEF IInv
      <4> QED BY <3>0, <4>1, <4>3 DEF Step
    <3>2. ASSUME NEW d \in Classes, CreateStep(d) PROVE CreateVM(c) \/ CreateVMFails(c)
      <4>1. CASE DeleteOutdated(d)
        <5>1. d # c
          BY <4>1 DEF DeleteOutdated
        <5>2. task'[<<c, "status">>] = task[<<c, "status">>]
          BY <2>0, <4>1, <5>1, ProcsOf DEF DeleteOutdated, Shapes
        <5> QED BY <5>2
      <4>2. CASE CreateVM(d) \/ CreateVMFails(d)
        <5>1. \/ task' = NextZone(<<d, "status">>)
              \/ \E i \in IDs : task' = Installed(<<d, "status">>, i)
          BY <2>0, <4>2, ProcsOf DEF CreateVM, CreateVMFails, LeaveZone, Shapes, StageOK
        <5>2. d # c => task'[<<c, "status">>] = task[<<c, "status">>]
          BY <2>0, <5>1, ProcsOf DEF NextZone, Installed, Shapes
        <5> QED BY <4>2, <5>2
      <4> QED BY <2>1, <3>2, <4>1, <4>2 DEF CreateStep, Download, DownloadFails, UseTemplate,
             NewTemplate, CreateTemplateFails, CreateDone
    <3>3. ASSUME NEW d \in Classes, StatusReconcile(d) PROVE CreateVM(c) \/ CreateVMFails(c)
      BY <2>1, <3>1, <3>2, <3>3, ProcsOf
         DEF StatusReconcile, AddFinalizer, StatusBegin, DeleteDone
    <3>4. ASSUME NEW d \in Classes, TermReconcile(d) PROVE FALSE
      BY <2>1, <3>1, <3>4, ProcsOf DEF TermReconcile, TermBegin, TermDone
    <3>5. ASSUME NEW d \in Classes, InPlaceReconcile(d) PROVE FALSE
      <4>1. InPlaceUpdate(d)
        BY <2>1, <3>5 DEF InPlaceReconcile, InPlaceDropped, InPlaceBegin
      <4>2. task' = [task EXCEPT ![<<d, "inplace">>] = Idle]
        BY <4>1 DEF InPlaceUpdate
      <4> QED BY <3>0, <4>2
    <3> QED BY <2>1, <3>3, <3>4, <3>5, InstanceTemplateAssumption
           DEF Next, HashReconcile, UserDelete, Edit, UnmanagedScan, Restart
  <2>3. CASE CreateVM(c)
    <3>1. PICK v : /\ vms' = [vms EXCEPT ![task[<<c, "status">>].id] = v]
                   /\ v = Template(c, Zone(<<c, "status">>), task[<<c, "status">>].copy.spec)
                   /\ vms[task[<<c, "status">>].id] = None
      BY <2>3 DEF CreateVM
    <3>2. id # task[<<c, "status">>].id
      BY <3>1
    <3> QED BY <2>0, <3>1, <3>2 DEF Shapes
  <2>4. CASE CreateVMFails(c)
    <3>1. PICK e : /\ e = [id |-> task[<<c, "status">>].id, zone |-> Zone(<<c, "status">>)]
                   /\ vms' = IF Exists(e) THEN [vms EXCEPT ![e.id] = None] ELSE vms
      BY <2>4 DEF CreateVMFails
    <3>2. e.id = task[<<c, "status">>].id /\ e.zone = Head(task[<<c, "status">>].left)
      BY <3>1 DEF Zone
    <3>3. Exists(e) /\ id = e.id
      BY <2>0, <3>1 DEF Shapes
    <3> QED BY <2>0, <3>2, <3>3 DEF Lookup, Exists
  <2> QED BY <2>2, <2>3, <2>4
<1>2. (\A c \in Classes : Spares(c)) => [\A c \in Classes : Spares(c)]_vars
  OBVIOUS
<1> QED BY <1>1, <1>2, Inductive, PTL DEF Spec, CleanUpSparesOthers

\* An object that is gone has left no template behind, but for the two known
\* cases: finalize removes the finalizer of an object that it has not read
\* out of date, after it has deleted every template that the object names.
THEOREM OrphansNone == Spec => []NoOrphans
<1>1. IInv => NoOrphans
  BY DEF IInv, Tracing, Traced, NoTemplates, NoOrphans
<1> QED BY <1>1, Inductive, PTL

===============================================================================
