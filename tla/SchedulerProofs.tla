--------------------------- MODULE SchedulerProofs ---------------------------
(***************************************************************************)
(* Theorems about the daemon, for any number of VMs, CPUs, retries and     *)
(* events, and a queue of any size.                                        *)
(*                                                                         *)
(* Whatever is true once all events of a VM are handled is true because    *)
(* the last event that is on its way tells what the VM's PID file is like. *)
(* Events pass through three places, the watcher, the queue and the list   *)
(* of retries; Latest is the last event of a VM in all of them, and each   *)
(* step either leaves it as it is, adds one to it or hands it to a         *)
(* handler.                                                                *)
(***************************************************************************)
EXTENDS Scheduler, FiniteSetTheorems, SequenceTheorems, WellFoundedInduction,
        NaturalsInduction, TLAPS

-------------------------------------------------------------------------------
(* The inductive invariant.                                                *)

AllConfigs == UNION {Configs[v] : v \in Files}

\* No two entries of the list could be merged.
Once(entries) ==
    \A i, j \in DOMAIN entries : i # j => entries[i].event.key # entries[j].event.key

HostShapes ==
    /\ host \in [Files -> HostState]
    /\ conf \in [Files -> AllConfigs] /\ \A v \in Files : conf[v] \in Configs[v]

PipeShapes ==
    /\ fs \in Seq(FileEvent)
    /\ watch \in {"idle", "sending", "done"}
    /\ timer \in {"idle", "sending", "done"}
    /\ queue \in Seq({Fresh(e) : e \in Event}) /\ Len(queue) <= QueueSize

ListShapes ==
    /\ pending \in Seq(RetryableEvent) /\ Once(pending)
    /\ todo \in Seq(RetryableEvent) /\ Once(todo)
    /\ Keys(pending) \cap Keys(todo) = {}

EffectShapes ==
    /\ DOMAIN tracker \subseteq Files
    /\ \A v \in DOMAIN tracker : tracker[v] \subseteq HostCPUs
    /\ bound \in [Files -> SUBSET {"threads", "irqs"}]
    /\ busy \subseteq HostCPUs /\ leaked \subseteq HostCPUs
    /\ missed \subseteq Files

ControlShapes ==
    /\ consumer \in {"running", "done"}
    /\ main \in {"starting", "up", "cancelled", "stopped", "closed"}

\* The channel is closed when no goroutine is left.
Closing == main = "closed" => AllDone

Events(entries) == [i \in DOMAIN entries |-> entries[i].event]

\* The operation of the last event of k in a sequence, or nothing.
LastOf(s, k) ==
    {s[i].op : i \in {n \in DOMAIN s : s[n].key = k /\ \A m \in DOMAIN s : n < m => s[m].key # k}}

\* The operations of k in a list of retries.
Ops(entries, k) ==
    {entries[i].event.op : i \in {n \in DOMAIN entries : entries[n].event.key = k}}

\* The operation of the last event of v on its way to a handler, or nothing:
\* f is with the watcher, q in the queue, p and t are the lists of retries.
LatestIn(f, q, p, t, v) ==
    IF LastOf(f, v) # {} THEN LastOf(f, v)
    ELSE IF LastOf(Events(q), v) # {} THEN LastOf(Events(q), v)
    ELSE Ops(p, v) \cup Ops(t, v)

Latest(v) == LatestIn(fs, queue, pending, todo, v)

\* It tells whether the PID file exists.
RightOp(v) == IF host[v] = "off" THEN "removed" ELSE "written"

Announced == ~CtxDone => \A v \in Files : Latest(v) \subseteq {RightOp(v)}

\* Only a process that exists has something bound, and only what its
\* configuration asks for.
BoundFor(v) ==
    /\ bound[v] \subseteq Wanted(v)
    /\ ~ProcessExists(v) => bound[v] = {}
    /\ "threads" \in bound[v] => host[v] = "running" /\ ~Mismatch(v)

Accounted == busy \subseteq (UNION {tracker[v] : v \in DOMAIN tracker}) \cup leaked

\* What holds of a VM when all its events are handled.
Settled(v) ==
    /\ host[v] = "off" => v \notin DOMAIN tracker
    /\ ProcessExists(v) /\ ~Mismatch(v) =>
           /\ v \in DOMAIN tracker \cup missed
           /\ v \notin missed => bound[v] = Wanted(v)
    /\ "threads" \in bound[v] /\ v \notin missed =>
           v \in DOMAIN tracker /\ tracker[v] = Affinity(v) /\ Governed(v) \subseteq busy

Handled == ~CtxDone => \A v \in Files : Latest(v) = {} => Settled(v)

\* What the handlers have done.
Kernel == EffectShapes /\ Accounted /\ \A v \in Files : BoundFor(v)

IInv ==
    /\ HostShapes /\ PipeShapes /\ ListShapes /\ ControlShapes
    /\ Closing /\ Kernel /\ Announced /\ Handled

-------------------------------------------------------------------------------
(* Sequences of events.                                                    *)

\* A set of positions that is not empty has a largest one.
LEMMA LargestPosition ==
    ASSUME NEW n \in Nat, NEW S \in SUBSET (1..n), S # {}
    PROVE  \E i \in S : \A j \in S : j <= i
<1> DEFINE R == {ss \in Nat \X Nat : ss[1] < ss[2]}
           T == {n - i : i \in S}
<1>1. IsWellFoundedOn(R, Nat)
  BY NatLessThanWellFounded, Zenon DEF OpToRel
<1>2. T \subseteq Nat /\ T # {}
  <2>1. PICK j : j \in S
    OBVIOUS
  <2>2. n - j \in T
    BY <2>1
  <2>3. \A i \in S : n - i \in Nat
    OBVIOUS
  <2> QED BY <2>2, <2>3
<1>3. PICK m \in T : \A x \in T : ~(<<x, m>> \in R)
  <2> HIDE DEF R, T
  <2> QED BY <1>1, <1>2, WFMin
<1>4. PICK i \in S : m = n - i
  BY <1>3
<1>5. ASSUME NEW j \in S PROVE j <= i
  <2>1. n - j \in T /\ n - j \in Nat /\ m \in Nat
    BY <1>2, <1>4
  <2>2. ~(n - j < m)
    BY <1>3, <2>1
  <2> QED BY <1>4, <2>1, <2>2
<1> QED BY <1>5

\* Positions and elements of a sequence that grows at its end ...
LEMMA AppendShape ==
    ASSUME NEW X, NEW s \in Seq(X), NEW e \in X
    PROVE  /\ Append(s, e) \in Seq(X) /\ Len(s) \in Nat /\ Len(Append(s, e)) = Len(s) + 1
           /\ DOMAIN s = 1..Len(s) /\ DOMAIN Append(s, e) = 1..(Len(s) + 1)
           /\ Append(s, e)[Len(s) + 1] = e
           /\ \A i \in 1..Len(s) : Append(s, e)[i] = s[i]
<1>1. PICK t \in Seq(X) : t = Append(s, e)
  BY AppendProperties
<1>2. Len(t) = Len(s) + 1 /\ t[Len(s) + 1] = e /\ \A i \in 1..Len(s) : t[i] = s[i]
  BY <1>1, AppendProperties
<1>3. Len(s) \in Nat /\ DOMAIN s = 1..Len(s) /\ DOMAIN t = 1..Len(t)
  BY <1>1, LenProperties
<1> QED BY <1>1, <1>2, <1>3

\* ... and of one that loses its first.
LEMMA TailShape ==
    ASSUME NEW X, NEW s \in Seq(X), s # <<>>
    PROVE  /\ Tail(s) \in Seq(X) /\ Len(s) \in Nat \ {0} /\ Len(Tail(s)) = Len(s) - 1
           /\ DOMAIN s = 1..Len(s) /\ DOMAIN Tail(s) = 1..(Len(s) - 1)
           /\ Head(s) \in X /\ Head(s) = s[1]
           /\ \A i \in 1..(Len(s) - 1) : Tail(s)[i] = s[i + 1]
<1>1. PICK t \in Seq(X) : t = Tail(s)
  BY HeadTailProperties
<1>2. Len(t) = Len(s) - 1 /\ \A i \in 1..Len(t) : t[i] = s[i + 1]
  BY <1>1, HeadTailProperties
<1>3. Len(s) \in Nat \ {0} /\ DOMAIN s = 1..Len(s) /\ DOMAIN t = 1..Len(t)
  BY <1>1, LenProperties, EmptySeq
<1>4. Head(s) \in X /\ Head(s) = s[1]
  BY HeadTailProperties
<1> QED BY <1>1, <1>2, <1>3, <1>4

\* A key that occurs has a last operation.
LEMMA LastExists ==
    ASSUME NEW X, NEW s \in Seq(X), NEW i \in DOMAIN s
    PROVE  LastOf(s, s[i].key) # {}
<1> DEFINE S == {n \in DOMAIN s : s[n].key = s[i].key}
<1>1. PICK n \in Nat : n = Len(s) /\ DOMAIN s = 1..n
  BY LenProperties
<1>2. S \in SUBSET (1..n) /\ S # {}
  BY <1>1
<1>3. PICK m \in S : \A j \in S : j <= m
  <2> HIDE DEF S
  <2> QED BY <1>2, LargestPosition
<1>4. m \in DOMAIN s /\ s[m].key = s[i].key
      /\ \A j \in DOMAIN s : m < j => s[j].key # s[i].key
  BY <1>1, <1>3
<1> QED BY <1>4 DEF LastOf

\* A key that does not occur has none.
LEMMA LastNone ==
    ASSUME NEW s, NEW k, \A i \in DOMAIN s : s[i].key # k
    PROVE  LastOf(s, k) = {}
BY DEF LastOf

\* A new event is the last of its key.
LEMMA LastAppended ==
    ASSUME NEW X, NEW s \in Seq(X), NEW e \in X, NEW k
    PROVE  LastOf(Append(s, e), k) = IF e.key = k THEN {e.op} ELSE LastOf(s, k)
<1>1. PICK n \in Nat : n = Len(s) /\ DOMAIN s = 1..n
  BY LenProperties
<1> DEFINE t == Append(s, e)
<1>2. DOMAIN t = 1..(n + 1) /\ t[n + 1] = e /\ \A i \in 1..n : t[i] = s[i]
  BY <1>1, AppendShape
<1> HIDE DEF t
<1>3. CASE e.key = k
  <2>1. {i \in DOMAIN t : t[i].key = k /\ \A m \in DOMAIN t : i < m => t[m].key # k} = {n + 1}
    BY <1>2, <1>3
  <2>2. LastOf(t, k) = {e.op}
    BY <1>2, <2>1 DEF LastOf
  <2> QED BY <1>3, <2>2 DEF t
<1>4. CASE e.key # k
  <2>1. {i \in DOMAIN t : t[i].key = k /\ \A m \in DOMAIN t : i < m => t[m].key # k}
          = {i \in DOMAIN s : s[i].key = k /\ \A m \in DOMAIN s : i < m => s[m].key # k}
    BY <1>1, <1>2, <1>4
  <2>2. \A i \in DOMAIN s : t[i].op = s[i].op
    BY <1>1, <1>2
  <2>3. LastOf(t, k) = LastOf(s, k)
    BY <2>1, <2>2 DEF LastOf
  <2> QED BY <1>4, <2>3 DEF t
<1> QED BY <1>3, <1>4

\* The first event is the last of its key, or taking it off changes nothing.
LEMMA LastOfTail ==
    ASSUME NEW X, NEW s \in Seq(X), s # <<>>, NEW k
    PROVE  \/ LastOf(Tail(s), k) = LastOf(s, k)
           \/ Head(s).key = k /\ LastOf(s, k) = {Head(s).op} /\ LastOf(Tail(s), k) = {}
<1>1. PICK n \in Nat \ {0} : n = Len(s) /\ DOMAIN s = 1..n
  BY LenProperties, EmptySeq
<1>2. PICK t : /\ t = Tail(s) /\ DOMAIN t = 1..(n - 1) /\ \A i \in 1..(n - 1) : t[i] = s[i + 1]
  BY <1>1, TailShape
<1>3. Head(s) = s[1]
  BY TailShape
<1> DEFINE P(i) == s[i].key = k /\ \A m \in 1..n : i < m => s[m].key # k
           Q(i) == t[i].key = k /\ \A m \in 1..(n - 1) : i < m => t[m].key # k
<1>4. ASSUME NEW i \in 1..(n - 1) PROVE Q(i) <=> P(i + 1)
  <2>1. t[i] = s[i + 1] /\ i + 1 \in 1..n
    BY <1>2
  <2>2. ASSUME NEW m \in 1..n, i + 1 < m PROVE m - 1 \in 1..(n - 1) /\ i < m - 1 /\ t[m - 1] = s[m]
    BY <1>2, <2>2
  <2>3. ASSUME NEW m \in 1..(n - 1), i < m PROVE m + 1 \in 1..n /\ i + 1 < m + 1 /\ t[m] = s[m + 1]
    BY <1>2, <2>3
  <2> QED BY <2>1, <2>2, <2>3
<1>5. LastOf(s, k) = {s[i].op : i \in {j \in 1..n : P(j)}}
  BY <1>1 DEF LastOf
<1>6. LastOf(t, k) = {t[i].op : i \in {j \in 1..(n - 1) : Q(j)}}
  BY <1>2 DEF LastOf
<1>7. CASE P(1)
  <2>1. \A i \in 1..n : P(i) => i = 1
    BY <1>7
  <2>2. \A i \in 1..(n - 1) : ~Q(i)
    BY <1>4, <2>1
  <2>3. LastOf(t, k) = {}
    BY <1>6, <2>2
  <2>4. LastOf(s, k) = {s[1].op}
    BY <1>1, <1>5, <1>7, <2>1
  <2> QED BY <1>2, <1>3, <1>7, <2>3, <2>4
<1>8. CASE ~P(1)
  <2> HIDE DEF P, Q
  <2>1. ASSUME NEW x \in LastOf(s, k) PROVE x \in LastOf(t, k)
    <3>1. PICK i \in 1..n : P(i) /\ x = s[i].op
      BY <1>5, <2>1
    <3>2. i # 1
      BY <1>8, <3>1
    <3>3. i - 1 \in 1..(n - 1) /\ (i - 1) + 1 = i
      BY <1>1, <3>2
    <3>4. Q(i - 1) /\ t[i - 1] = s[i]
      BY <1>2, <1>4, <3>1, <3>3
    <3> QED BY <1>6, <3>1, <3>3, <3>4
  <2>2. ASSUME NEW x \in LastOf(t, k) PROVE x \in LastOf(s, k)
    <3>1. PICK i \in 1..(n - 1) : Q(i) /\ x = t[i].op
      BY <1>6, <2>2
    <3>2. i + 1 \in 1..n /\ P(i + 1) /\ t[i] = s[i + 1]
      BY <1>1, <1>2, <1>4, <3>1
    <3> QED BY <1>5, <3>1, <3>2
  <2> QED BY <1>2, <2>1, <2>2
<1> QED BY <1>7, <1>8

\* The events of a list form a sequence.
LEMMA EventsShape ==
    ASSUME NEW X, \A x \in X : x.event \in Event, NEW s \in Seq(X)
    PROVE  /\ Events(s) \in Seq(Event) /\ Len(Events(s)) = Len(s)
           /\ DOMAIN Events(s) = DOMAIN s /\ \A i \in DOMAIN s : Events(s)[i] = s[i].event
<1>1. PICK n \in Nat : n = Len(s) /\ DOMAIN s = 1..n /\ s \in [1..n -> X]
  BY LenProperties
<1> DEFINE t == Events(s)
<1>2. t \in [1..n -> Event] /\ \A i \in 1..n : t[i] = s[i].event
  BY <1>1 DEF Events
<1> HIDE DEF t
<1>3. t \in Seq(Event)
  BY <1>2, SeqDef
<1>4. Len(t) = n
  BY <1>2, <1>3, LenProperties
<1> QED BY <1>1, <1>2, <1>3, <1>4 DEF t

\* They grow with it ...
LEMMA EventsAppended ==
    ASSUME NEW X, \A x \in X : x.event \in Event, NEW s \in Seq(X), NEW e \in X
    PROVE  Events(Append(s, e)) = Append(Events(s), e.event)
<1> DEFINE t == Append(s, e)
           u == Events(s)
           w == Append(u, e.event)
           x == Events(t)
           n == Len(s)
<1>1. n \in Nat /\ DOMAIN s = 1..n
  BY LenProperties
<1>2. t \in Seq(X) /\ DOMAIN t = 1..(n + 1) /\ Len(t) = n + 1 /\ t[n + 1] = e
      /\ \A i \in 1..n : t[i] = s[i]
  BY AppendShape
<1>3. u \in Seq(Event) /\ Len(u) = n /\ \A i \in 1..n : u[i] = s[i].event
  BY <1>1, EventsShape
<1> HIDE DEF t, u
<1>4. w \in Seq(Event) /\ Len(w) = n + 1 /\ w[n + 1] = e.event /\ \A i \in 1..n : w[i] = u[i]
  BY <1>3, AppendShape
<1>5. x \in Seq(Event) /\ Len(x) = n + 1 /\ \A i \in 1..(n + 1) : x[i] = t[i].event
  BY <1>2, EventsShape
<1> HIDE DEF w, x, n
<1>6. \A i \in 1..(n + 1) : x[i] = w[i]
  BY <1>1, <1>2, <1>3, <1>4, <1>5
<1>7. x = w
  BY <1>4, <1>5, <1>6, SeqEqual
<1> QED BY <1>7 DEF t, u, w, x

\* ... and lose their first with it.
LEMMA EventsTail ==
    ASSUME NEW X, \A x \in X : x.event \in Event, NEW s \in Seq(X), s # <<>>
    PROVE  /\ Events(Tail(s)) = Tail(Events(s)) /\ Events(s) # <<>>
           /\ Head(Events(s)) = Head(s).event
<1> DEFINE t == Tail(s)
           u == Events(s)
           w == Tail(u)
           x == Events(t)
           n == Len(s)
<1>1. n \in Nat \ {0} /\ DOMAIN s = 1..n /\ Head(s) = s[1]
  BY TailShape
<1>2. t \in Seq(X) /\ DOMAIN t = 1..(n - 1) /\ Len(t) = n - 1
      /\ \A i \in 1..(n - 1) : t[i] = s[i + 1]
  BY TailShape
<1>3. u \in Seq(Event) /\ Len(u) = n /\ \A i \in 1..n : u[i] = s[i].event
  BY <1>1, EventsShape
<1> HIDE DEF t, u, n
<1>4. u # <<>>
  BY <1>1, <1>3, EmptySeq
<1>5. w \in Seq(Event) /\ Len(w) = n - 1 /\ Head(u) = u[1]
      /\ \A i \in 1..(n - 1) : w[i] = u[i + 1]
  BY <1>3, <1>4, TailShape
<1>6. x \in Seq(Event) /\ Len(x) = n - 1 /\ \A i \in 1..(n - 1) : x[i] = t[i].event
  BY <1>2, EventsShape
<1> HIDE DEF w, x
<1>7. ASSUME NEW i \in 1..(n - 1) PROVE x[i] = w[i]
  <2>1. i + 1 \in 1..n
    BY <1>1
  <2>2. x[i] = s[i + 1].event
    BY <1>2, <1>6
  <2> QED BY <1>3, <1>5, <2>1, <2>2
<1>8. x = w
  BY <1>5, <1>6, <1>7, SeqEqual
<1>9. Head(u) = Head(s).event
  BY <1>1, <1>3, <1>5
<1> QED BY <1>4, <1>8, <1>9 DEF t, u, w, x

-------------------------------------------------------------------------------
(* Lists of retries.                                                       *)

\* Every entry of a list has an event.
LEMMA EntryEvents ==
    /\ \A x \in RetryableEvent : x.event \in Event
    /\ \A x \in {Fresh(e) : e \in Event} : x.event \in Event
BY DEF RetryableEvent, Fresh

\* A key has operations in a list exactly when it occurs there.
LEMMA OpsOfKeys ==
    ASSUME NEW s, NEW k
    PROVE  Ops(s, k) # {} <=> k \in Keys(s)
BY DEF Ops, Keys

\* What a new entry does to a list ...
LEMMA ListAppended ==
    ASSUME NEW X, NEW s \in Seq(X), NEW r \in X
    PROVE  /\ Append(s, r) \in Seq(X)
           /\ Keys(Append(s, r)) = Keys(s) \cup {r.event.key}
           /\ Once(s) /\ r.event.key \notin Keys(s) => Once(Append(s, r))
<1> DEFINE t == Append(s, r)
           n == Len(s)
<1>1. /\ t \in Seq(X) /\ n \in Nat /\ DOMAIN s = 1..n /\ DOMAIN t = 1..(n + 1)
      /\ t[n + 1] = r /\ \A i \in 1..n : t[i] = s[i]
  BY AppendShape
<1> HIDE DEF t, n
<1>2. \A i \in 1..(n + 1) : i \in 1..n \/ i = n + 1
  BY <1>1
<1>3. Keys(t) = Keys(s) \cup {r.event.key}
  <2>1. n + 1 \in 1..(n + 1) /\ \A i \in 1..n : i \in 1..(n + 1)
    BY <1>1
  <2> QED BY <1>1, <1>2, <2>1 DEF Keys
<1>4. ASSUME Once(s), r.event.key \notin Keys(s) PROVE Once(t)
  <2>1. \A i \in 1..n : t[i].event.key # r.event.key
    BY <1>1, <1>4 DEF Keys
  <2>2. \A i, j \in 1..n : i # j => t[i].event.key # t[j].event.key
    BY <1>1, <1>4 DEF Once
  <2> QED BY <1>1, <1>2, <2>1, <2>2 DEF Once
<1> QED BY <1>1, <1>3, <1>4 DEF t

\* ... and to the operations in it ...
LEMMA OpsAppended ==
    ASSUME NEW X, NEW s \in Seq(X), NEW r \in X
    PROVE  /\ Ops(Append(s, r), r.event.key) = Ops(s, r.event.key) \cup {r.event.op}
           /\ \A k : k # r.event.key => Ops(Append(s, r), k) = Ops(s, k)
<1> DEFINE t == Append(s, r)
           n == Len(s)
<1>1. /\ n \in Nat /\ DOMAIN s = 1..n /\ DOMAIN t = 1..(n + 1)
      /\ t[n + 1] = r /\ \A i \in 1..n : t[i] = s[i]
  BY AppendShape
<1> HIDE DEF t, n
<1>2. /\ \A i \in 1..(n + 1) : i \in 1..n \/ i = n + 1
      /\ n + 1 \in 1..(n + 1) /\ \A i \in 1..n : i \in 1..(n + 1)
  BY <1>1
<1>3. Ops(t, r.event.key) = Ops(s, r.event.key) \cup {r.event.op}
  BY <1>1, <1>2 DEF Ops
<1>4. ASSUME NEW k, k # r.event.key PROVE Ops(t, k) = Ops(s, k)
  BY <1>1, <1>2, <1>4 DEF Ops
<1> QED BY <1>3, <1>4 DEF t

\* ... and what taking off the first one does.
LEMMA ListTail ==
    ASSUME NEW X, NEW s \in Seq(X), s # <<>>, Once(s)
    PROVE  /\ Tail(s) \in Seq(X) /\ Head(s) \in X
           /\ Keys(Tail(s)) = Keys(s) \ {Head(s).event.key} /\ Head(s).event.key \in Keys(s)
           /\ Once(Tail(s))
           /\ Ops(s, Head(s).event.key) = {Head(s).event.op}
           /\ \A k : k # Head(s).event.key => Ops(Tail(s), k) = Ops(s, k)
<1> DEFINE t == Tail(s)
           r == Head(s)
           n == Len(s)
<1>1. /\ t \in Seq(X) /\ n \in Nat \ {0} /\ DOMAIN s = 1..n /\ DOMAIN t = 1..(n - 1)
      /\ r \in X /\ r = s[1] /\ \A i \in 1..(n - 1) : t[i] = s[i + 1]
  BY TailShape
<1> HIDE DEF t, r, n
<1>2. \A i \in 1..(n - 1) : i + 1 \in 1..n /\ i + 1 # 1
  BY <1>1
<1>3. ASSUME NEW i \in 1..n, i # 1 PROVE i - 1 \in 1..(n - 1) /\ t[i - 1] = s[i]
  <2>1. i - 1 \in 1..(n - 1) /\ (i - 1) + 1 = i
    BY <1>1, <1>3
  <2> QED BY <1>1, <2>1
<1>4. 1 \in 1..n
  BY <1>1
<1>5. \A i \in 1..n : i # 1 => s[i].event.key # r.event.key
  BY <1>1, <1>4 DEF Once
<1>6. Keys(t) = Keys(s) \ {r.event.key} /\ r.event.key \in Keys(s)
  <2>1. ASSUME NEW k \in Keys(t) PROVE k \in Keys(s) \ {r.event.key}
    <3>1. PICK i \in 1..(n - 1) : k = t[i].event.key
      BY <1>1, <2>1 DEF Keys
    <3> QED BY <1>1, <1>2, <1>5, <3>1 DEF Keys
  <2>2. ASSUME NEW k \in Keys(s), k # r.event.key PROVE k \in Keys(t)
    <3>1. PICK i \in 1..n : k = s[i].event.key
      BY <1>1, <2>2 DEF Keys
    <3>2. i # 1
      BY <1>1, <2>2, <3>1
    <3> QED BY <1>1, <1>3, <3>1, <3>2 DEF Keys
  <2>3. r.event.key \in Keys(s)
    BY <1>1, <1>4 DEF Keys
  <2> QED BY <2>1, <2>2, <2>3
<1>7. Once(t)
  <2> SUFFICES ASSUME NEW i \in 1..(n - 1), NEW j \in 1..(n - 1), i # j
               PROVE  t[i].event.key # t[j].event.key
    BY <1>1 DEF Once
  <2>1. i + 1 \in 1..n /\ j + 1 \in 1..n /\ i + 1 # j + 1
    BY <1>2
  <2>2. s[i + 1].event.key # s[j + 1].event.key
    BY <1>1, <2>1 DEF Once
  <2> QED BY <1>1, <2>2
<1>8. Ops(s, r.event.key) = {r.event.op}
  <2>1. {i \in DOMAIN s : s[i].event.key = r.event.key} = {1}
    BY <1>1, <1>4, <1>5
  <2> QED BY <1>1, <2>1 DEF Ops
<1>9. ASSUME NEW k, k # r.event.key PROVE Ops(t, k) = Ops(s, k)
  <2>1. ASSUME NEW x \in Ops(t, k) PROVE x \in Ops(s, k)
    <3>1. PICK i \in 1..(n - 1) : x = t[i].event.op /\ t[i].event.key = k
      BY <1>1, <2>1 DEF Ops
    <3> QED BY <1>1, <1>2, <3>1 DEF Ops
  <2>2. ASSUME NEW x \in Ops(s, k) PROVE x \in Ops(t, k)
    <3>1. PICK i \in 1..n : x = s[i].event.op /\ s[i].event.key = k
      BY <1>1, <2>2 DEF Ops
    <3>2. i # 1
      BY <1>1, <1>9, <3>1
    <3> QED BY <1>1, <1>3, <3>1, <3>2 DEF Ops
  <2> QED BY <2>1, <2>2
<1> QED BY <1>1, <1>6, <1>7, <1>8, <1>9 DEF t, r

\* The new event takes the place of the one that it equals.
LEMMA ListReplaced ==
    ASSUME NEW s \in Seq(RetryableEvent), Once(s), NEW e \in Event, Waits(s, e)
    PROVE  /\ Replaced(s, e) \in Seq(RetryableEvent)
           /\ Keys(Replaced(s, e)) = Keys(s) /\ Once(Replaced(s, e))
           /\ Ops(Replaced(s, e), e.key) = {e.op}
           /\ \A k : k # e.key => Ops(Replaced(s, e), k) = Ops(s, k)
<1> DEFINE P(i) == Equal(s[i].event, e) /\ \A j \in 1..(i - 1) : ~Equal(s[j].event, e)
           i == CHOOSE x \in DOMAIN s : P(x)
           t == Replaced(s, e)
           n == Len(s)
<1>1. n \in Nat /\ DOMAIN s = 1..n /\ \A j \in 1..n : s[j] \in RetryableEvent
  BY LenProperties, ElementOfSeq
<1>2. \E x \in DOMAIN s : P(x)
  <2>1. PICK x \in 1..n : s[x].event.key = e.key
    BY <1>1 DEF Waits, Equal
  <2>2. \A j \in 1..(x - 1) : j \in 1..n /\ j # x
    BY <1>1
  <2>3. \A j \in 1..(x - 1) : ~Equal(s[j].event, e)
    BY <1>1, <2>1, <2>2 DEF Once, Equal
  <2> QED BY <1>1, <2>1, <2>3 DEF Equal
<1>3. i \in 1..n /\ s[i].event.key = e.key
  <2>1. i \in DOMAIN s /\ P(i)
    <3> HIDE DEF P
    <3> QED BY <1>2
  <2> QED BY <1>1, <2>1 DEF Equal
<1>4. t = [s EXCEPT ![i] = Fresh(e)]
  BY DEF Replaced
<1> HIDE DEF P, i, n, t
<1>5. DOMAIN t = 1..n /\ t[i] = Fresh(e) /\ \A j \in 1..n : j # i => t[j] = s[j]
  BY <1>1, <1>3, <1>4
<1>6. Fresh(e) \in RetryableEvent /\ Fresh(e).event = e
  BY ReconcilerAssumption DEF Fresh, RetryableEvent
<1>7. t \in Seq(RetryableEvent)
  BY <1>1, <1>3, <1>4, <1>6, ExceptSeq
<1>8. \A j \in 1..n : t[j].event.key = s[j].event.key
  BY <1>3, <1>5, <1>6
<1>9. Keys(t) = Keys(s)
  BY <1>1, <1>5, <1>8 DEF Keys
<1>10. Once(t)
  BY <1>1, <1>5, <1>8 DEF Once
<1>11. \A j \in 1..n : j # i => s[j].event.key # e.key
  BY <1>1, <1>3 DEF Once
<1>12. Ops(t, e.key) = {e.op}
  <2>1. {j \in DOMAIN t : t[j].event.key = e.key} = {i}
    BY <1>3, <1>5, <1>8, <1>11
  <2> QED BY <1>5, <1>6, <2>1 DEF Ops
<1>13. ASSUME NEW k, k # e.key PROVE Ops(t, k) = Ops(s, k)
  <2>1. {j \in DOMAIN t : t[j].event.key = k} = {j \in DOMAIN s : s[j].event.key = k}
    BY <1>1, <1>5, <1>8
  <2>2. \A j \in {x \in DOMAIN s : s[x].event.key = k} : t[j] = s[j]
    BY <1>1, <1>3, <1>5, <1>13
  <2> QED BY <2>1, <2>2 DEF Ops
<1> QED BY <1>7, <1>9, <1>10, <1>12, <1>13 DEF t

\* A power of two is a number: it counts the subsets of a set.
LEMMA PowersOfTwo ==
    ASSUME NEW n \in Nat
    PROVE  2^n \in Nat
<1>1. IsFiniteSet(1..n) /\ Cardinality(1..n) = n
  BY FS_Interval
<1>2. IsFiniteSet(SUBSET (1..n)) /\ Cardinality(SUBSET (1..n)) = 2^n
  BY <1>1, FS_SUBSET
<1> QED BY <1>2, FS_CardinalityType

\* An entry that is put back has an attempt left and does not wait too long.
LEMMA RetriedShape ==
    ASSUME NEW r \in RetryableEvent, ~GivesUp(r)
    PROVE  Retried(r) \in RetryableEvent /\ Retried(r).event = r.event
<1>1. r.event \in Event /\ r.attempts \in 0..MaxRetries
  BY DEF RetryableEvent
<1>2. r.attempts + 1 \in 0..MaxRetries
  BY <1>1, ReconcilerAssumption DEF GivesUp
<1>3. PICK p \in Nat : p = 2^r.attempts
  BY <1>1, PowersOfTwo, ReconcilerAssumption
<1>4. BaseDelay * p \in Nat
  BY ReconcilerAssumption
<1>5. Backoff(r.attempts) \in 0..MaxDelay
  BY <1>3, <1>4, ReconcilerAssumption DEF Backoff
<1> QED BY <1>1, <1>2, <1>5 DEF Retried, RetryableEvent

\* An entry that is not due yet waits for one tick less.
LEMMA WaitedShape ==
    ASSUME NEW r \in RetryableEvent, r.wait # 0
    PROVE  /\ [r EXCEPT !.wait = @ - 1] \in RetryableEvent
           /\ [r EXCEPT !.wait = @ - 1].event = r.event
<1>1. r.event \in Event /\ r.attempts \in 0..MaxRetries /\ r.wait \in 0..MaxDelay
  BY DEF RetryableEvent
<1>2. r.wait - 1 \in 0..MaxDelay
  BY <1>1, ReconcilerAssumption
<1>3. [r EXCEPT !.wait = @ - 1]
        = [event |-> r.event, attempts |-> r.attempts, wait |-> r.wait - 1]
  BY DEF RetryableEvent
<1> QED BY <1>1, <1>2, <1>3 DEF RetryableEvent

\* The list after an attempt on an entry.
LEMMA ListRequeued ==
    ASSUME NEW s \in Seq(RetryableEvent), Once(s), NEW r \in RetryableEvent,
           r.event.key \notin Keys(s), NEW failed \in BOOLEAN
    PROVE  /\ Requeued(s, r, failed) \in Seq(RetryableEvent)
           /\ Once(Requeued(s, r, failed))
           /\ Keys(Requeued(s, r, failed)) \subseteq Keys(s) \cup {r.event.key}
           /\ \A k : k # r.event.key => Ops(Requeued(s, r, failed), k) = Ops(s, k)
           /\ Ops(Requeued(s, r, failed), r.event.key) =
                  IF failed /\ ~GivesUp(r) THEN {r.event.op} ELSE {}
<1>1. Ops(s, r.event.key) = {}
  BY OpsOfKeys
<1>2. CASE failed /\ ~GivesUp(r)
  <2>1. PICK q \in RetryableEvent : q = Retried(r) /\ q.event = r.event
    BY <1>2, RetriedShape
  <2>2. Append(s, q) \in Seq(RetryableEvent) /\ Keys(Append(s, q)) = Keys(s) \cup {q.event.key}
    BY <2>1, ListAppended
  <2>3. Once(Append(s, q))
    BY <2>1, ListAppended
  <2>4. /\ Ops(Append(s, q), r.event.key) = {r.event.op}
        /\ \A k : k # r.event.key => Ops(Append(s, q), k) = Ops(s, k)
    BY <1>1, <2>1, OpsAppended
  <2>5. Requeued(s, r, failed) = Append(s, q)
    BY <1>2, <2>1 DEF Requeued
  <2> DEFINE z == Append(s, q)
  <2> HIDE DEF z
  <2>6. /\ z \in Seq(RetryableEvent) /\ Once(z) /\ Keys(z) \subseteq Keys(s) \cup {r.event.key}
        /\ \A k : k # r.event.key => Ops(z, k) = Ops(s, k)
        /\ Ops(z, r.event.key) = IF failed /\ ~GivesUp(r) THEN {r.event.op} ELSE {}
    BY <1>2, <2>1, <2>2, <2>3, <2>4 DEF z
  <2>7. Requeued(s, r, failed) = z
    BY <2>5 DEF z
  <2> QED BY <2>6, <2>7
<1>3. CASE ~(failed /\ ~GivesUp(r))
  BY <1>1, <1>3 DEF Requeued
<1> QED BY <1>2, <1>3

-------------------------------------------------------------------------------
(* The last event of a VM.                                                 *)

\* The kinds of events.
LEMMA FileEventsAreEvents ==
    /\ FileEvent \subseteq Event /\ SyncEvent \in Event
    /\ \A e \in FileEvent : e.key \in Files
    /\ SyncEvent.key = "sync" /\ SyncEvent.op = "sync"
    /\ \A e \in Event : Fresh(e).event = e
BY DEF FileEvent, Event, SyncEvent, Fresh

\* What happens to a VM is its last event.
LEMMA LatestNotified ==
    ASSUME NEW f \in Seq(FileEvent), NEW e \in FileEvent, NEW q, NEW p, NEW t, NEW v
    PROVE  LatestIn(Append(f, e), q, p, t, v) =
               IF e.key = v THEN {e.op} ELSE LatestIn(f, q, p, t, v)
<1>1. LastOf(Append(f, e), v) = IF e.key = v THEN {e.op} ELSE LastOf(f, v)
  BY LastAppended
<1> QED BY <1>1 DEF LatestIn

\* An event of another key in the queue does not matter ...
LEMMA LatestSent ==
    ASSUME NEW f, NEW q \in Seq({Fresh(e) : e \in Event}), NEW x \in Event,
           NEW p, NEW t, NEW v, x.key # v
    PROVE  LatestIn(f, Append(q, Fresh(x)), p, t, v) = LatestIn(f, q, p, t, v)
<1> DEFINE X == {Fresh(e) : e \in Event}
<1>1. Fresh(x) \in X /\ Fresh(x).event = x
  BY FileEventsAreEvents
<1>2. Events(Append(q, Fresh(x))) = Append(Events(q), x)
  <2> HIDE DEF X
  <2>1. \A y \in X : y.event \in Event
    BY EntryEvents DEF X
  <2> QED BY <1>1, <2>1, EventsAppended DEF X
<1>3. Events(q) \in Seq(Event)
  BY EntryEvents, EventsShape
<1>4. LastOf(Append(Events(q), x), v) = LastOf(Events(q), v)
  BY <1>3, LastAppended
<1> QED BY <1>2, <1>4 DEF LatestIn

\* ... and moving an event from the watcher to the queue keeps the order.
LEMMA LatestForwarded ==
    ASSUME NEW f \in Seq(FileEvent), f # <<>>, NEW q \in Seq({Fresh(e) : e \in Event}),
           NEW p, NEW t, NEW v
    PROVE  LatestIn(Tail(f), Append(q, Fresh(Head(f))), p, t, v) = LatestIn(f, q, p, t, v)
<1>1. PICK x \in FileEvent : x = Head(f)
  BY TailShape
<1>2. x \in Event
  BY FileEventsAreEvents
<1>3. CASE x.key # v
  <2>1. LastOf(Tail(f), v) = LastOf(f, v)
    BY <1>1, <1>3, LastOfTail
  <2>2. LatestIn(f, Append(q, Fresh(x)), p, t, v) = LatestIn(f, q, p, t, v)
    BY <1>2, <1>3, LatestSent
  <2>3. LatestIn(Tail(f), Append(q, Fresh(x)), p, t, v) = LatestIn(f, Append(q, Fresh(x)), p, t, v)
    BY <2>1 DEF LatestIn
  <2> QED BY <1>1, <2>2, <2>3
<1>4. CASE x.key = v
  <2>1. LastOf(f, v) # {}
    <3>1. 1 \in DOMAIN f /\ f[1] = x
      BY <1>1, TailShape
    <3> QED BY <1>4, <3>1, LastExists
  <2>2. Events(Append(q, Fresh(x))) = Append(Events(q), x) /\ Events(q) \in Seq(Event)
    <3> DEFINE X == {Fresh(e) : e \in Event}
    <3>1. Fresh(x) \in X /\ Fresh(x).event = x
      BY <1>2, FileEventsAreEvents
    <3>2. \A y \in X : y.event \in Event
      BY EntryEvents
    <3>3. q \in Seq(X)
      OBVIOUS
    <3> HIDE DEF X
    <3> QED BY <3>1, <3>2, <3>3, EventsAppended, EventsShape
  <2>3. LastOf(Append(Events(q), x), v) = {x.op}
    BY <1>2, <1>4, <2>2, LastAppended
  <2>4. \/ LastOf(Tail(f), v) = LastOf(f, v)
        \/ LastOf(f, v) = {x.op} /\ LastOf(Tail(f), v) = {}
    BY <1>1, LastOfTail
  <2> QED BY <1>1, <2>1, <2>2, <2>3, <2>4 DEF LatestIn
<1> QED BY <1>3, <1>4

\* The last operation before and after the consumer has taken event x from its
\* place, and the operations in the lists before and after that.
Took(before, after, was, is, x, v) ==
    /\ x.key # v /\ is = was => after = before
    /\ x.key = v => before # {} /\ (after = before \/ (before = {x.op} /\ after = is))

\* The consumer takes an event off the queue and leaves p2 as the list.
LEMMA LatestReceived ==
    ASSUME NEW f, NEW q \in Seq({Fresh(e) : e \in Event}), q # <<>>, NEW p, NEW p2, NEW t, NEW v
    PROVE  Took(LatestIn(f, q, p, t, v), LatestIn(f, Tail(q), p2, t, v),
                Ops(p, v) \cup Ops(t, v), Ops(p2, v) \cup Ops(t, v), Head(q).event, v)
<1> DEFINE X == {Fresh(e) : e \in Event}
           x == Head(q).event
           u == Events(q)
           before == LatestIn(f, q, p, t, v)
           after == LatestIn(f, Tail(q), p2, t, v)
           was == Ops(p, v) \cup Ops(t, v)
           is == Ops(p2, v) \cup Ops(t, v)
<1>1. q \in Seq(X) /\ \A y \in X : y.event \in Event
  BY EntryEvents
<1> HIDE DEF X
<1>2. u \in Seq(Event) /\ Events(Tail(q)) = Tail(u) /\ u # <<>> /\ Head(u) = x
  BY <1>1, EventsShape, EventsTail
<1>3. before = IF LastOf(f, v) # {} THEN LastOf(f, v)
               ELSE IF LastOf(u, v) # {} THEN LastOf(u, v) ELSE was
  BY DEF LatestIn
<1>4. after = IF LastOf(f, v) # {} THEN LastOf(f, v)
              ELSE IF LastOf(Tail(u), v) # {} THEN LastOf(Tail(u), v) ELSE is
  BY <1>2 DEF LatestIn
<1> HIDE DEF u, x, before, after, was, is
<1>5. \/ LastOf(Tail(u), v) = LastOf(u, v)
      \/ x.key = v /\ LastOf(u, v) = {x.op} /\ LastOf(Tail(u), v) = {}
  BY <1>2, LastOfTail
<1>6. ASSUME x.key = v PROVE LastOf(u, v) # {}
  <2>1. 1 \in DOMAIN u /\ u[1] = x
    BY <1>2, TailShape
  <2> QED BY <1>2, <1>6, <2>1, LastExists
<1>7. Took(before, after, was, is, x, v)
  BY <1>3, <1>4, <1>5, <1>6 DEF Took
<1> QED BY <1>7 DEF before, after, was, is, x

\* The consumer takes an entry off the list of a tick and leaves p2 as the rest.
LEMMA LatestTicked ==
    ASSUME NEW f, NEW q, NEW t \in Seq(RetryableEvent), t # <<>>, Once(t),
           NEW p, NEW p2, Keys(p) \cap Keys(t) = {}, NEW v
    PROVE  Took(LatestIn(f, q, p, t, v), LatestIn(f, q, p2, Tail(t), v),
                Ops(p, v), Ops(p2, v), Head(t).event, v)
<1> DEFINE x == Head(t).event
           before == LatestIn(f, q, p, t, v)
           after == LatestIn(f, q, p2, Tail(t), v)
<1>1. /\ x.key \in Keys(t) /\ Keys(Tail(t)) = Keys(t) \ {x.key} /\ Ops(t, x.key) = {x.op}
      /\ \A k : k # x.key => Ops(Tail(t), k) = Ops(t, k)
  BY ListTail
<1> HIDE DEF x
<1>2. Ops(p, x.key) = {} /\ Ops(Tail(t), x.key) = {}
  <2>1. x.key \notin Keys(p) /\ x.key \notin Keys(Tail(t))
    BY <1>1
  <2> QED BY <2>1, OpsOfKeys
<1>3. ASSUME x.key # v, Ops(p2, v) = Ops(p, v) PROVE after = before
  <2>1. Ops(Tail(t), v) = Ops(t, v)
    BY <1>1, <1>3
  <2> QED BY <1>3, <2>1 DEF LatestIn
<1>4. ASSUME x.key = v
      PROVE  before # {} /\ (after = before \/ (before = {x.op} /\ after = Ops(p2, v)))
  <2>1. Ops(p, v) \cup Ops(t, v) = {x.op} /\ Ops(p2, v) \cup Ops(Tail(t), v) = Ops(p2, v)
    BY <1>1, <1>2, <1>4
  <2> QED BY <2>1 DEF LatestIn
<1> HIDE DEF before, after
<1>5. Took(before, after, Ops(p, v), Ops(p2, v), x, v)
  BY <1>3, <1>4 DEF Took
<1> QED BY <1>5 DEF before, after, x

\* A tick begins: the list is taken as it is.
LEMMA LatestListed ==
    ASSUME NEW f, NEW q, NEW p, NEW v
    PROVE  LatestIn(f, q, <<>>, p, v) = LatestIn(f, q, p, <<>>, v)
<1>1. Ops(<<>>, v) = {}
  BY DEF Ops
<1> QED BY <1>1 DEF LatestIn

-------------------------------------------------------------------------------
(* The consumer.                                                           *)

\* An event has been taken from its place: it was the last of its VM, or
\* nothing has changed for the VM.
Handed(e) ==
    \A v \in Files :
        /\ v # e.key => Latest(v)' = Latest(v)
        /\ v = e.key =>
               /\ Latest(v) # {}
               /\ Latest(v)' = Latest(v) \/ (Latest(v) = {e.op} /\ Latest(v)' = {})

\* It is still on its way, or a later one is.
Kept(e) ==
    \A v \in Files : Latest(v)' = Latest(v) /\ (v = e.key => Latest(v) # {})

Processed(r) ==
    \/ Reconcile(r.event) /\ Handed(r.event)
    \/ ReconcileFails(r.event, r) /\ Handed(r.event) /\ (~GivesUp(r) => Kept(r.event))
    \/ UNCHANGED effects /\ Kept(r.event)

\* What an attempt leaves of the lists, when rest has no entry of the event.
LEMMA AttemptLeaves ==
    ASSUME NEW r \in RetryableEvent, NEW rest \in Seq(RetryableEvent), Once(rest),
           r.event.key \notin Keys(rest), ProcessRetryableEvent(r, rest)
    PROVE  /\ pending' \in Seq(RetryableEvent) /\ Once(pending')
           /\ Keys(pending') \subseteq Keys(rest) \cup {r.event.key}
           /\ \A k : k # r.event.key => Ops(pending', k) = Ops(rest, k)
           /\ \/ Reconcile(r.event) /\ Ops(pending', r.event.key) = {}
              \/ /\ ReconcileFails(r.event, r)
                 /\ Ops(pending', r.event.key) = IF GivesUp(r) THEN {} ELSE {r.event.op}
<1>1. PICK failed \in BOOLEAN :
          /\ pending' = Requeued(rest, r, failed)
          /\ failed = FALSE => Reconcile(r.event)
          /\ failed = TRUE => ReconcileFails(r.event, r)
  BY DEF ProcessRetryableEvent
<1> DEFINE z == Requeued(rest, r, failed)
<1>2. /\ z \in Seq(RetryableEvent) /\ Once(z) /\ Keys(z) \subseteq Keys(rest) \cup {r.event.key}
      /\ \A k : k # r.event.key => Ops(z, k) = Ops(rest, k)
      /\ Ops(z, r.event.key) = IF failed /\ ~GivesUp(r) THEN {r.event.op} ELSE {}
  BY ListRequeued
<1>3. pending' = z
  BY <1>1
<1> HIDE DEF z
<1>4. CASE failed = TRUE
  BY <1>1, <1>2, <1>3, <1>4
<1>5. CASE failed = FALSE
  BY <1>1, <1>2, <1>3, <1>5
<1> QED BY <1>4, <1>5

\* Events are handled or wait, and lists stay lists.
LEMMA ReceiveProcesses ==
    ASSUME PipeShapes, ListShapes, Receive
    PROVE  PipeShapes' /\ ListShapes' /\ \E r \in RetryableEvent : Processed(r)
<1> DEFINE X == {Fresh(e) : e \in Event}
           r == Head(queue)
           e == r.event
           q2 == Tail(queue)
<1>1. queue \in Seq(X) /\ queue # <<>> /\ todo = <<>> /\ queue' = q2
  BY DEF PipeShapes, Receive
<1>2. q2 \in Seq(X) /\ Len(q2) = Len(queue) - 1 /\ Len(queue) \in Nat /\ r \in X
  <2> HIDE DEF X
  <2> QED BY <1>1, TailShape
<1>3. r \in RetryableEvent /\ e \in Event
  BY <1>2, ReconcilerAssumption DEF Fresh, RetryableEvent
<1>4. PipeShapes'
  BY <1>1, <1>2, ReconcilerAssumption DEF PipeShapes, Receive
<1>5. todo' = <<>> /\ Keys(<<>>) = {} /\ \A k : Ops(<<>>, k) = {}
  BY <1>1 DEF Receive, Keys, Ops
<1>6. ASSUME NEW v
      PROVE  Took(Latest(v), Latest(v)', Ops(pending, v), Ops(pending', v), e, v)
  <2>1. Latest(v)' = LatestIn(fs, q2, pending', todo, v) /\ Latest(v) = LatestIn(fs, queue, pending, todo, v)
    BY <1>1 DEF Latest, Receive
  <2>2. /\ Ops(pending', v) \cup Ops(todo, v) = Ops(pending', v)
        /\ Ops(pending, v) \cup Ops(todo, v) = Ops(pending, v)
    BY <1>1, <1>5
  <2>3. \A p2 : Took(LatestIn(fs, queue, pending, todo, v), LatestIn(fs, q2, p2, todo, v),
                     Ops(pending, v) \cup Ops(todo, v), Ops(p2, v) \cup Ops(todo, v), e, v)
    BY <1>1, LatestReceived
  <2> HIDE DEF e, q2
  <2> QED BY <2>1, <2>2, <2>3
<1>7. CASE Waits(pending, e)
  <2>1. pending' = Replaced(pending, e) /\ UNCHANGED effects
    BY <1>7 DEF Receive
  <2> DEFINE z == Replaced(pending, e)
  <2>2. /\ z \in Seq(RetryableEvent) /\ Once(z) /\ Ops(z, e.key) = {e.op}
        /\ \A k : k # e.key => Ops(z, k) = Ops(pending, k)
    BY <1>3, <1>7, ListReplaced DEF ListShapes
  <2>3. pending' = z
    BY <2>1
  <2> HIDE DEF z, e
  <2>4. ListShapes'
    BY <1>5, <2>2, <2>3 DEF ListShapes, Once
  <2>5. Kept(e)
    BY <1>6, <2>2, <2>3 DEF Kept, Took
  <2> QED BY <1>3, <1>4, <2>1, <2>4, <2>5 DEF Processed, e
<1>8. CASE ~Waits(pending, e)
  <2>1. ProcessRetryableEvent(r, pending)
    BY <1>8 DEF Receive
  <2>2. e.key \notin Keys(pending)
    BY <1>8 DEF Waits, Keys, Equal
  <2>3. /\ pending' \in Seq(RetryableEvent) /\ Once(pending')
        /\ \A k : k # e.key => Ops(pending', k) = Ops(pending, k)
        /\ \/ Reconcile(e) /\ Ops(pending', e.key) = {}
           \/ /\ ReconcileFails(e, r)
              /\ Ops(pending', e.key) = IF GivesUp(r) THEN {} ELSE {e.op}
    <3> HIDE DEF r
    <3> QED BY <1>3, <2>1, <2>2, AttemptLeaves DEF ListShapes
  <2> HIDE DEF e
  <2>4. ListShapes'
    BY <1>5, <2>3 DEF ListShapes, Once
  <2>5. CASE Reconcile(e) /\ Ops(pending', e.key) = {}
    <3>1. Handed(e)
      BY <1>6, <2>3, <2>5 DEF Handed, Took
    <3> QED BY <1>3, <1>4, <2>4, <2>5, <3>1 DEF Processed, e
  <2>6. CASE /\ ReconcileFails(e, r)
             /\ Ops(pending', e.key) = IF GivesUp(r) THEN {} ELSE {e.op}
    <3>1. CASE GivesUp(r)
      <4>1. Handed(e)
        BY <1>6, <2>3, <2>6, <3>1 DEF Handed, Took
      <4> QED BY <1>3, <1>4, <2>4, <2>6, <3>1, <4>1 DEF Processed, e
    <3>2. CASE ~GivesUp(r)
      <4>1. Kept(e)
        BY <1>6, <2>3, <2>6, <3>2 DEF Kept, Took
      <4>2. Handed(e)
        BY <4>1 DEF Kept, Handed
      <4> QED BY <1>3, <1>4, <2>4, <2>6, <4>1, <4>2 DEF Processed, e
    <3> QED BY <3>1, <3>2
  <2> QED BY <2>3, <2>5, <2>6
<1> QED BY <1>7, <1>8

\* The same in the loop of a tick.
LEMMA TickEventProcesses ==
    ASSUME PipeShapes, ListShapes, TickEvent
    PROVE  PipeShapes' /\ ListShapes' /\ \E r \in RetryableEvent : Processed(r)
<1> DEFINE r == Head(todo)
           e == r.event
           t2 == Tail(todo)
<1>1. /\ todo \in Seq(RetryableEvent) /\ todo # <<>> /\ Once(todo) /\ todo' = t2
      /\ pending \in Seq(RetryableEvent) /\ Once(pending) /\ Keys(pending) \cap Keys(todo) = {}
  BY DEF ListShapes, TickEvent
<1>2. /\ t2 \in Seq(RetryableEvent) /\ Once(t2) /\ r \in RetryableEvent
      /\ Keys(t2) = Keys(todo) \ {e.key} /\ e.key \in Keys(todo)
  BY <1>1, ListTail
<1>3. e \in Event /\ e.key \notin Keys(pending) /\ e.key \notin Keys(t2)
      /\ Keys(pending) \cap Keys(t2) = {}
  BY <1>1, <1>2 DEF RetryableEvent
<1>4. PipeShapes'
  BY DEF PipeShapes, TickEvent, pipe
<1>5. ASSUME NEW v
      PROVE  Took(Latest(v), Latest(v)', Ops(pending, v), Ops(pending', v), e, v)
  <2>1. Latest(v)' = LatestIn(fs, queue, pending', t2, v) /\ Latest(v) = LatestIn(fs, queue, pending, todo, v)
    BY <1>1 DEF Latest, TickEvent, pipe
  <2>2. \A p2 : Took(LatestIn(fs, queue, pending, todo, v), LatestIn(fs, queue, p2, t2, v),
                     Ops(pending, v), Ops(p2, v), e, v)
    BY <1>1, LatestTicked
  <2> HIDE DEF e, t2
  <2> QED BY <2>1, <2>2
<1>6. CASE r.wait # 0
  <2> DEFINE a == [r EXCEPT !.wait = @ - 1]
             z == Append(pending, a)
  <2>1. pending' = z /\ UNCHANGED effects
    BY <1>6 DEF TickEvent
  <2>2. a \in RetryableEvent /\ a.event = e
    BY <1>2, <1>6, WaitedShape
  <2> HIDE DEF a
  <2>3. /\ z \in Seq(RetryableEvent) /\ Once(z) /\ Keys(z) = Keys(pending) \cup {e.key}
        /\ Ops(z, e.key) = Ops(pending, e.key) \cup {e.op}
        /\ \A k : k # e.key => Ops(z, k) = Ops(pending, k)
    <3>1. pending \in Seq(RetryableEvent) /\ a \in RetryableEvent
      BY <1>1, <2>2
    <3>2. z \in Seq(RetryableEvent) /\ Keys(z) = Keys(pending) \cup {a.event.key}
      BY <3>1, ListAppended
    <3>3. Once(z)
      BY <1>1, <1>3, <2>2, ListAppended
    <3>4. /\ Ops(z, a.event.key) = Ops(pending, a.event.key) \cup {a.event.op}
          /\ \A k : k # a.event.key => Ops(z, k) = Ops(pending, k)
      BY <3>1, OpsAppended
    <3> QED BY <2>2, <3>2, <3>3, <3>4
  <2>4. Ops(pending, e.key) = {}
    BY <1>3, OpsOfKeys
  <2> HIDE DEF z, e, t2
  <2>5. ListShapes'
    BY <1>1, <1>2, <1>3, <2>1, <2>3 DEF ListShapes, Once
  <2>6. Kept(e)
    BY <1>5, <2>1, <2>3, <2>4 DEF Kept, Took
  <2> QED BY <1>2, <1>4, <2>1, <2>5, <2>6 DEF Processed, e
<1>7. CASE r.wait = 0
  <2>1. ProcessRetryableEvent(r, pending)
    BY <1>7 DEF TickEvent
  <2>2. /\ pending' \in Seq(RetryableEvent) /\ Once(pending')
        /\ Keys(pending') \subseteq Keys(pending) \cup {e.key}
        /\ \A k : k # e.key => Ops(pending', k) = Ops(pending, k)
        /\ \/ Reconcile(e) /\ Ops(pending', e.key) = {}
           \/ /\ ReconcileFails(e, r)
              /\ Ops(pending', e.key) = IF GivesUp(r) THEN {} ELSE {e.op}
    <3> HIDE DEF r
    <3> QED BY <1>1, <1>2, <1>3, <2>1, AttemptLeaves
  <2> HIDE DEF e, t2
  <2>3. ListShapes'
    BY <1>1, <1>2, <1>3, <2>2 DEF ListShapes, Once
  <2>4. CASE Reconcile(e) /\ Ops(pending', e.key) = {}
    <3>1. Handed(e)
      BY <1>5, <2>2, <2>4 DEF Handed, Took
    <3> QED BY <1>2, <1>4, <2>3, <2>4, <3>1 DEF Processed, e
  <2>5. CASE /\ ReconcileFails(e, r)
             /\ Ops(pending', e.key) = IF GivesUp(r) THEN {} ELSE {e.op}
    <3>1. CASE GivesUp(r)
      <4>1. Handed(e)
        BY <1>5, <2>2, <2>5, <3>1 DEF Handed, Took
      <4> QED BY <1>2, <1>4, <2>3, <2>5, <3>1, <4>1 DEF Processed, e
    <3>2. CASE ~GivesUp(r)
      <4>1. Kept(e)
        BY <1>5, <2>2, <2>5, <3>2 DEF Kept, Took
      <4>2. Handed(e)
        BY <4>1 DEF Kept, Handed
      <4> QED BY <1>2, <1>4, <2>3, <2>5, <4>1, <4>2 DEF Processed, e
    <3> QED BY <3>1, <3>2
  <2> QED BY <2>2, <2>4, <2>5
<1> QED BY <1>6, <1>7

-------------------------------------------------------------------------------
(* The handlers.                                                           *)

\* CPUs of an affinity are CPUs of the host.
LEMMA AffinityShape ==
    ASSUME HostShapes, NEW v \in Files
    PROVE  Affinity(v) \subseteq HostCPUs /\ conf[v] \in Configs[v]
<1>1. conf[v] \in Configs[v] /\ Configs[v] \in SUBSET [affinity : SUBSET HostCPUs, cores : Nat]
  BY SchedulerAssumption DEF HostShapes
<1> QED BY <1>1 DEF Affinity

\* What is bound is some of what is wanted, and all of it once all threads exist
\* and no call fails.
LEMMA BoundWanted ==
    ASSUME NEW v, NEW lost
    PROVE  /\ BoundBy(v, lost) \subseteq Wanted(v) /\ Wanted(v) \subseteq {"threads", "irqs"}
           /\ "threads" \in Wanted(v) => Pinnable(v)
           /\ lost = {} /\ (host[v] = "running" \/ ~Pinnable(v)) => BoundBy(v, lost) = Wanted(v)
           /\ "threads" \in BoundBy(v, lost) => host[v] = "running"
BY DEF BoundBy, Wanted, PinThreadsToCores, SetPciIRQAffinity

\* The CPUs whose governor is set are those of the affinity.
LEMMA GovernedAffinity ==
    ASSUME NEW v
    PROVE  Governed(v) \subseteq Affinity(v)
BY DEF Governed

\* The environment as a handler finds it.
Still == UNCHANGED <<host, conf, main>>

\* The definitions that depend on the configuration and the process only.
LEMMA StillSame ==
    ASSUME Still
    PROVE  /\ CtxDone' = CtxDone
           /\ \A v : /\ Affinity(v)' = Affinity(v) /\ Mismatch(v)' = Mismatch(v)
                     /\ Wanted(v)' = Wanted(v) /\ Pinnable(v)' = Pinnable(v)
                     /\ Governed(v)' = Governed(v)
                     /\ ProcessExists(v)' = ProcessExists(v) /\ RightOp(v)' = RightOp(v)
BY DEF Still, Governed, CtxDone, Affinity, Mismatch, Pinnable, Wanted, SetPciIRQAffinity,
       GetPciDeviceIRQs, ProcessExists, RightOp

\* Every CPU of b is one of a VM in t, or in l.
Covered(b, t, l) == b \subseteq (UNION {t[v] : v \in DOMAIN t}) \cup l

\* Membership, for the provers.
LEMMA InUnion ==
    ASSUME NEW f, NEW S, NEW c
    PROVE  c \in UNION {f[v] : v \in S} <=> \E v \in S : c \in f[v]
OBVIOUS

\* Membership in a cover, for the provers ...
LEMMA CoveredMeans ==
    ASSUME NEW b, NEW t, NEW l
    PROVE  Covered(b, t, l) <=> \A c \in b : c \in l \/ \E v \in DOMAIN t : c \in t[v]
<1> DEFINE U == UNION {t[v] : v \in DOMAIN t}
<1>1. \A c : c \in U <=> \E v \in DOMAIN t : c \in t[v]
  BY InUnion
<1>2. Covered(b, t, l) <=> b \subseteq U \cup l
  BY DEF Covered
<1> HIDE DEF U
<1> QED BY <1>1, <1>2

\* ... and of the busy CPUs now ...
LEMMA AccountedNow ==
    Accounted <=> \A c \in busy : c \in leaked \/ \E v \in DOMAIN tracker : c \in tracker[v]
<1>1. Accounted <=> Covered(busy, tracker, leaked)
  BY Zenon DEF Accounted, Covered
<1> QED BY <1>1, CoveredMeans

\* ... and after a step.
LEMMA AccountedNext ==
    Accounted' <=> \A c \in busy' : c \in leaked' \/ \E v \in DOMAIN tracker' : c \in tracker'[v]
<1>1. Accounted' <=> Covered(busy', tracker', leaked')
  BY Zenon DEF Accounted, Covered
<1> QED BY <1>1, CoveredMeans

\* handleVMStart that succeeds.
LEMMA StartHandled ==
    ASSUME HostShapes, Kernel, Still, NEW k \in Files, HandleVMStart(k)
    PROVE  /\ Kernel'
           /\ \A w \in Files : w # k /\ Settled(w) => Settled(w)'
           /\ RightOp(k) = "written" => Settled(k)'
<1>1. HasThreads(k) /\ k \notin BadAffinity /\ Affinity(k) \subseteq HostCPUs
  BY AffinityShape DEF HandleVMStart
<1>2. missed' \in {missed \cup {k}, missed \ {k}}
  BY DEF HandleVMStart
<1>3. CASE Mismatch(k)
  <2>1. UNCHANGED <<tracker, bound, busy, leaked>>
    BY <1>3 DEF HandleVMStart
  <2>2. EffectShapes' /\ Accounted'
    BY <1>2, <2>1 DEF EffectShapes, Accounted, Kernel
  <2>3. \A v \in Files : BoundFor(v)'
    BY <2>1, StillSame DEF BoundFor, Kernel, Still
  <2>4. ASSUME NEW w \in Files, w # k, Settled(w) PROVE Settled(w)'
    <3>1. w \in missed' <=> w \in missed
      BY <1>2, <2>4
    <3> QED BY <2>1, <2>4, <3>1, StillSame DEF Settled, Still
  <2>5. ASSUME RightOp(k) = "written" PROVE Settled(k)'
    <3>1. Mismatch(k)' /\ "threads" \notin bound'[k]
      BY <1>3, <2>1, StillSame DEF Kernel, BoundFor
    <3>2. host'[k] # "off"
      BY <1>1 DEF Still, HasThreads
    <3> QED BY <3>1, <3>2 DEF Settled
  <2> QED BY <2>2, <2>3, <2>4, <2>5 DEF Kernel
<1>4. CASE ~Mismatch(k)
  <2>0. PICK lost \in SUBSET BoundBy(k, {}), kept \in SUBSET Governed(k) :
            /\ bound' = [bound EXCEPT ![k] = (@ \ lost) \cup BoundBy(k, lost)]
            /\ busy' = SetCPUGovernor(Governed(k), "busy", kept)
            /\ UpdateVMInfo(k)
            /\ missed' = IF \/ Pinnable(k) /\ host[k] = "partial"
                            \/ lost # {} \/ kept # {}
                         THEN missed \cup {k} ELSE missed \ {k}
    BY <1>4 DEF HandleVMStart
  <2>1. /\ busy' = busy \cup (Governed(k) \ kept) /\ Governed(k) \subseteq Affinity(k)
        /\ tracker' = Tracked(tracker, k, Affinity(k))
        /\ leaked' = leaked \cup
               (IF k \in DOMAIN tracker THEN tracker[k] \ Affinity(k) ELSE {})
    BY <2>0, GovernedAffinity DEF UpdateVMInfo, SetCPUGovernor
  <2>2. /\ DOMAIN tracker' = DOMAIN tracker \cup {k} /\ tracker'[k] = Affinity(k)
        /\ \A w \in DOMAIN tracker : w # k => tracker'[w] = tracker[w]
    BY <2>1 DEF Tracked
  <2>3. /\ bound[k] \subseteq Wanted(k) /\ bound \in [Files -> SUBSET {"threads", "irqs"}]
        /\ bound'[k] = (bound[k] \ lost) \cup BoundBy(k, lost)
        /\ \A w \in Files : w # k => bound'[w] = bound[w]
    BY <2>0 DEF Kernel, EffectShapes, BoundFor
  <2>4. EffectShapes'
    <3>1. bound' \in [Files -> SUBSET {"threads", "irqs"}]
      BY <2>0, <2>3, BoundWanted
    <3>2. DOMAIN tracker' \subseteq Files /\ \A v \in DOMAIN tracker' : tracker'[v] \subseteq HostCPUs
      BY <1>1, <2>2 DEF Kernel, EffectShapes
    <3>3. busy' \subseteq HostCPUs /\ leaked' \subseteq HostCPUs
      BY <1>1, <2>1 DEF Kernel, EffectShapes
    <3>4. missed' \subseteq Files
      BY <1>2 DEF Kernel, EffectShapes
    <3> QED BY <3>1, <3>2, <3>3, <3>4 DEF EffectShapes
  <2>5. Accounted'
    <3> SUFFICES ASSUME NEW c \in busy', c \notin leaked'
                 PROVE  \E v \in DOMAIN tracker' : c \in tracker'[v]
      BY AccountedNext
    <3>1. CASE c \in Affinity(k)
      BY <2>2, <3>1
    <3>2. CASE c \notin Affinity(k)
      <4>1. c \in busy /\ c \notin leaked
        BY <2>1, <3>2
      <4>2. PICK v \in DOMAIN tracker : c \in tracker[v]
        BY <4>1, AccountedNow DEF Kernel
      <4>3. v # k
        BY <2>1, <3>2, <4>2
      <4> QED BY <2>2, <4>2, <4>3
    <3> QED BY <3>1, <3>2
  <2>6. ASSUME NEW v \in Files PROVE BoundFor(v)'
    <3>1. BoundFor(v)
      BY DEF Kernel
    <3>2. CASE v # k
      BY <2>3, <3>1, <3>2, StillSame DEF BoundFor, Still
    <3>3. CASE v = k
      <4>1. bound'[k] \subseteq Wanted(k)'
        BY <2>3, BoundWanted, StillSame
      <4>2. ProcessExists(k)'
        BY <1>1, StillSame DEF HasThreads, ProcessExists
      <4>3. "threads" \in bound'[k] => host'[k] = "running" /\ ~Mismatch(k)'
        BY <1>4, <2>3, <3>1, <3>3, BoundWanted, StillSame DEF BoundFor, Still
      <4> QED BY <3>3, <4>1, <4>2, <4>3 DEF BoundFor
    <3> QED BY <3>2, <3>3
  <2>7. ASSUME NEW w \in Files, w # k, Settled(w) PROVE Settled(w)'
    <3>1. (w \in missed' <=> w \in missed) /\ bound'[w] = bound[w] /\ busy \subseteq busy'
      BY <1>2, <2>1, <2>3, <2>7
    <3>2. (w \in DOMAIN tracker' <=> w \in DOMAIN tracker)
          /\ (w \in DOMAIN tracker => tracker'[w] = tracker[w])
      BY <2>2, <2>7
    <3> QED BY <2>7, <3>1, <3>2, StillSame DEF Settled, Still
  <2>8. ASSUME RightOp(k) = "written" PROVE Settled(k)'
    <3>1. host'[k] # "off"
      BY <1>1 DEF Still, HasThreads
    <3>2. k \notin missed' => lost = {} /\ kept = {} /\ (host[k] = "running" \/ ~Pinnable(k))
      BY <1>1, <2>0 DEF HasThreads
    <3>3. k \notin missed' => bound'[k] = Wanted(k)'
      BY <2>3, <3>2, BoundWanted, StillSame
    <3>4. k \notin missed' => Governed(k)' \subseteq busy'
      BY <2>1, <3>2, StillSame
    <3> QED BY <2>2, <3>1, <3>3, <3>4, StillSame DEF Settled
  <2> QED BY <2>4, <2>5, <2>6, <2>7, <2>8 DEF Kernel
<1> QED BY <1>3, <1>4

\* handleVMStop: no CPU of another VM is freed.
LEMMA StopHandled ==
    ASSUME HostShapes, Kernel, Still, NEW k \in Files, HandleVMStop(k)
    PROVE  /\ Kernel'
           /\ \A w \in Files : w # k /\ Settled(w) => Settled(w)'
           /\ RightOp(k) = "removed" => Settled(k)'
<1>0. PICK kept : /\ kept \subseteq HostCPUs /\ leaked' = leaked \cup kept
                  /\ IF k \in DOMAIN tracker
                     THEN busy' = busy \ (FreedCPUs(k) \ kept) /\ tracker' = Untracked(tracker, k)
                     ELSE UNCHANGED <<busy, tracker>>
  <2>1. CASE k \in DOMAIN tracker
    <3>1. PICK kept \in SUBSET FreedCPUs(k) :
              /\ busy' = SetCPUGovernor(FreedCPUs(k), "free", kept)
              /\ tracker' = Untracked(tracker, k)
              /\ leaked' = leaked \cup kept
      BY <2>1 DEF HandleVMStop
    <3>2. kept \subseteq HostCPUs
      <4>1. tracker[k] \subseteq HostCPUs
        BY <2>1 DEF Kernel, EffectShapes
      <4> QED BY <3>1, <4>1 DEF FreedCPUs
    <3>3. busy' = busy \ (FreedCPUs(k) \ kept)
      BY <3>1 DEF SetCPUGovernor
    <3>4. /\ kept \subseteq HostCPUs /\ leaked' = leaked \cup kept
          /\ IF k \in DOMAIN tracker
             THEN busy' = busy \ (FreedCPUs(k) \ kept) /\ tracker' = Untracked(tracker, k)
             ELSE UNCHANGED <<busy, tracker>>
      BY <2>1, <3>1, <3>2, <3>3
    <3> QED BY <3>4, Zenon
  <2>2. CASE k \notin DOMAIN tracker
    <3>1. leaked' = leaked \cup {} /\ UNCHANGED <<busy, tracker>>
      BY <2>2 DEF HandleVMStop
    <3>2. /\ {} \subseteq HostCPUs /\ leaked' = leaked \cup {}
          /\ IF k \in DOMAIN tracker
             THEN busy' = busy \ (FreedCPUs(k) \ {}) /\ tracker' = Untracked(tracker, k)
             ELSE UNCHANGED <<busy, tracker>>
      BY <2>2, <3>1
    <3> QED BY <3>2, Zenon
  <2> QED BY <2>1, <2>2
<1>1. UNCHANGED <<bound, missed>>
  BY DEF HandleVMStop
<1>2. k \notin DOMAIN tracker' /\ busy' \subseteq busy
      /\ DOMAIN tracker' = DOMAIN tracker \ {k}
      /\ \A w \in DOMAIN tracker' : tracker'[w] = tracker[w]
  BY <1>0 DEF Untracked
<1>3. ASSUME NEW c \in busy, NEW w \in DOMAIN tracker, w # k, c \in tracker[w] PROVE c \in busy'
  <2>1. c \notin FreedCPUs(k)
    <3>1. w \in DOMAIN tracker \ {k}
      BY <1>3
    <3>2. c \in UNION {tracker[x] : x \in DOMAIN tracker \ {k}}
      BY <1>3, <3>1, InUnion
    <3> QED BY <3>2 DEF FreedCPUs
  <2> QED BY <1>0, <1>3, <2>1
<1>4. EffectShapes'
  BY <1>0, <1>1, <1>2 DEF Kernel, EffectShapes
<1>5. Accounted'
  <2> SUFFICES ASSUME NEW c \in busy', c \notin leaked'
               PROVE  \E v \in DOMAIN tracker' : c \in tracker'[v]
    BY AccountedNext
  <2>1. PICK v \in DOMAIN tracker : c \in tracker[v]
    BY <1>0, <1>2, AccountedNow DEF Kernel
  <2>2. CASE v # k
    BY <1>2, <2>1, <2>2
  <2>3. CASE v = k
    <3>1. c \notin FreedCPUs(k)
      BY <1>0, <2>1, <2>3
    <3>2. c \in UNION {tracker[x] : x \in DOMAIN tracker \ {k}}
      BY <2>1, <2>3, <3>1 DEF FreedCPUs
    <3>3. PICK x \in DOMAIN tracker \ {k} : c \in tracker[x]
      BY <3>2, InUnion
    <3> QED BY <1>2, <3>3
  <2> QED BY <2>2, <2>3
<1>6. \A v \in Files : BoundFor(v)'
  BY <1>1, StillSame DEF BoundFor, Kernel, Still
<1>7. ASSUME NEW w \in Files, w # k, Settled(w) PROVE Settled(w)'
  <2>1. (w \in DOMAIN tracker' <=> w \in DOMAIN tracker)
        /\ (w \in DOMAIN tracker => tracker'[w] = tracker[w])
    BY <1>2, <1>7
  <2>2. w \in DOMAIN tracker /\ tracker[w] = Affinity(w) /\ Governed(w) \subseteq busy
          => Governed(w) \subseteq busy'
    BY <1>3, <1>7, GovernedAffinity
  <2> QED BY <1>1, <1>7, <2>1, <2>2, StillSame DEF Settled, Still
<1>8. ASSUME RightOp(k) = "removed" PROVE Settled(k)'
  <2>1. host'[k] = "off" /\ host[k] = "off"
    BY <1>8 DEF RightOp, Still
  <2>2. bound'[k] = {} /\ ~ProcessExists(k)'
    BY <1>1, <2>1, StillSame DEF Kernel, BoundFor, ProcessExists
  <2> QED BY <1>2, <2>2 DEF Settled
<1> QED BY <1>4, <1>5, <1>6, <1>7, <1>8 DEF Kernel

\* handleSyncEvent that succeeds: every process is known or missed.
LEMMA SyncHandled ==
    ASSUME HostShapes, Kernel, Still, HandleSyncEvent
    PROVE  Kernel' /\ \A w \in Files : Settled(w) => Settled(w)'
<1>1. PICK unread \in {{}} \cup {{v} : v \in GetRunningVMs} :
          /\ tracker' = [v \in GetRunningVMs \ unread |-> Affinity(v)]
          /\ leaked' = leaked \cup ((UNION {tracker[v] : v \in DOMAIN tracker})
                                    \ (UNION {Affinity(v) : v \in GetRunningVMs \ unread}))
          /\ missed' = missed \cup unread
          /\ UNCHANGED <<bound, busy>>
  BY DEF HandleSyncEvent
<1> DEFINE known == GetRunningVMs \ unread
<1>2. /\ DOMAIN tracker' = known /\ \A v \in known : tracker'[v] = Affinity(v)
      /\ known \subseteq Files /\ unread \subseteq Files
  BY <1>1 DEF GetRunningVMs
<1>3. EffectShapes'
  <2>1. \A v \in DOMAIN tracker' : tracker'[v] \subseteq HostCPUs
    BY <1>2, AffinityShape
  <2>2. leaked' \subseteq HostCPUs
    <3> SUFFICES ASSUME NEW c \in leaked', c \notin leaked PROVE c \in HostCPUs
      BY DEF Kernel, EffectShapes
    <3>1. PICK v \in DOMAIN tracker : c \in tracker[v]
      BY <1>1, InUnion
    <3> QED BY <3>1 DEF Kernel, EffectShapes
  <2> QED BY <1>1, <1>2, <2>1, <2>2 DEF Kernel, EffectShapes
<1>4. Accounted'
  <2> SUFFICES ASSUME NEW c \in busy', c \notin leaked'
               PROVE  \E v \in DOMAIN tracker' : c \in tracker'[v]
    BY AccountedNext
  <2>1. c \in busy /\ c \notin leaked
    BY <1>1
  <2> DEFINE old == UNION {tracker[v] : v \in DOMAIN tracker}
             new == UNION {Affinity(v) : v \in known}
  <2>2. c \in old
    BY <2>1, AccountedNow, InUnion DEF Kernel
  <2>3. c \in new
    <3>1. leaked' = leaked \cup (old \ new)
      BY <1>1
    <3> HIDE DEF old, new
    <3> QED BY <2>2, <3>1
  <2>4. PICK v \in known : c \in Affinity(v)
    BY <2>3
  <2> QED BY <1>2, <2>4
<1>5. \A v \in Files : BoundFor(v)'
  BY <1>1, StillSame DEF BoundFor, Kernel, Still
<1>6. ASSUME NEW w \in Files, Settled(w) PROVE Settled(w)'
  <2>1. host[w] = "off" => w \notin known
    BY DEF GetRunningVMs, ProcessExists
  <2>2. ProcessExists(w) => w \in known \cup missed'
    BY <1>1 DEF GetRunningVMs
  <2>3. w \notin missed' => w \notin missed
    BY <1>1
  <2>4. "threads" \in bound[w] => ProcessExists(w)
    BY DEF Kernel, BoundFor, ProcessExists
  <2> HIDE DEF known
  <2>5. (host[w] = "off" => w \notin DOMAIN tracker')
        /\ (ProcessExists(w) => w \in DOMAIN tracker' \cup missed')
    BY <1>2, <2>1, <2>2
  <2>6. "threads" \in bound[w] /\ w \notin missed'
          => w \in DOMAIN tracker' /\ tracker'[w] = Affinity(w) /\ Governed(w) \subseteq busy
    BY <1>2, <1>6, <2>2, <2>3, <2>4 DEF Settled
  <2> QED BY <1>1, <1>6, <2>3, <2>5, <2>6, StillSame DEF Settled, Still
<1> QED BY <1>3, <1>4, <1>5, <1>6 DEF Kernel

\* Nothing changes for a VM whose last event stays when the handlers have
\* changed nothing.
LEMMA EffectsSame ==
    ASSUME Kernel, Still, UNCHANGED <<tracker, bound, busy, leaked>>,
           missed' \subseteq Files, missed \subseteq missed'
    PROVE  /\ Kernel'
           /\ \A w \in Files : (w \in missed' => w \in missed) /\ Settled(w) => Settled(w)'
           /\ \A w \in Files : w \in missed' /\ RightOp(w) = "written" => Settled(w)'
<1>1. EffectShapes'
  BY DEF Kernel, EffectShapes
<1>2. Accounted'
  BY AccountedNow, AccountedNext DEF Kernel
<1>3. \A v \in Files : BoundFor(v)'
  BY StillSame DEF BoundFor, Kernel, Still
<1>4. ASSUME NEW w \in Files, w \in missed' => w \in missed, Settled(w) PROVE Settled(w)'
  <2>1. w \in missed' <=> w \in missed
    BY <1>4
  <2> QED BY <1>4, <2>1, StillSame DEF Settled, Still
<1>5. ASSUME NEW w \in Files, w \in missed', RightOp(w) = "written" PROVE Settled(w)'
  <2>1. host'[w] # "off"
    BY <1>5 DEF RightOp, Still
  <2> QED BY <1>5, <2>1 DEF Settled
<1> QED BY <1>1, <1>2, <1>3, <1>4, <1>5 DEF Kernel

\* An attempt of the consumer keeps the invariant.
LEMMA ProcessedKeeps ==
    ASSUME HostShapes, Kernel, Announced, Handled, Still,
           NEW r \in RetryableEvent, Processed(r)
    PROVE  Kernel' /\ Announced' /\ Handled'
<1> DEFINE e == r.event
<1>1. e \in Event /\ (e.op = "sync" => e = SyncEvent) /\ (e.op # "sync" => e.key \in Files)
  BY DEF RetryableEvent, Event, FileEvent, SyncEvent
<1>2. e = SyncEvent => e.key \notin Files
  BY ReconcilerAssumption DEF SyncEvent
<1>3. Handed(e)
  BY DEF Processed, Kept, Handed
<1> HIDE DEF e
<1>4. Announced'
  <2> SUFFICES ASSUME ~CtxDone', NEW v \in Files PROVE Latest(v)' \subseteq {RightOp(v)'}
    BY DEF Announced
  <2>1. Latest(v) \subseteq {RightOp(v)} /\ RightOp(v)' = RightOp(v)
    BY StillSame DEF Announced
  <2>2. Latest(v)' = Latest(v) \/ Latest(v)' = {}
    BY <1>3 DEF Handed
  <2> QED BY <2>1, <2>2
<1>5. ASSUME Kernel',
             \A w \in Files : w # e.key /\ Settled(w) => Settled(w)',
             \A w \in Files : w = e.key /\ RightOp(w) = e.op /\ Latest(w)' = {} => Settled(w)'
      PROVE  Kernel' /\ Handled'
  <2> SUFFICES ASSUME ~CtxDone', NEW v \in Files, Latest(v)' = {} PROVE Settled(v)'
    BY <1>5 DEF Handled
  <2>1. ~CtxDone
    BY StillSame
  <2>2. CASE v # e.key
    <3>1. Latest(v) = {}
      BY <1>3, <2>2 DEF Handed
    <3> QED BY <1>5, <2>1, <2>2, <3>1 DEF Handled
  <2>3. CASE v = e.key
    <3>1. Latest(v) = {e.op}
      BY <1>3, <2>3 DEF Handed
    <3>2. RightOp(v) = e.op
      BY <2>1, <3>1 DEF Announced
    <3> QED BY <1>5, <2>3, <3>2
  <2> QED BY <2>2, <2>3
<1>6. CASE Reconcile(e)
  <2>1. CASE e.op = "written" /\ HandleVMStart(e.key)
    <3>1. e.key \in Files
      BY <1>1, <2>1
    <3>2. PICK k \in Files : k = e.key
      BY <3>1
    <3>3. HandleVMStart(k)
      BY <2>1, <3>2
    <3>4. /\ Kernel'
          /\ \A w \in Files : w # k /\ Settled(w) => Settled(w)'
          /\ RightOp(k) = "written" => Settled(k)'
      BY <3>3, StartHandled
    <3> QED BY <1>4, <1>5, <2>1, <3>2, <3>4
  <2>2. CASE e.op = "removed" /\ HandleVMStop(e.key)
    <3>1. e.key \in Files
      BY <1>1, <2>2
    <3>2. PICK k \in Files : k = e.key
      BY <3>1
    <3>3. HandleVMStop(k)
      BY <2>2, <3>2
    <3>4. /\ Kernel'
          /\ \A w \in Files : w # k /\ Settled(w) => Settled(w)'
          /\ RightOp(k) = "removed" => Settled(k)'
      BY <3>3, StopHandled
    <3> QED BY <1>4, <1>5, <2>2, <3>2, <3>4
  <2>3. CASE e.op = "sync" /\ HandleSyncEvent
    <3>1. Kernel' /\ \A w \in Files : Settled(w) => Settled(w)'
      BY <2>3, SyncHandled
    <3> QED BY <1>1, <1>2, <1>4, <1>5, <2>3, <3>1
  <2> QED BY <1>6, <2>1, <2>2, <2>3 DEF Reconcile
<1>7. CASE ReconcileFails(e, r) /\ (~GivesUp(r) => Kept(e))
  <2>1. /\ UNCHANGED <<tracker, bound, busy, leaked>> /\ e.op \in {"written", "sync"}
        /\ missed' = IF e.op = "written" /\ GivesUp(r) THEN missed \cup {e.key} ELSE missed
    BY <1>7 DEF ReconcileFails, HandleVMStartFails, HandleSyncEventFails
  <2>2. missed' \subseteq Files /\ missed \subseteq missed'
    BY <1>1, <2>1 DEF Kernel, EffectShapes
  <2>3. /\ Kernel'
        /\ \A w \in Files : (w \in missed' => w \in missed) /\ Settled(w) => Settled(w)'
        /\ \A w \in Files : w \in missed' /\ RightOp(w) = "written" => Settled(w)'
    BY <2>1, <2>2, EffectsSame
  <2>4. \A w \in Files : w # e.key => (w \in missed' => w \in missed)
    BY <2>1
  <2>5. ASSUME NEW w \in Files, w = e.key, RightOp(w) = e.op, Latest(w)' = {} PROVE Settled(w)'
    <3>1. e.op = "written"
      BY <1>1, <1>2, <2>1, <2>5
    <3>2. GivesUp(r)
      BY <1>7, <2>5 DEF Kept
    <3> QED BY <2>1, <2>3, <2>5, <3>1, <3>2
  <2> QED BY <1>4, <1>5, <2>3, <2>4, <2>5
<1>8. CASE UNCHANGED effects /\ Kept(e)
  <2>1. UNCHANGED <<tracker, bound, busy, leaked, missed>>
    BY <1>8 DEF effects
  <2>2. missed' \subseteq Files /\ missed \subseteq missed'
    BY <2>1 DEF Kernel, EffectShapes
  <2>3. Kernel' /\ \A w \in Files : (w \in missed' => w \in missed) /\ Settled(w) => Settled(w)'
    BY <2>1, <2>2, EffectsSame
  <2>4. \A w \in Files : w = e.key => Latest(w)' # {}
    BY <1>8 DEF Kept
  <2> QED BY <1>4, <1>5, <2>1, <2>3, <2>4
<1> QED BY <1>6, <1>7, <1>8 DEF Processed, e

-------------------------------------------------------------------------------
(* The VMs.                                                                *)

\* An event of v is its last and changes nothing for others.
LEMMA Notified ==
    ASSUME PipeShapes, NEW v \in Files, NEW op \in {"written", "removed"},
           Notify(v, op), UNCHANGED <<watch, timer, queue, pending, todo>>
    PROVE  PipeShapes' /\ Latest(v)' = {op} /\ \A w \in Files : w # v => Latest(w)' = Latest(w)
<1> DEFINE e == [key |-> v, op |-> op]
<1>1. e \in FileEvent /\ e.key = v /\ e.op = op
  BY DEF FileEvent
<1>2. fs' = Append(fs, e) /\ fs \in Seq(FileEvent)
  BY DEF Notify, PipeShapes
<1> HIDE DEF e
<1>3. fs' \in Seq(FileEvent)
  BY <1>1, <1>2, AppendShape
<1>4. \A w : Latest(w)' = LatestIn(fs', queue, pending, todo, w)
  BY DEF Latest
<1>5. \A w : LatestIn(Append(fs, e), queue, pending, todo, w) =
                 IF e.key = w THEN {e.op} ELSE LatestIn(fs, queue, pending, todo, w)
  BY <1>1, <1>2, LatestNotified
<1>6. \A w : Latest(w)' = IF v = w THEN {op} ELSE Latest(w)
  BY <1>1, <1>2, <1>4, <1>5 DEF Latest
<1>7. PipeShapes'
  BY <1>3 DEF PipeShapes
<1> QED BY <1>6, <1>7

\* A step of v's alone.
Elsewhere(v) ==
    /\ UNCHANGED <<tracker, busy, leaked, main>>
    /\ \A w \in Files : w # v =>
           /\ host'[w] = host[w] /\ conf'[w] = conf[w] /\ bound'[w] = bound[w]
           /\ (w \in missed' <=> w \in missed)

\* It is enough to look at v.
LEMMA OnlyOne ==
    ASSUME IInv, NEW v \in Files, ~CtxDone, Elsewhere(v),
           \A w \in Files : w # v => Latest(w)' = Latest(w),
           Latest(v)' \subseteq {RightOp(v)'}, Latest(v)' = {} => Settled(v)', BoundFor(v)'
    PROVE  Announced' /\ Handled' /\ Accounted' /\ \A w \in Files : BoundFor(w)'
<1>1. ASSUME NEW w \in Files, w # v
      PROVE  /\ Affinity(w)' = Affinity(w) /\ Pinnable(w)' = Pinnable(w)
             /\ Governed(w)' = Governed(w)
             /\ Mismatch(w)' = Mismatch(w) /\ Wanted(w)' = Wanted(w)
             /\ ProcessExists(w)' = ProcessExists(w) /\ RightOp(w)' = RightOp(w)
  <2>1. host'[w] = host[w] /\ conf'[w] = conf[w]
    BY <1>1 DEF Elsewhere
  <2>2. Affinity(w)' = Affinity(w)
    BY <2>1 DEF Affinity
  <2>3. Pinnable(w)' = Pinnable(w)
    BY <2>1, <2>2 DEF Pinnable
  <2>4. Mismatch(w)' = Mismatch(w) /\ Wanted(w)' = Wanted(w) /\ Governed(w)' = Governed(w)
    BY <2>2, <2>3 DEF Mismatch, Governed, Wanted, SetPciIRQAffinity, GetPciDeviceIRQs
  <2> QED BY <2>1, <2>2, <2>3, <2>4 DEF ProcessExists, RightOp
<1>2. ASSUME NEW w \in Files, w # v PROVE BoundFor(w)' /\ (Settled(w) => Settled(w)')
  <2>1. /\ host'[w] = host[w] /\ bound'[w] = bound[w] /\ (w \in missed' <=> w \in missed)
        /\ tracker' = tracker /\ busy' = busy
    BY <1>2 DEF Elsewhere
  <2>2. BoundFor(w)'
    BY <1>1, <1>2, <2>1 DEF IInv, Kernel, BoundFor
  <2>3. Settled(w) => Settled(w)'
    BY <1>1, <1>2, <2>1 DEF Settled
  <2> QED BY <2>2, <2>3
<1>3. Announced'
  BY <1>1 DEF IInv, Announced
<1>4. Handled'
  BY <1>2 DEF IInv, Handled
<1>5. Accounted'
  BY AccountedNow, AccountedNext DEF IInv, Kernel, Elsewhere
<1> QED BY <1>2, <1>3, <1>4, <1>5

\* The default configuration is one of the VM's.
LEMMA DefaultShape ==
    ASSUME NEW v \in Files
    PROVE  DefaultConfig(v) \in Configs[v]
<1>1. Configs[v] # {}
  BY SchedulerAssumption
<1> QED BY <1>1 DEF DefaultConfig

\* Lists that nobody touches.
LEMMA ListsSame ==
    ASSUME ListShapes, UNCHANGED <<pending, todo>>
    PROVE  ListShapes'
<1>1. pending' = pending /\ todo' = todo
  OBVIOUS
<1> QED BY <1>1, Zenon DEF ListShapes, Once, Keys

\* A VM that boots, writes its PID, starts threads, exits or loses its file.
LEMMA EnvironmentKeeps ==
    ASSUME IInv, Environment
    PROVE  IInv'
<1>1. PICK v \in Files :
          /\ \/ (Boot(v) \/ WritePID(v) \/ StartThreads(v) \/ RemovePIDFile(v)) /\ UNCHANGED effects
             \/ Exit(v)
          /\ ~CtxDone /\ UNCHANGED <<watch, timer, queue, syncs, list, consumer, main>>
  BY DEF Environment
<1>2. UNCHANGED <<watch, timer, queue, pending, todo, consumer, main>> /\ CtxDone' = CtxDone
  BY <1>1 DEF list, CtxDone
<1>3. ListShapes' /\ ControlShapes' /\ Closing'
  <2>1. ListShapes'
    BY <1>2, ListsSame DEF IInv
  <2> QED BY <1>2, <2>1 DEF IInv, ControlShapes, Closing, AllDone
<1>4. /\ host \in [Files -> HostState] /\ conf \in [Files -> AllConfigs]
      /\ \A w \in Files : conf[w] \in Configs[w]
      /\ BoundFor(v) /\ PipeShapes /\ EffectShapes
  BY DEF IInv, HostShapes, Kernel
<1>5. \A c \in Configs[v] : c \in AllConfigs
  BY DEF AllConfigs
<1>6. ASSUME HostShapes', PipeShapes', EffectShapes', Elsewhere(v),
             \A w \in Files : w # v => Latest(w)' = Latest(w),
             Latest(v)' \subseteq {RightOp(v)'}, Latest(v)' = {} => Settled(v)', BoundFor(v)'
      PROVE  IInv'
  <2>1. Announced' /\ Handled' /\ Accounted' /\ \A w \in Files : BoundFor(w)'
    BY <1>1, <1>6, OnlyOne
  <2> QED BY <1>3, <1>6, <2>1 DEF IInv, Kernel
<1>7. ASSUME fs' = fs
      PROVE  PipeShapes' /\ \A w \in Files : Latest(w)' = Latest(w)
  BY <1>2, <1>4, <1>7 DEF PipeShapes, Latest
<1>8. ASSUME UNCHANGED effects
      PROVE  /\ EffectShapes' /\ UNCHANGED <<tracker, busy, leaked, bound, missed>>
  BY <1>4, <1>8 DEF EffectShapes, effects
<1>9. CASE Boot(v) /\ UNCHANGED effects
  <2>1. PICK c \in Configs[v] : conf' = [conf EXCEPT ![v] = c]
    BY <1>9 DEF Boot
  <2>2. host[v] \in {"off", "exited"} /\ host' = [host EXCEPT ![v] = "booting"] /\ Notify(v, "written")
    BY <1>9 DEF Boot
  <2>3. HostShapes' /\ host'[v] = "booting"
    BY <1>4, <1>5, <2>1, <2>2 DEF HostShapes, HostState
  <2>4. PipeShapes' /\ Latest(v)' = {"written"} /\ \A w \in Files : w # v => Latest(w)' = Latest(w)
    BY <1>2, <1>4, <2>2, Notified
  <2>5. Elsewhere(v)
    BY <1>2, <1>4, <1>8, <1>9, <2>1, <2>2 DEF Elsewhere
  <2>6. BoundFor(v)'
    <3>1. bound'[v] = {}
      BY <1>4, <1>8, <1>9, <2>2 DEF BoundFor, ProcessExists
    <3> QED BY <3>1 DEF BoundFor
  <2>7. RightOp(v)' = "written"
    BY <2>3 DEF RightOp
  <2> QED BY <1>6, <1>8, <1>9, <2>3, <2>4, <2>5, <2>6, <2>7
<1>10. CASE WritePID(v) /\ UNCHANGED effects
  <2>1. host[v] = "booting" /\ UNCHANGED <<host, conf>> /\ Notify(v, "written")
    BY <1>10 DEF WritePID
  <2>2. HostShapes'
    BY <1>4, <2>1 DEF HostShapes
  <2>3. PipeShapes' /\ Latest(v)' = {"written"} /\ \A w \in Files : w # v => Latest(w)' = Latest(w)
    BY <1>2, <1>4, <2>1, Notified
  <2>4. Elsewhere(v)
    BY <1>2, <1>8, <1>10, <2>1 DEF Elsewhere
  <2>5. BoundFor(v)'
    <3>1. Still
      BY <1>2, <2>1 DEF Still
    <3> QED BY <1>4, <1>8, <1>10, <2>1, <3>1, StillSame DEF BoundFor
  <2>6. RightOp(v)' = "written"
    BY <2>1 DEF RightOp
  <2> QED BY <1>6, <1>8, <1>10, <2>2, <2>3, <2>4, <2>5, <2>6
<1>11. CASE StartThreads(v) /\ UNCHANGED effects
  <2>1. PICK h \in {"partial", "running"} : host' = [host EXCEPT ![v] = h]
    BY <1>11 DEF StartThreads
  <2>2. host[v] \in {"booting", "partial"} /\ UNCHANGED <<conf, fs>>
    BY <1>11 DEF StartThreads
  <2>3. HostShapes' /\ host'[v] = h
    BY <1>4, <2>1, <2>2 DEF HostShapes, HostState
  <2>4. PipeShapes' /\ \A w \in Files : Latest(w)' = Latest(w)
    BY <1>7, <2>2
  <2>5. Elsewhere(v)
    BY <1>2, <1>4, <1>8, <1>11, <2>1, <2>2 DEF Elsewhere
  <2>6. /\ Affinity(v)' = Affinity(v) /\ Mismatch(v)' = Mismatch(v) /\ Wanted(v)' = Wanted(v)
    BY <2>2 DEF Affinity, Mismatch, Pinnable, Wanted, SetPciIRQAffinity, GetPciDeviceIRQs
  <2>7. ProcessExists(v) /\ ProcessExists(v)' /\ host'[v] # "off" /\ bound'[v] = bound[v]
        /\ "threads" \notin bound[v]
    BY <1>4, <1>8, <1>11, <2>2, <2>3 DEF ProcessExists, BoundFor
  <2>8. BoundFor(v)'
    BY <1>4, <2>6, <2>7 DEF BoundFor
  <2>9. Settled(v) => Settled(v)'
    BY <1>8, <1>11, <2>6, <2>7 DEF Settled
  <2>10. Latest(v)' \subseteq {RightOp(v)'} /\ (Latest(v)' = {} => Settled(v)')
    <3>1. RightOp(v)' = RightOp(v)
      BY <2>2, <2>7 DEF RightOp
    <3> QED BY <1>1, <2>4, <2>9, <3>1 DEF IInv, Announced, Handled
  <2> QED BY <1>6, <1>8, <1>11, <2>3, <2>4, <2>5, <2>8, <2>10
<1>12. CASE RemovePIDFile(v) /\ UNCHANGED effects
  <2>1. /\ host[v] = "exited" /\ host' = [host EXCEPT ![v] = "off"] /\ Notify(v, "removed")
        /\ conf' = [conf EXCEPT ![v] = DefaultConfig(v)]
    BY <1>12 DEF RemovePIDFile
  <2>2. PICK c \in Configs[v] : conf' = [conf EXCEPT ![v] = c]
    BY <2>1, DefaultShape
  <2>3. HostShapes' /\ host'[v] = "off"
    BY <1>4, <1>5, <2>1, <2>2 DEF HostShapes, HostState
  <2>4. PipeShapes' /\ Latest(v)' = {"removed"} /\ \A w \in Files : w # v => Latest(w)' = Latest(w)
    BY <1>2, <1>4, <2>1, Notified
  <2>5. Elsewhere(v)
    BY <1>2, <1>4, <1>8, <1>12, <2>1, <2>2 DEF Elsewhere
  <2>6. BoundFor(v)'
    <3>1. bound'[v] = {}
      BY <1>4, <1>8, <1>12, <2>1 DEF BoundFor, ProcessExists
    <3> QED BY <3>1 DEF BoundFor
  <2>7. RightOp(v)' = "removed"
    BY <2>3 DEF RightOp
  <2> QED BY <1>6, <1>8, <1>12, <2>3, <2>4, <2>5, <2>6, <2>7
<1>13. CASE Exit(v)
  <2>1. /\ ProcessExists(v) /\ host' = [host EXCEPT ![v] = "exited"]
        /\ bound' = [bound EXCEPT ![v] = {}] /\ missed' = missed \ {v}
        /\ UNCHANGED <<conf, fs, tracker, busy, leaked>>
    BY <1>13 DEF Exit
  <2>2. HostShapes' /\ host'[v] = "exited"
    BY <1>4, <2>1 DEF HostShapes, HostState
  <2>3. PipeShapes' /\ \A w \in Files : Latest(w)' = Latest(w)
    BY <1>7, <2>1
  <2>4. EffectShapes' /\ bound'[v] = {}
    BY <1>4, <2>1 DEF EffectShapes
  <2>5. Elsewhere(v)
    BY <1>2, <1>4, <2>1 DEF Elsewhere, EffectShapes
  <2>6. BoundFor(v)' /\ Settled(v)'
    <3>1. ~ProcessExists(v)'
      BY <2>2 DEF ProcessExists
    <3> QED BY <2>2, <2>4, <3>1 DEF BoundFor, Settled
  <2>7. Latest(v)' \subseteq {RightOp(v)'}
    <3>1. RightOp(v) = "written" /\ RightOp(v)' = "written"
      BY <2>1, <2>2 DEF RightOp, ProcessExists
    <3> QED BY <1>1, <2>3, <3>1 DEF IInv, Announced
  <2> QED BY <1>6, <2>2, <2>3, <2>4, <2>5, <2>6, <2>7
<1> QED BY <1>1, <1>9, <1>10, <1>11, <1>12, <1>13

-------------------------------------------------------------------------------
(* The goroutines around the queue.                                        *)

\* No event of a VM is lost or overtaken, and the handlers have done nothing.
LEMMA Carried ==
    ASSUME IInv, UNCHANGED <<host, conf, tracker, bound, busy, leaked, missed>>,
           ~CtxDone' => ~CtxDone,
           ~CtxDone => \A v \in Files : Latest(v)' = Latest(v)
    PROVE  HostShapes' /\ Kernel' /\ Announced' /\ Handled'
<1>1. \A v : /\ Affinity(v)' = Affinity(v) /\ Mismatch(v)' = Mismatch(v)
             /\ Governed(v)' = Governed(v)
             /\ Wanted(v)' = Wanted(v) /\ Pinnable(v)' = Pinnable(v)
             /\ ProcessExists(v)' = ProcessExists(v) /\ RightOp(v)' = RightOp(v)
  BY DEF Affinity, Mismatch, Pinnable, Wanted, SetPciIRQAffinity, GetPciDeviceIRQs, Governed,
         ProcessExists, RightOp
<1>2. HostShapes' /\ EffectShapes'
  BY DEF IInv, Kernel, HostShapes, EffectShapes
<1>3. Accounted'
  BY AccountedNow, AccountedNext DEF IInv, Kernel
<1>4. \A v \in Files : BoundFor(v)'
  BY <1>1 DEF IInv, Kernel, BoundFor
<1>5. \A v \in Files : Settled(v) => Settled(v)'
  BY <1>1 DEF Settled
<1>6. Announced'
  BY <1>1 DEF IInv, Announced
<1>7. Handled'
  BY <1>5 DEF IInv, Handled
<1> QED BY <1>2, <1>3, <1>4, <1>6, <1>7 DEF Kernel

\* A sync event on the channel is no VM's.
LEMMA SyncSent ==
    ASSUME PipeShapes, Send(SyncEvent)
    PROVE  /\ queue' \in Seq({Fresh(e) : e \in Event}) /\ Len(queue') <= QueueSize
           /\ \A v \in Files : LatestIn(fs, queue', pending, todo, v)
                                   = LatestIn(fs, queue, pending, todo, v)
<1> DEFINE X == {Fresh(e) : e \in Event}
<1>1. queue \in Seq(X) /\ Len(queue) <= QueueSize /\ Fresh(SyncEvent) \in X
  BY FileEventsAreEvents DEF PipeShapes
<1>2. CASE UNCHANGED queue
  BY <1>1, <1>2
<1>3. CASE Len(queue) < QueueSize /\ queue' = Append(queue, Fresh(SyncEvent))
  <2>1. queue' \in Seq(X) /\ Len(queue') = Len(queue) + 1 /\ Len(queue) \in Nat
    <3> HIDE DEF X
    <3> QED BY <1>1, <1>3, AppendShape
  <2>2. Len(queue') <= QueueSize
    BY <1>3, <2>1, ReconcilerAssumption
  <2>3. ASSUME NEW v \in Files
        PROVE  LatestIn(fs, queue', pending, todo, v) = LatestIn(fs, queue, pending, todo, v)
    <3>1. SyncEvent.key # v /\ SyncEvent \in Event
      BY FileEventsAreEvents, ReconcilerAssumption
    <3> QED BY <1>1, <1>3, <3>1, LatestSent
  <2> QED BY <2>1, <2>2, <2>3
<1> QED BY <1>2, <1>3 DEF Send

\* The first sync is sent.
LEMMA StartKeeps ==
    ASSUME IInv, Start
    PROVE  IInv'
<1>1. /\ main = "starting" /\ main' = "up" /\ Send(SyncEvent)
      /\ UNCHANGED <<host, conf, fs, watch, timer, pending, todo, consumer>>
      /\ UNCHANGED <<tracker, bound, busy, leaked, missed>>
  BY DEF Start, env, list, effects
<1>2. PipeShapes /\ ListShapes
  BY DEF IInv
<1>3. /\ queue' \in Seq({Fresh(e) : e \in Event}) /\ Len(queue') <= QueueSize
      /\ \A v \in Files : LatestIn(fs, queue', pending, todo, v)
                              = LatestIn(fs, queue, pending, todo, v)
  BY <1>1, <1>2, SyncSent
<1>4. PipeShapes'
  BY <1>1, <1>2, <1>3 DEF PipeShapes
<1>5. ListShapes'
  BY <1>1, <1>2, ListsSame
<1>6. ControlShapes' /\ Closing'
  BY <1>1 DEF IInv, ControlShapes, Closing
<1>7. ~CtxDone /\ \A v \in Files : Latest(v)' = Latest(v)
  BY <1>1, <1>3 DEF CtxDone, Latest
<1>8. HostShapes' /\ Kernel' /\ Announced' /\ Handled'
  BY <1>1, <1>7, Carried
<1> QED BY <1>4, <1>5, <1>6, <1>8 DEF IInv

\* A sync event of the timer is sent.
LEMMA SendSyncEventKeeps ==
    ASSUME IInv, SendSyncEvent
    PROVE  IInv'
<1>1. /\ Send(SyncEvent) /\ timer' = "idle" /\ timer # "done"
      /\ UNCHANGED <<host, conf, fs, watch, pending, todo, consumer, main>>
      /\ UNCHANGED <<tracker, bound, busy, leaked, missed>>
  BY DEF SendSyncEvent, env, list, effects
<1>2. PipeShapes /\ ListShapes
  BY DEF IInv
<1>3. /\ queue' \in Seq({Fresh(e) : e \in Event}) /\ Len(queue') <= QueueSize
      /\ \A v \in Files : LatestIn(fs, queue', pending, todo, v)
                              = LatestIn(fs, queue, pending, todo, v)
  BY <1>1, <1>2, SyncSent
<1>4. PipeShapes'
  BY <1>1, <1>2, <1>3 DEF PipeShapes
<1>5. ListShapes'
  BY <1>1, <1>2, ListsSame
<1>6. ControlShapes' /\ Closing'
  BY <1>1 DEF IInv, ControlShapes, Closing, AllDone
<1>7. CtxDone' = CtxDone /\ \A v \in Files : Latest(v)' = Latest(v)
  BY <1>1, <1>3 DEF CtxDone, Latest
<1>8. HostShapes' /\ Kernel' /\ Announced' /\ Handled'
  BY <1>1, <1>7, Carried
<1> QED BY <1>4, <1>5, <1>6, <1>8 DEF IInv

\* A file event moves on to the channel, or is dropped when the daemon stops.
LEMMA SendFileEventKeeps ==
    ASSUME IInv, SendFileEvent
    PROVE  IInv'
<1> DEFINE X == {Fresh(e) : e \in Event}
           x == Head(fs)
<1>1. /\ Send(x) /\ fs # <<>> /\ fs' = Tail(fs) /\ watch' = "idle" /\ watch # "done"
      /\ UNCHANGED <<host, conf, timer, pending, todo, consumer, main>>
      /\ UNCHANGED <<tracker, bound, busy, leaked, missed>>
  BY DEF SendFileEvent, env, list, effects
<1>2. /\ fs \in Seq(FileEvent) /\ queue \in Seq(X) /\ Len(queue) <= QueueSize
      /\ timer \in {"idle", "sending", "done"} /\ ListShapes
  BY DEF IInv, PipeShapes
<1>3. fs' \in Seq(FileEvent) /\ x \in FileEvent
  BY <1>1, <1>2, TailShape
<1>4. Fresh(x) \in X
  BY <1>3, FileEventsAreEvents
<1> HIDE DEF x
<1>5. queue' \in Seq(X) /\ Len(queue') <= QueueSize
  <2>1. CASE UNCHANGED queue
    BY <1>2, <2>1
  <2>2. CASE Len(queue) < QueueSize /\ queue' = Append(queue, Fresh(x))
    <3>1. queue' \in Seq(X) /\ Len(queue') = Len(queue) + 1 /\ Len(queue) \in Nat
      <4> HIDE DEF X
      <4> QED BY <1>2, <1>4, <2>2, AppendShape
    <3> QED BY <2>2, <3>1, ReconcilerAssumption
  <2> QED BY <1>1, <2>1, <2>2 DEF Send
<1>6. PipeShapes'
  BY <1>1, <1>2, <1>3, <1>5 DEF PipeShapes
<1>7. ListShapes'
  BY <1>1, <1>2, ListsSame
<1>8. ControlShapes' /\ Closing'
  BY <1>1 DEF IInv, ControlShapes, Closing, AllDone
<1>9. CtxDone' = CtxDone
  BY <1>1 DEF CtxDone
<1>10. ASSUME ~CtxDone, NEW v \in Files PROVE Latest(v)' = Latest(v)
  <2>1. queue' = Append(queue, Fresh(Head(fs)))
    BY <1>1, <1>10 DEF Send, x
  <2>2. LatestIn(Tail(fs), Append(queue, Fresh(Head(fs))), pending, todo, v)
          = LatestIn(fs, queue, pending, todo, v)
    BY <1>1, <1>2, LatestForwarded
  <2> QED BY <1>1, <2>1, <2>2 DEF Latest
<1>11. HostShapes' /\ Kernel' /\ Announced' /\ Handled'
  BY <1>1, <1>9, <1>10, Carried
<1> QED BY <1>6, <1>7, <1>8, <1>11 DEF IInv

\* Goroutines that wait for room or return, and the steps of Stop.
LEMMA ControlKeeps ==
    ASSUME IInv, UNCHANGED <<env, fs, queue, list, effects>>,
           watch' \in {"idle", "sending", "done"}, timer' \in {"idle", "sending", "done"},
           ControlShapes', Closing', CtxDone => CtxDone'
    PROVE  IInv'
<1>1. UNCHANGED <<host, conf, tracker, bound, busy, leaked, missed, fs, queue, pending, todo>>
  BY DEF env, list, effects
<1>2. PipeShapes'
  BY <1>1 DEF IInv, PipeShapes
<1>3. ListShapes'
  BY <1>1, ListsSame DEF IInv
<1>4. \A v \in Files : Latest(v)' = Latest(v)
  BY <1>1 DEF Latest
<1>5. HostShapes' /\ Kernel' /\ Announced' /\ Handled'
  BY <1>1, <1>4, Carried
<1> QED BY <1>2, <1>3, <1>5 DEF IInv

\* The consumer's attempts.
LEMMA ConsumerKeeps ==
    ASSUME IInv, Receive \/ TickEvent
    PROVE  IInv'
<1>1. PipeShapes' /\ ListShapes' /\ \E r \in RetryableEvent : Processed(r)
  BY ReceiveProcesses, TickEventProcesses DEF IInv
<1>2. UNCHANGED <<host, conf, main, consumer, watch, timer>>
  BY DEF Receive, TickEvent, env, pipe
<1>3. Still
  BY <1>2 DEF Still
<1>4. PICK r \in RetryableEvent : Processed(r)
  BY <1>1
<1>5. Kernel' /\ Announced' /\ Handled'
  BY <1>3, <1>4, ProcessedKeeps DEF IInv
<1>6. HostShapes' /\ ControlShapes' /\ Closing'
  BY <1>2 DEF IInv, HostShapes, ControlShapes, Closing, AllDone
<1> QED BY <1>1, <1>5, <1>6 DEF IInv

\* A tick begins.
LEMMA TickKeeps ==
    ASSUME IInv, Tick
    PROVE  IInv'
<1>1. /\ todo = <<>> /\ todo' = pending /\ pending' = <<>>
      /\ UNCHANGED <<host, conf, tracker, bound, busy, leaked, missed, fs, queue>>
      /\ UNCHANGED <<watch, timer, consumer, main>>
  BY DEF Tick, env, pipe, effects
<1>2. ListShapes /\ PipeShapes
  BY DEF IInv
<1>3. ListShapes'
  <2>1. <<>> \in Seq(RetryableEvent) /\ Once(<<>>) /\ Keys(<<>>) = {}
    BY EmptySeq DEF Once, Keys
  <2>2. pending \in Seq(RetryableEvent) /\ Once(pending)
    BY <1>2 DEF ListShapes
  <2>3. \A p, t : p = <<>> /\ t = pending => Once(p) /\ Once(t) /\ Keys(p) \cap Keys(t) = {}
    BY <2>1, <2>2
  <2>4. Once(pending)' /\ Once(todo)' /\ (Keys(pending) \cap Keys(todo))' = {}
    BY <1>1, <2>3
  <2> QED BY <1>1, <2>1, <2>2, <2>4 DEF ListShapes
<1>4. PipeShapes' /\ ControlShapes' /\ Closing' /\ CtxDone' = CtxDone
  BY <1>1 DEF IInv, PipeShapes, ControlShapes, Closing, AllDone, CtxDone
<1>5. \A v \in Files : Latest(v)' = Latest(v)
  BY <1>1, LatestListed DEF Latest
<1>6. HostShapes' /\ Kernel' /\ Announced' /\ Handled'
  BY <1>1, <1>4, <1>5, Carried
<1> QED BY <1>3, <1>4, <1>6 DEF IInv

-------------------------------------------------------------------------------
(* Theorems.                                                               *)

\* The invariant holds when the daemon starts.
LEMMA InitKeeps == Init => IInv
<1> SUFFICES ASSUME Init PROVE IInv
  OBVIOUS
<1>1. HostShapes
  <2>1. host \in [Files -> HostState]
    BY DEF Init, HostState
  <2>2. conf \in [Files -> AllConfigs]
    BY DEF Init, AllConfigs
  <2>3. \A v \in Files : conf[v] \in Configs[v]
    BY DefaultShape DEF Init
  <2> QED BY <2>1, <2>2, <2>3 DEF HostShapes
<1>2. fs = <<>> /\ queue = <<>> /\ pending = <<>> /\ todo = <<>> /\ Len(<<>>) = 0
  BY DEF Init
<1>3. PipeShapes
  <2>1. \A S : <<>> \in Seq(S)
    BY EmptySeq
  <2> QED BY <1>2, <2>1, ReconcilerAssumption DEF PipeShapes, Init
<1>4. ListShapes
  <2>1. <<>> \in Seq(RetryableEvent) /\ Once(<<>>) /\ Keys(<<>>) = {}
    BY EmptySeq DEF Once, Keys
  <2> QED BY <1>2, <2>1 DEF ListShapes
<1>5. ControlShapes /\ Closing
  BY DEF Init, ControlShapes, Closing
<1>6. /\ DOMAIN tracker = {} /\ busy = {} /\ leaked = {}
      /\ \A v \in Files : bound[v] = {}
      /\ bound \in [Files -> SUBSET {"threads", "irqs"}]
      /\ missed = {v \in Files : host[v] = "running"}
      /\ \A v \in Files : host[v] \in {"off", "running"}
  BY DEF Init
<1>7. EffectShapes
  BY <1>6 DEF EffectShapes
<1>8. Accounted
  BY <1>6, AccountedNow
<1>9. \A v \in Files : BoundFor(v) /\ Settled(v)
  BY <1>6 DEF BoundFor, Settled, ProcessExists
<1>10. \A v : Latest(v) = {}
  BY <1>2 DEF Latest, LatestIn, LastOf, Events, Ops
<1> QED BY <1>1, <1>3, <1>4, <1>5, <1>7, <1>8, <1>9, <1>10 DEF IInv, Kernel, Announced, Handled

\* Every step keeps it.
LEMMA NextKeeps == IInv /\ [Next]_vars => IInv'
<1> SUFFICES ASSUME IInv, [Next]_vars PROVE IInv'
  OBVIOUS
<1>1. CASE Start
  BY <1>1, StartKeeps
<1>2. CASE Stop
  <2>1. ControlShapes' /\ Closing' /\ CtxDone'
    BY <1>2 DEF Stop, IInv, ControlShapes, Closing, CtxDone
  <2>2. UNCHANGED <<env, fs, queue, list, effects>> /\ UNCHANGED <<watch, timer>>
    BY <1>2 DEF Stop, pipe
  <2> QED BY <2>1, <2>2, ControlKeeps DEF IInv, PipeShapes
<1>3. CASE CloseQueue
  <2>1. ControlShapes' /\ Closing' /\ CtxDone'
    BY <1>3 DEF CloseQueue, IInv, ControlShapes, Closing, CtxDone, AllDone, pipe
  <2>2. UNCHANGED <<env, fs, queue, list, effects>> /\ UNCHANGED <<watch, timer>>
    BY <1>3 DEF CloseQueue, pipe
  <2> QED BY <2>1, <2>2, ControlKeeps DEF IInv, PipeShapes
<1>4. CASE Signal
  <2>1. ControlShapes' /\ Closing' /\ CtxDone'
    BY <1>4 DEF Signal, IInv, ControlShapes, Closing, CtxDone
  <2>2. UNCHANGED <<env, fs, queue, list, effects>> /\ UNCHANGED <<watch, timer>>
    BY <1>4 DEF Signal, pipe
  <2> QED BY <2>1, <2>2, ControlKeeps DEF IInv, PipeShapes
<1>5. CASE SendFileEvent
  BY <1>5, SendFileEventKeeps
<1>6. CASE WatchFilesExit
  <2>1. /\ UNCHANGED <<env, fs, queue, list, effects>> /\ UNCHANGED <<timer, consumer, main>>
        /\ watch' = "done" /\ watch = "idle"
    BY <1>6 DEF WatchFilesExit
  <2>2. ControlShapes' /\ Closing' /\ CtxDone' = CtxDone
    BY <2>1 DEF IInv, ControlShapes, Closing, CtxDone, AllDone
  <2> QED BY <2>1, <2>2, ControlKeeps DEF IInv, PipeShapes
<1>7. CASE SendSyncEvent
  BY <1>7, SendSyncEventKeeps
<1>8. CASE WatchTimerExit
  <2>1. /\ UNCHANGED <<env, fs, queue, list, effects>> /\ UNCHANGED <<watch, consumer, main>>
        /\ timer' = "done" /\ timer = "idle"
    BY <1>8 DEF WatchTimerExit
  <2>2. ControlShapes' /\ Closing' /\ CtxDone' = CtxDone
    BY <2>1 DEF IInv, ControlShapes, Closing, CtxDone, AllDone
  <2> QED BY <2>1, <2>2, ControlKeeps DEF IInv, PipeShapes
<1>9. CASE Block
  <2>1. /\ UNCHANGED <<env, fs, queue, list, effects>> /\ UNCHANGED <<consumer, main>>
        /\ \/ watch = "idle" /\ watch' = "sending" /\ timer' = timer
           \/ timer = "idle" /\ timer' = "sending" /\ watch' = watch
    BY <1>9 DEF Block
  <2>2. ControlShapes' /\ Closing' /\ CtxDone' = CtxDone
    BY <2>1 DEF IInv, ControlShapes, Closing, CtxDone, AllDone
  <2> QED BY <2>1, <2>2, ControlKeeps DEF IInv, PipeShapes
<1>10. CASE Receive \/ TickEvent
  BY <1>10, ConsumerKeeps
<1>11. CASE Tick
  BY <1>11, TickKeeps
<1>12. CASE ConsumerExit
  <2>1. /\ UNCHANGED <<env, fs, queue, list, effects>> /\ UNCHANGED <<watch, timer, main>>
        /\ consumer' = "done" /\ consumer = "running"
    BY <1>12 DEF ConsumerExit, pipe
  <2>2. ControlShapes' /\ Closing' /\ CtxDone' = CtxDone
    BY <2>1 DEF IInv, ControlShapes, Closing, CtxDone, AllDone
  <2> QED BY <2>1, <2>2, ControlKeeps DEF IInv, PipeShapes
<1>13. CASE Environment
  BY <1>13, EnvironmentKeeps
<1>14. CASE UNCHANGED vars
  <2>1. /\ UNCHANGED <<env, fs, queue, list, effects>> /\ UNCHANGED <<watch, timer, consumer, main>>
    BY <1>14 DEF vars, pipe
  <2>2. ControlShapes' /\ Closing' /\ CtxDone' = CtxDone
    BY <2>1 DEF IInv, ControlShapes, Closing, CtxDone, AllDone
  <2> QED BY <2>1, <2>2, ControlKeeps DEF IInv, PipeShapes
<1> QED BY <1>1, <1>2, <1>3, <1>4, <1>5, <1>6, <1>7, <1>8, <1>9, <1>10, <1>11, <1>12, <1>13, <1>14
        DEF Next, Main, WatchFiles, ProcessRetries

\* The invariant is one of the daemon, whatever the VMs, the timers and the
\* goroutines do.
THEOREM Inductive == Spec => []IInv
BY InitKeeps, NextKeeps, PTL DEF Spec

\* A VM is quiet when its last event is handled, while the daemon is up.
LEMMA QuietMeans ==
    ASSUME PipeShapes, NEW v \in Files, Quiet(v)
    PROVE  ~CtxDone /\ Latest(v) = {}
<1>1. ~CtxDone
  BY DEF Quiet, CtxDone
<1>2. LastOf(fs, v) = {}
  BY LastNone DEF Quiet
<1>3. LastOf(Events(queue), v) = {}
  <2>1. \A i \in DOMAIN queue : queue[i].event.key # v
    BY DEF Quiet, Keys
  <2>2. DOMAIN Events(queue) = DOMAIN queue /\ \A i \in DOMAIN queue : Events(queue)[i] = queue[i].event
    BY DEF Events
  <2>3. \A i \in DOMAIN Events(queue) : Events(queue)[i].key # v
    BY <2>1, <2>2
  <2> QED BY <2>3, LastNone
<1>4. Ops(pending, v) = {} /\ Ops(todo, v) = {}
  BY OpsOfKeys DEF Quiet
<1> QED BY <1>1, <1>2, <1>3, <1>4 DEF Latest, LatestIn

\* Two lists without a common key, each without two entries of a key, have
\* none together.
LEMMA OnceTogether ==
    ASSUME NEW X, NEW p \in Seq(X), NEW t \in Seq(X), Once(p), Once(t), Keys(p) \cap Keys(t) = {}
    PROVE  Once(p \o t)
<1> DEFINE a == p \o t
           m == Len(p)
           n == Len(t)
<1>1. /\ m \in Nat /\ n \in Nat /\ DOMAIN p = 1..m /\ DOMAIN t = 1..n
      /\ a \in Seq(X) /\ Len(a) = m + n
      /\ \A i \in 1..(m + n) : a[i] = IF i <= m THEN p[i] ELSE t[i - m]
  BY LenProperties, ConcatProperties
<1>2. DOMAIN a = 1..(m + n)
  BY <1>1, LenProperties
<1> HIDE DEF a, m, n
<1>3. ASSUME NEW i \in 1..(m + n), NEW j \in 1..(m + n), i < j
      PROVE  a[i].event.key # a[j].event.key
  <2>1. CASE j <= m
    <3>1. i \in 1..m /\ j \in 1..m /\ i # j /\ i <= m
      BY <1>1, <1>3, <2>1
    <3>2. a[i] = p[i] /\ a[j] = p[j]
      BY <1>1, <2>1, <3>1
    <3> QED BY <1>1, <3>1, <3>2 DEF Once
  <2>2. CASE i <= m /\ ~(j <= m)
    <3>1. i \in 1..m /\ j - m \in 1..n
      BY <1>1, <2>2
    <3>2. a[i] = p[i] /\ a[j] = t[j - m]
      BY <1>1, <2>2
    <3>3. p[i].event.key \in Keys(p) /\ t[j - m].event.key \in Keys(t)
      BY <1>1, <3>1 DEF Keys
    <3> QED BY <3>2, <3>3
  <2>3. CASE ~(i <= m)
    <3>1. i - m \in 1..n /\ j - m \in 1..n /\ i - m # j - m /\ ~(j <= m)
      BY <1>1, <1>3, <2>3
    <3>2. a[i] = t[i - m] /\ a[j] = t[j - m]
      BY <1>1, <2>3, <3>1
    <3>3. t[i - m].event.key # t[j - m].event.key
      BY <1>1, <3>1 DEF Once
    <3> QED BY <3>2, <3>3
  <2> QED BY <1>1, <2>1, <2>2, <2>3
<1>4. \A i, j \in 1..(m + n) : i # j => i < j \/ j < i
  BY <1>1
<1>5. Once(a)
  BY <1>2, <1>3, <1>4 DEF Once
<1> QED BY <1>5 DEF a

\* Type correctness of the daemon; the queue keeps its size, and the lists of
\* retries never hold two entries for one VM.
THEOREM TypeCorrect == Spec => []TypeOK
<1>1. IInv => TypeOK
  <2> SUFFICES ASSUME IInv PROVE TypeOK
    OBVIOUS
  <2>1. Once(pending \o todo)
    BY OnceTogether DEF IInv, ListShapes
  <2> DEFINE all == pending \o todo
  <2>2. \A i, j \in DOMAIN all : i # j => all[i].event.key # all[j].event.key
    BY <2>1, Zenon DEF Once
  <2> HIDE DEF all
  <2>3. HostShapes /\ PipeShapes /\ ListShapes /\ ControlShapes /\ EffectShapes
    BY DEF IInv, Kernel
  <2>4. /\ host \in [Files -> HostState] /\ \A v \in Files : conf[v] \in Configs[v]
    BY <2>3 DEF HostShapes
  <2>5. /\ fs \in Seq(FileEvent) /\ watch \in {"idle", "sending", "done"}
        /\ timer \in {"idle", "sending", "done"}
        /\ queue \in Seq({Fresh(e) : e \in Event}) /\ Len(queue) <= QueueSize
    BY <2>3 DEF PipeShapes
  <2>6. pending \in Seq(RetryableEvent) /\ todo \in Seq(RetryableEvent)
    BY <2>3 DEF ListShapes
  <2> QED BY <2>2, <2>3, <2>4, <2>5, <2>6, Zenon DEF TypeOK, ControlShapes, EffectShapes, all
<1> QED BY <1>1, Inductive, PTL

\* The governor of every CPU is explained by the VMs: handleVMStop frees no
\* CPU that a bound VM still has, and what runs with the governor for busy
\* CPUs belongs to a tracked VM, or has left the tracker by a sync or a second
\* start, or by a stop that could not set the governor.
THEOREM BusyAccounted == Spec => []BusyExplained
<1>1. IInv => BusyExplained
  <2> SUFFICES ASSUME IInv PROVE BusyExplained
    OBVIOUS
  <2>1. Accounted
    BY DEF IInv, Kernel
  <2>2. ASSUME NEW v \in Files, Quiet(v), "threads" \in bound[v], v \notin missed
        PROVE  Governed(v) \subseteq busy
    <3>1. Settled(v)
      BY <2>2, QuietMeans DEF IInv, Handled
    <3> QED BY <2>2, <3>1 DEF Settled
  <2> QED BY <2>1, <2>2, Zenon DEF BusyExplained, Accounted
<1> QED BY <1>1, Inductive, PTL

\* The tracker agrees with the host about every VM whose events are handled.
THEOREM TrackerTrue == Spec => []TrackerTruthful
<1>1. IInv => TrackerTruthful
  <2> SUFFICES ASSUME IInv, NEW v \in Files, Quiet(v)
               PROVE  /\ host[v] = "off" => v \notin DOMAIN tracker
                      /\ host[v] = "running" /\ ~Mismatch(v)
                             => v \in DOMAIN tracker \cup missed
    BY DEF TrackerTruthful
  <2>1. Settled(v)
    BY QuietMeans DEF IInv, Handled
  <2> QED BY <2>1 DEF Settled, ProcessExists
<1> QED BY <1>1, Inductive, PTL

\* A running VM whose events are handled has its threads and interrupts bound,
\* unless its start was given up or met an error, or it is older than the daemon.
THEOREM BoundAtRest == Spec => []BoundInTheEnd
<1>1. IInv => BoundInTheEnd
  <2> SUFFICES ASSUME IInv, NEW v \in Files,
                      Quiet(v), host[v] = "running", ~Mismatch(v), v \notin missed
               PROVE  bound[v] = Wanted(v)
    BY DEF BoundInTheEnd
  <2>1. Settled(v)
    BY QuietMeans DEF IInv, Handled
  <2> QED BY <2>1 DEF Settled, ProcessExists
<1> QED BY <1>1, Inductive, PTL

\* Nothing is sent on the closed channel: every sender has returned before
\* Stop closes it, and none starts again.
THEOREM ClosedForGood == Spec => NoSendAfterClose
<1>1. IInv /\ [Next]_vars => [main = "closed" => queue' = queue]_vars
  <2> SUFFICES ASSUME IInv, Next, main = "closed" PROVE queue' = queue
    OBVIOUS
  <2>1. watch = "done" /\ timer = "done" /\ consumer = "done"
    BY DEF IInv, Closing, AllDone
  <2> QED BY <2>1 DEF Next, Main, Start, Stop, CloseQueue, Signal, WatchFiles, SendFileEvent,
        WatchFilesExit, SendSyncEvent, WatchTimerExit, Block, ProcessRetries, Receive, Tick,
        TickEvent, ConsumerExit, Environment, pipe
<1> QED BY <1>1, Inductive, PTL DEF NoSendAfterClose, Spec

===============================================================================
