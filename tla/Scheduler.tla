------------------------------ MODULE Scheduler ------------------------------
(***************************************************************************)
(* The daemon cmd/proxmox-scheduler: the goroutines of its reconciler and  *)
(* the handlers that pin the threads of VMs to CPUs and set the governor   *)
(* of these CPUs.                                                          *)
(*                                                                         *)
(* The VMs are the environment: QEMU writes its PID file before it has     *)
(* threads, and removes it when it exits, unless it is killed.  A handler  *)
(* reads the file and the process when it runs, not when the event         *)
(* happened.  One goroutine runs all handlers, each to its end.            *)
(***************************************************************************)
EXTENDS Reconciler, FiniteSets

CONSTANTS
    HostCPUs,       \* CPUs that a configuration may name
    TopologyCPUs,   \* CPUs of the discovered topology
    Configs,        \* per VM: configurations it may have, [affinity, cores]
    Early,          \* VMs that may run before the daemon does
    BadAffinity,    \* VMs with an affinity that cannot be parsed
    Passthrough,    \* VMs with PCI devices of the host
    GovernorBusy,   \* whether --cpu-governor-busy names a governor
    GovernorFree,   \* the same for --cpu-governor-free
    MaxWrites,      \* bound: PID files written
    SignalWrites,   \* bound: PID files written before the signal to stop
    MaxSyncs,       \* bound: events of the resync timer
    MaxFaults       \* bound: handlers that meet an error of the system, be it
                    \* returned or only logged

ASSUME SchedulerAssumption ==
    /\ TopologyCPUs \subseteq HostCPUs
    /\ IsFiniteSet(HostCPUs)
    /\ Configs \in [Files -> SUBSET [affinity : SUBSET HostCPUs, cores : Nat]]
    /\ \A v \in Files : Configs[v] # {}
    /\ Early \subseteq Files
    /\ BadAffinity \subseteq Files
    /\ Passthrough \subseteq Files
    /\ {GovernorBusy, GovernorFree} \subseteq BOOLEAN
    /\ MaxWrites \in Nat
    /\ SignalWrites \in Nat
    /\ MaxSyncs \in Nat
    /\ MaxFaults \in Nat

VARIABLES
    host,       \* per VM: what its PID file and its process are like
    conf,       \* per VM: its configuration while it has a PID file
    fs,         \* events that the kernel holds for the watcher
    watch,      \* watchFiles: "idle", "sending" the first event of fs, or "done"
    timer,      \* watchTimer: "idle", "sending" or "done"
    queue,      \* eventQueue, the channel
    pending,    \* the list of processRetries
    todo,       \* what is left of the list in the current tick
    consumer,   \* processRetries: "running" or "done"
    main,       \* "starting", "up", "cancelled", "stopped" or "closed"
    tracker,    \* VMTracker.vms: affinity of each tracked VM
    bound,      \* per VM: what has been bound to the CPUs of its affinity
    busy,       \* CPUs with the governor for busy CPUs
    leaked,     \* history: CPUs that left the tracker without being freed
    missed,     \* history: VMs whose current process was given up, skipped or
                \* not served in full
    writes, syncs, faults

env == <<host, conf, writes>>
pipe == <<fs, watch, timer, queue, syncs>>
list == <<pending, todo>>
effects == <<tracker, bound, busy, leaked, missed, faults>>
vars == <<env, pipe, list, consumer, main, effects>>

HostState == {"off", "booting", "partial", "running", "exited"}
ProcessExists(v) == host[v] \in {"booting", "partial", "running"}
HasThreads(v) == host[v] \in {"partial", "running"}

CtxDone == main \notin {"starting", "up"}

-------------------------------------------------------------------------------
(* Handlers.                                                               *)

Affinity(v) == IF v \in BadAffinity THEN {} ELSE conf[v].affinity

\* Each thread gets a CPU of its own only if the numbers agree.
Pinnable(v) ==
    Affinity(v) # {} /\ conf[v].cores = Cardinality(Affinity(v))

Mismatch(v) == Pinnable(v) /\ ~(Affinity(v) \subseteq TopologyCPUs)

\* Fails, with no thread moved, when QEMU has not started all threads yet.
\* taskset may fail for any of the threads otherwise (lost).
PinThreadsToCores(v, lost) ==
    (IF Pinnable(v) /\ host[v] = "running" THEN {"threads"} ELSE {}) \ lost

GetPciDeviceIRQs(v) == v \in Passthrough

\* The interrupts stay where they are when the command line or the interrupts
\* cannot be read, a device has none yet, or a write is refused (lost).
SetPciIRQAffinity(v, lost) ==
    (IF Affinity(v) # {} /\ GetPciDeviceIRQs(v) THEN {"irqs"} ELSE {}) \ lost

\* An error of the first is logged and the interrupts are bound nevertheless.
BoundBy(v, lost) == PinThreadsToCores(v, lost) \cup SetPciIRQAffinity(v, lost)

Wanted(v) ==
    (IF Pinnable(v) THEN {"threads"} ELSE {}) \cup SetPciIRQAffinity(v, {})

\* The CPUs that get the governor for busy CPUs when the VM starts.
Governed(v) == IF Pinnable(v) /\ GovernorBusy THEN Affinity(v) ELSE {}

\* CPUs with the governor for busy CPUs after some get one or the other.  It
\* stops at the first CPU that refuses, and at once if the governor is not
\* available, so some keep what they have (kept).
SetCPUGovernor(cpus, governor, kept) ==
    IF governor = "busy" THEN busy \cup (cpus \ kept) ELSE busy \ (cpus \ kept)

\* Whether the system fails the handler.
Faulty(fails) ==
    /\ fails => faults < MaxFaults
    /\ faults' = IF fails THEN faults + 1 ELSE faults

Tracked(t, v, cpus) ==
    [w \in DOMAIN t \cup {v} |-> IF w = v THEN cpus ELSE t[w]]

Untracked(t, v) == [w \in DOMAIN t \ {v} |-> t[w]]

\* updateVMInfo with its history: what the old entry named and the new one
\* does not is forgotten.
UpdateVMInfo(v) ==
    /\ tracker' = Tracked(tracker, v, Affinity(v))
    /\ leaked' = leaked \cup
           (IF v \in DOMAIN tracker THEN tracker[v] \ Affinity(v) ELSE {})

\* The errors of what it calls are logged, and the VM is tracked nevertheless.
HandleVMStart(v) ==
    /\ HasThreads(v)
    /\ v \notin BadAffinity
    /\ IF Mismatch(v)
       THEN missed' = missed \ {v} /\ UNCHANGED <<tracker, bound, busy, leaked, faults>>
       ELSE \E lost \in SUBSET BoundBy(v, {}), kept \in SUBSET Governed(v) :
            /\ Faulty(lost # {} \/ kept # {})
            /\ bound' = [bound EXCEPT ![v] = (@ \ lost) \cup BoundBy(v, lost)]
            /\ busy' = SetCPUGovernor(Governed(v), "busy", kept)
            /\ UpdateVMInfo(v)
            /\ missed' = IF \/ Pinnable(v) /\ host[v] = "partial"
                            \/ lost # {} \/ kept # {}
                         THEN missed \cup {v} ELSE missed \ {v}

\* No PID in the file, no process, no threads or no affinity to parse; or
\* the configuration cannot be read.
HandleVMStartFails(v) ==
    /\ \/ (~HasThreads(v) \/ v \in BadAffinity) /\ UNCHANGED faults
       \/ HasThreads(v) /\ Faulty(TRUE)
    /\ UNCHANGED <<tracker, bound, busy, leaked>>

\* Mutant: the governor of freed CPUs stays.
FreedCPUsNone(v) == {}

\* The CPUs of a stopped VM that no other tracked VM has.
FreedCPUs(v) ==
    tracker[v] \ UNION {tracker[w] : w \in DOMAIN tracker \ {v}}

\* The VM is off the tracker even if its CPUs could not be freed.
HandleVMStop(v) ==
    /\ IF v \in DOMAIN tracker
       THEN \E kept \in SUBSET FreedCPUs(v) :
            /\ ~GovernorFree => kept = FreedCPUs(v)
            /\ Faulty(GovernorFree /\ kept # {})
            /\ busy' = SetCPUGovernor(FreedCPUs(v), "free", kept)
            /\ tracker' = Untracked(tracker, v)
            /\ leaked' = leaked \cup kept
       ELSE UNCHANGED <<busy, tracker, leaked, faults>>
    /\ UNCHANGED <<bound, missed>>

GetRunningVMs == {v \in Files : ProcessExists(v)}

\* The running VMs are tracked afresh; nothing is pinned or governed.  The
\* configuration of one of them may be unreadable.
HandleSyncEvent ==
    \E unread \in {{}} \cup {{v} : v \in GetRunningVMs} :
        LET known == GetRunningVMs \ unread IN
        /\ Faulty(unread # {})
        /\ tracker' = [v \in known |-> Affinity(v)]
        /\ leaked' = leaked \cup ((UNION {tracker[v] : v \in DOMAIN tracker})
                                  \ (UNION {Affinity(v) : v \in known}))
        /\ missed' = missed \cup unread
        /\ UNCHANGED <<bound, busy>>

HandleSyncEventFails ==
    /\ Faulty(TRUE)
    /\ UNCHANGED <<tracker, bound, busy, leaked>>

\* The events of files that are no PID files do not get past this handler
\* and are left out.
Reconcile(event) ==
    \/ event.op = "written" /\ HandleVMStart(event.key)
    \/ event.op = "removed" /\ HandleVMStop(event.key)
    \/ event.op = "sync" /\ HandleSyncEvent

ReconcileFails(event, retry) ==
    /\ \/ event.op = "written" /\ HandleVMStartFails(event.key)
       \/ event.op = "sync" /\ HandleSyncEventFails
    /\ missed' = IF event.op = "written" /\ GivesUp(retry)
                 THEN missed \cup {event.key} ELSE missed

\* One attempt; rest is the list without the entry.
ProcessRetryableEvent(retry, rest) ==
    \/ Reconcile(retry.event) /\ pending' = Requeued(rest, retry, FALSE)
    \/ /\ ReconcileFails(retry.event, retry)
       /\ pending' = Requeued(rest, retry, TRUE)

-------------------------------------------------------------------------------
(* Goroutines.                                                             *)

\* Mutant: a full queue makes the sender wait.
SendBlocking(event) ==
    Len(queue) < QueueSize /\ queue' = Append(queue, Fresh(event))

\* SendEvent: the event is on the channel, or dropped because the reconciler
\* stops.  The flag stopped is read before the goroutine waits for room, so it
\* does not keep an event off the channel once it is set.
Send(event) ==
    \/ Len(queue) < QueueSize /\ queue' = Append(queue, Fresh(event))
    \/ CtxDone /\ UNCHANGED queue

Start ==
    /\ main = "starting"
    /\ Send(SyncEvent)
    /\ main' = "up"
    /\ UNCHANGED <<env, fs, watch, timer, syncs, list, consumer, effects>>

SendFileEvent ==
    /\ watch # "done"
    /\ fs # <<>>
    /\ Send(Head(fs))
    /\ fs' = Tail(fs)
    /\ watch' = "idle"
    /\ UNCHANGED <<env, timer, syncs, list, consumer, main, effects>>

\* The resync timer runs out at any time.
SendSyncEvent ==
    /\ timer = "sending" \/ (timer = "idle" /\ syncs < MaxSyncs /\ ~CtxDone)
    /\ Send(SyncEvent)
    /\ syncs' = IF timer = "idle" THEN syncs + 1 ELSE syncs
    /\ timer' = "idle"
    /\ UNCHANGED <<env, fs, watch, list, consumer, main, effects>>

\* The channel is full, SendEvent waits: the goroutine cannot do anything else.
Block ==
    /\ Len(queue) = QueueSize
    /\ \/ watch = "idle" /\ fs # <<>> /\ watch' = "sending"
          /\ UNCHANGED <<timer, syncs>>
       \/ timer = "idle" /\ syncs < MaxSyncs /\ ~CtxDone /\ timer' = "sending"
          /\ syncs' = syncs + 1 /\ UNCHANGED watch
    /\ UNCHANGED <<env, fs, queue, list, consumer, main, effects>>

WatchFilesExit ==
    /\ CtxDone
    /\ watch = "idle"
    /\ watch' = "done"
    /\ UNCHANGED <<env, fs, timer, queue, syncs, list, consumer, main, effects>>

WatchTimerExit ==
    /\ CtxDone
    /\ timer = "idle"
    /\ timer' = "done"
    /\ UNCHANGED <<env, fs, watch, queue, syncs, list, consumer, main, effects>>

\* processRetries between two ticks: a new event replaces an equal one that
\* waits, and is processed at once otherwise.
Receive ==
    /\ consumer = "running"
    /\ todo = <<>>
    /\ queue # <<>>
    /\ queue' = Tail(queue)
    /\ LET retry == Head(queue) IN
       IF Waits(pending, retry.event)
       THEN pending' = Replaced(pending, retry.event) /\ UNCHANGED effects
       ELSE ProcessRetryableEvent(retry, pending)
    /\ UNCHANGED <<env, fs, watch, timer, syncs, todo, consumer, main>>

Tick ==
    /\ consumer = "running"
    /\ todo = <<>>
    /\ pending # <<>>
    /\ todo' = pending
    /\ pending' = <<>>
    /\ UNCHANGED <<env, pipe, consumer, main, effects>>

\* The loop over the list in one tick, entry by entry.
TickEvent ==
    /\ todo # <<>>
    /\ todo' = Tail(todo)
    /\ LET retry == Head(todo) IN
       IF retry.wait = 0
       THEN ProcessRetryableEvent(retry, pending)
       ELSE /\ pending' = Append(pending, [retry EXCEPT !.wait = @ - 1])
            /\ UNCHANGED effects
    /\ UNCHANGED <<env, pipe, consumer, main>>

ConsumerExit ==
    /\ consumer = "running"
    /\ CtxDone
    /\ todo = <<>>
    /\ consumer' = "done"
    /\ UNCHANGED <<env, pipe, list, main, effects>>

\* A signal: scheduler() cancels the context ...
Signal ==
    /\ main = "up"
    /\ writes <= SignalWrites
    /\ main' = "cancelled"
    /\ UNCHANGED <<env, pipe, list, consumer, effects>>

\* ... and calls Stop, which closes the channel after all goroutines.
Stop ==
    /\ main = "cancelled"
    /\ main' = "stopped"
    /\ UNCHANGED <<env, pipe, list, consumer, effects>>

\* Mutant: the watchers are not waited for.
AllDoneButWatchers == consumer = "done"

AllDone == watch = "done" /\ timer = "done" /\ consumer = "done"

CloseQueue ==
    /\ main = "stopped"
    /\ AllDone
    /\ main' = "closed"
    /\ UNCHANGED <<env, pipe, list, consumer, effects>>

-------------------------------------------------------------------------------
(* The VMs, until the daemon is told to stop.                              *)

DefaultConfig(v) == CHOOSE c \in Configs[v] : TRUE

Notify(v, op) == fs' = Append(fs, [key |-> v, op |-> op])

\* The PID file is created, or the stale file of a process that was killed
\* is written again.
Boot(v) ==
    /\ host[v] \in {"off", "exited"}
    /\ writes < MaxWrites
    /\ writes' = writes + 1
    /\ \E c \in Configs[v] : conf' = [conf EXCEPT ![v] = c]
    /\ host' = [host EXCEPT ![v] = "booting"]
    /\ Notify(v, "written")

\* Another event for the same start: the PID is written into the file.
WritePID(v) ==
    /\ host[v] = "booting"
    /\ writes < MaxWrites
    /\ writes' = writes + 1
    /\ Notify(v, "written")
    /\ UNCHANGED <<host, conf>>

StartThreads(v) ==
    /\ \/ host[v] = "booting" /\ host' = [host EXCEPT ![v] = "partial"]
       \/ host[v] = "partial" /\ host' = [host EXCEPT ![v] = "running"]
    /\ UNCHANGED <<conf, writes, fs>>

RemovePIDFile(v) ==
    /\ host[v] = "exited"
    /\ host' = [host EXCEPT ![v] = "off"]
    /\ conf' = [conf EXCEPT ![v] = DefaultConfig(v)]
    /\ Notify(v, "removed")
    /\ UNCHANGED writes

Exit(v) ==
    /\ ProcessExists(v)
    /\ host' = [host EXCEPT ![v] = "exited"]
    /\ bound' = [bound EXCEPT ![v] = {}]
    /\ missed' = missed \ {v}
    /\ UNCHANGED <<conf, writes, fs, tracker, busy, leaked, faults>>

Environment ==
    \E v \in Files :
        /\ \/ (Boot(v) \/ WritePID(v) \/ StartThreads(v) \/ RemovePIDFile(v))
              /\ UNCHANGED effects
           \/ Exit(v)
        /\ ~CtxDone
        /\ UNCHANGED <<watch, timer, queue, syncs, list, consumer, main>>

-------------------------------------------------------------------------------

\* VMs may be running when the daemon starts; no event tells of them.
Init ==
    /\ host \in {h \in [Files -> {"off", "running"}] :
                    \A v \in Files \ Early : h[v] = "off"}
    /\ conf \in {f \in [Files -> UNION {Configs[v] : v \in Files}] :
                    \A v \in Files : f[v] \in IF host[v] = "running"
                                             THEN Configs[v]
                                             ELSE {DefaultConfig(v)}}
    /\ fs = <<>>
    /\ watch = "idle"
    /\ timer = "idle"
    /\ queue = <<>>
    /\ pending = <<>>
    /\ todo = <<>>
    /\ consumer = "running"
    /\ main = "starting"
    /\ tracker = [v \in {} |-> {}]
    /\ bound = [v \in Files |-> {}]
    /\ busy = {}
    /\ leaked = {}
    /\ missed = {v \in Files : host[v] = "running"}
    /\ writes = Cardinality({v \in Files : host[v] = "running"})
    /\ syncs = 0
    /\ faults = 0

Main == Start \/ Stop \/ CloseQueue
WatchFiles == SendFileEvent \/ WatchFilesExit
WatchTimer == (timer = "sending" /\ SendSyncEvent) \/ WatchTimerExit
ProcessRetries == Receive \/ Tick \/ TickEvent \/ ConsumerExit

Next ==
    \/ Main \/ Signal
    \/ WatchFiles \/ SendSyncEvent \/ WatchTimerExit \/ Block
    \/ ProcessRetries
    \/ Environment

Spec == Init /\ [][Next]_vars

\* Every goroutine runs when it can; signals, timers and VMs do as they like.
Fairness ==
    WF_vars(Main) /\ WF_vars(WatchFiles) /\ WF_vars(WatchTimer)
        /\ WF_vars(ProcessRetries)

FairSpec == Spec /\ Fairness

-------------------------------------------------------------------------------
(* Properties.                                                             *)

Keys(entries) == {entries[i].event.key : i \in DOMAIN entries}

\* Nothing that concerns k is on its way to a handler.
Quiet(k) ==
    /\ main = "up"
    /\ k \notin Keys(queue) \cup Keys(pending) \cup Keys(todo)
    /\ \A i \in DOMAIN fs : fs[i].key # k
    /\ k = "sync" => timer # "sending"

\* Types of the variables.  Events that wait have attempts left, and no two of
\* them could be merged: a file is not handled twice in a tick, so an older
\* event cannot win over a newer one.
TypeOK ==
    /\ host \in [Files -> HostState]
    /\ \A v \in Files : conf[v] \in Configs[v]
    /\ fs \in Seq(FileEvent)
    /\ watch \in {"idle", "sending", "done"}
    /\ timer \in {"idle", "sending", "done"}
    /\ queue \in Seq({Fresh(e) : e \in Event}) /\ Len(queue) <= QueueSize
    /\ pending \in Seq(RetryableEvent)
    /\ todo \in Seq(RetryableEvent)
    /\ consumer \in {"running", "done"}
    /\ main \in {"starting", "up", "cancelled", "stopped", "closed"}
    /\ DOMAIN tracker \subseteq Files
    /\ \A v \in DOMAIN tracker : tracker[v] \subseteq HostCPUs
    /\ bound \in [Files -> SUBSET {"threads", "irqs"}]
    /\ busy \subseteq HostCPUs
    /\ leaked \subseteq HostCPUs
    /\ missed \subseteq Files
    /\ LET all == pending \o todo IN
       \A i, j \in DOMAIN all : i # j => all[i].event.key # all[j].event.key

\* The governor of a CPU is explained by the VMs, both ways.  A CPU that runs
\* with the governor for busy CPUs belongs to a tracked VM, whose stop will free
\* it, unless a sync or a second start took it off the tracker or its stop could
\* not free it (leaked).  And once all events of a VM are handled that was served
\* without an error, neither handleVMStop of another VM nor late events of an
\* earlier process nor syncs have taken its CPUs away.
BusyExplained ==
    /\ busy \subseteq (UNION {tracker[v] : v \in DOMAIN tracker}) \cup leaked
    /\ \A v \in Files :
           Quiet(v) /\ "threads" \in bound[v] /\ v \notin missed
               => Governed(v) \subseteq busy

\* Once all events of a VM and the syncs are handled, the tracker knows the
\* VM if it runs and does not know it if it has stopped.
TrackerTruthful ==
    \A v \in Files :
        Quiet(v) /\ Quiet("sync") =>
            /\ host[v] = "off" => v \notin DOMAIN tracker
            /\ host[v] = "running" /\ ~Mismatch(v)
                   => v \in DOMAIN tracker \cup missed

\* Once all events of a VM are handled, its threads and interrupts are bound,
\* unless its retries ran out, handleVMStart came when only some of its threads
\* existed or met an error, which it logs and does not try again, or the VM was
\* running before the daemon (missed).
BoundInTheEnd ==
    \A v \in Files :
        Quiet(v) /\ host[v] = "running" /\ ~Mismatch(v) /\ v \notin missed
            => bound[v] = Wanted(v)

\* Nothing is sent once Stop has closed the channel: in Go that is a panic.
NoSendAfterClose == [][main = "closed" => queue' = queue]_vars

\* The daemon comes to rest: every event is handled or given up in the end,
\* also when its PID file stays behind a dead process.
Drains ==
    (\E k \in Files \cup {"sync"} : ~Quiet(k)) ~>
        (CtxDone \/ \A k \in Files \cup {"sync"} : Quiet(k))

\* After a signal Stop returns, whoever is waiting for room in the channel.
StopTerminates == (main = "cancelled") ~> (main = "closed")

===============================================================================
