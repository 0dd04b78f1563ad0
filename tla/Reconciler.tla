------------------------------ MODULE Reconciler ------------------------------
(***************************************************************************)
(* The data of pkg/utils/reconciler: events, the channel they are sent     *)
(* through and the list of events that wait for a retry.  Only the         *)
(* consumer goroutine touches that list, so its updates are operators;     *)
(* module Scheduler has the goroutines.                                    *)
(*                                                                         *)
(* Time is counted in ticks of the retry ticker: an entry is due when its  *)
(* wait is 0.                                                              *)
(***************************************************************************)
EXTENDS Naturals, Sequences

CONSTANTS
    Files,          \* the PID files, one for each VM
    QueueSize,      \* capacity of eventQueue (100 in the code)
    MaxRetries,     \* --max-retries (5)
    BaseDelay,      \* ticks before the first retry (2)
    MaxDelay        \* upper bound of the delay (30)

ASSUME ReconcilerAssumption ==
    /\ QueueSize \in Nat \ {0}
    /\ MaxRetries \in Nat
    /\ BaseDelay \in Nat
    /\ MaxDelay \in Nat
    /\ "sync" \notin Files

\* A file event carries the operation that fsnotify reported: a removal, or
\* one of create and write, which the handler does not tell apart.
FileEvent == [key : Files, op : {"written", "removed"}]
SyncEvent == [key |-> "sync", op |-> "sync"]
Event == FileEvent \cup {SyncEvent}

RetryableEvent ==
    [event : Event, attempts : 0..MaxRetries, wait : 0..MaxDelay]

\* Events merge by type and key; the key of a sync event is no file's.
Equal(e, f) == e.key = f.key

-------------------------------------------------------------------------------

\* The event as SendEvent puts it on the channel.
Fresh(event) == [event |-> event, attempts |-> 0, wait |-> 0]

Backoff(attempts) ==
    LET delay == BaseDelay * 2^attempts
    IN  IF delay < MaxDelay THEN delay ELSE MaxDelay

\* Mutant: one attempt too many.
GivesUpLate(retry) == retry.attempts > MaxRetries

\* The last attempt has failed: "permanently failed", the event is dropped.
GivesUp(retry) == retry.attempts >= MaxRetries

\* Mutant: the attempts are not counted.
RetriedUncounted(retry) == [retry EXCEPT !.wait = Backoff(retry.attempts)]

\* The entry that a failed attempt leaves behind.
Retried(retry) ==
    [event    |-> retry.event,
     attempts |-> retry.attempts + 1,
     wait     |-> Backoff(retry.attempts)]

\* Mutant: a failed event is forgotten.
RequeuedNever(list, retry, failed) == list

\* The list after an attempt on an entry that was taken off it.
Requeued(list, retry, failed) ==
    IF failed /\ ~GivesUp(retry) THEN Append(list, Retried(retry)) ELSE list

\* A new event waits in the list when an equal one does ...
Waits(list, event) ==
    \E i \in DOMAIN list : Equal(list[i].event, event)

\* Mutant: the older event stays.
ReplacedByOlder(list, event) == list

\* ... and takes its place, with the number of attempts reset.
Replaced(list, event) ==
    LET i == CHOOSE i \in DOMAIN list :
                 /\ Equal(list[i].event, event)
                 /\ \A j \in 1..(i - 1) : ~Equal(list[j].event, event)
    IN  [list EXCEPT ![i] = Fresh(event)]

===============================================================================
