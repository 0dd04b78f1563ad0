--------------------------- MODULE CapacityLedger ---------------------------
(***************************************************************************)
(* What an allocation policy promises to the callers of the resource       *)
(* manager, without saying how it keeps count: a table of the VMs that are *)
(* booked on a node, and the memory they leave.  A booking takes only what *)
(* is free, and a VM that goes gives back exactly what it was booked with. *)
(***************************************************************************)
EXTENDS Naturals

CONSTANTS VM, Capacity

VARIABLES
    held,     \* per VM: the memory and the counted CPUs it is booked with
    free,     \* memory that is reported as available
    counted   \* number of CPUs taken from the common pool

Nothing == [memory |-> 0, cpus |-> 0]

Init ==
    /\ held = [v \in VM |-> Nothing]
    /\ free = Capacity
    /\ counted = 0

Book(v) ==
    /\ held[v] = Nothing /\ held'[v] # Nothing
    /\ held' = [held EXCEPT ![v] = held'[v]]
    /\ held'[v].memory <= free
    /\ free' = free - held'[v].memory
    /\ counted' = counted + held'[v].cpus

Drop(v) ==
    /\ held[v] # Nothing
    /\ held' = [held EXCEPT ![v] = Nothing]
    /\ free' = free + held[v].memory
    /\ counted' = counted - held[v].cpus

Next == \E v \in VM : Book(v) \/ Drop(v)

Spec == Init /\ [][Next]_<<held, free, counted>>

=============================================================================
