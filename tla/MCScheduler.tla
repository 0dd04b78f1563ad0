----------------------------- MODULE MCScheduler -----------------------------
(* The constants of the runs: two VMs, one pinned to CPUs 0 and 1, the other *)
(* to CPU 1 or to a CPU outside of the topology.                             *)
EXTENDS Scheduler

CONSTANTS v1, v2

MCConfigs ==
    [v \in {v1, v2} |->
        IF v = v1 THEN {[affinity |-> {0, 1}, cores |-> 2]}
        ELSE {[affinity |-> {1}, cores |-> 1], [affinity |-> {2}, cores |-> 1]}]

===============================================================================
