---------------------------- MODULE CPUAssignment ----------------------------
(***************************************************************************)
(* How the static policy picks the CPUs of a new VM: takeByTopology of     *)
(* cpumanager/cpu_assignment.go with the options of NewStaticPolicy (pack, *)
(* do not distribute, prefer to align on uncore caches).                   *)
(*                                                                         *)
(* One behaviour is one call.  The accumulator `acc` holds the free CPUs   *)
(* (`details`), how many are still needed and the CPUs taken.  The call    *)
(* goes through stages, from large units to small ones, and returns as     *)
(* soon as nothing more is needed; every stage is an action.               *)
(***************************************************************************)
EXTENDS CPUTopology, SequencesExt

CONSTANTS Settings,  \* the node settings to consider
          Requests   \* the numbers of CPUs to ask for

VARIABLES topo,       \* CPUTopology of the node
          available,  \* the CPUs the policy offers
          numCPUs,    \* the CPUs asked for
          acc,        \* the accumulator
          stage       \* what comes next, or how the call ended

vars == <<topo, available, numCPUs, acc, stage>>

Stages == {"start", "first", "second", "uncore", "cores", "remaining", "done", "failed"}

-----------------------------------------------------------------------------
(* Orders.  Units of a level come with the fewest free CPUs first, then by   *)
(* number; below a unit of a higher level, within it.                        *)

Before(details, level, x, y) ==
    LET size(u) == Cardinality(CPUsIn(details, level, u))
    IN  size(x) < size(y) \/ (size(x) = size(y) /\ x < y)

Sorted(details, level, ids) ==
    [k \in 1..Cardinality(ids) |->
        CHOOSE x \in ids : Cardinality({y \in ids : Before(details, level, y, x)}) = k - 1]

SortedWithin(details, upper, uppers, lower) ==
    FlattenSeq([k \in DOMAIN uppers |-> Sorted(details, lower, IDsIn(details, lower, upper, uppers[k]))])

\* NUMA nodes come above sockets unless there are more of them.
FirstLevel == IF topo.numSockets >= topo.numNUMA THEN "numa" ELSE "socket"

SecondLevel == IF FirstLevel = "numa" THEN "socket" ELSE "numa"

SortFirstLevel(details) == Sorted(details, FirstLevel, IDs(details, FirstLevel))

SortSecondLevel(details) == SortedWithin(details, FirstLevel, SortFirstLevel(details), SecondLevel)

SortAvailableNUMANodes(details) ==
    IF FirstLevel = "numa" THEN SortFirstLevel(details) ELSE SortSecondLevel(details)

SortAvailableUncoreCaches(details) ==
    SortedWithin(details, "numa", SortAvailableNUMANodes(details), "cache")

SortAvailableCores(details) ==
    SortedWithin(details, SecondLevel, SortSecondLevel(details), "core")

SortAvailableCPUsPacked(details) ==
    SortedWithin(details, "core", SortAvailableCores(details), "cpu")

-----------------------------------------------------------------------------
(* The accumulator.                                                          *)

NewCPUAccumulator(t, cpus, n) ==
    [details |-> KeepOnly(t.details, cpus), needed |-> n, result |-> {}]

\* Mutant: what was taken stays on offer.
TakeKeepingOffer(a, cpus) ==
    [details |-> a.details, needed |-> a.needed - Cardinality(cpus), result |-> a.result \cup cpus]

Take(a, cpus) ==
    [ details |-> KeepOnly(a.details, DOMAIN a.details \ (a.result \cup cpus)),
      needed  |-> a.needed - Cardinality(cpus),
      result  |-> a.result \cup cpus ]

IsSatisfied(a) == a.needed < 1

IsFailed(a) == a.needed > Cardinality(DOMAIN a.details)

\* NUMA nodes and caches are compared with their own size, sockets and cores
\* with the average.
IsFree(details, level, id) ==
    Cardinality(CPUsIn(details, level, id)) =
        (IF level = "socket" THEN CPUsPerSocket(topo)
         ELSE IF level = "core" THEN CPUsPerCore(topo)
         ELSE Cardinality(CPUsIn(topo.details, level, id)))

\* Takes every free unit of the level that is not larger than the need.  The
\* list of free units is made once, before the first one is taken.
TakeFull(a, level, order) ==
    LET free == SelectSeq(order, LAMBDA id : IsFree(a.details, level, id))
        TakeUnit(b, id) ==
            LET cpus == CPUsIn(topo.details, level, id)
            IN  IF b.needed >= Cardinality(cpus) THEN Take(b, cpus) ELSE b
    IN  FoldLeft(TakeUnit, a, free)

-----------------------------------------------------------------------------
(* Uncore caches.                                                            *)

TakeFullUncore(a) == TakeFull(a, "cache", SortAvailableUncoreCaches(a.details))

\* Mutant: CPUs are counted instead of cores.
PartialUncoreByCPU(a, cache) ==
    LET cpus == CPUsIn(a.details, "cache", cache)
    IN  {c \in cpus : Cardinality({b \in cpus : b < c}) < a.needed}

\* The CPUs takePartialUncore would take: all free ones of the first cores that
\* could do; an odd request leaves the last CPU out if there is one too many.
PartialUncore(a, cache) ==
    LET perCore == CPUsPerCore(topo)
        cores   == CoresNeededInUncoreCache(a.details, (a.needed + perCore - 1) \div perCore, cache)
        cpus    == {c \in DOMAIN a.details : a.details[c].core \in cores}
    IN  IF a.needed % 2 # 0 /\ perCore > 1 /\ Cardinality(cpus) > a.needed
        THEN cpus \ {Max(cpus)} ELSE cpus

\* Mutant: less than the need is claimed as well.
TakePartialUncoreShort(a, cache) ==
    IF Cardinality(PartialUncore(a, cache)) <= a.needed THEN Take(a, PartialUncore(a, cache)) ELSE a

TakePartialUncore(a, cache) ==
    IF Cardinality(PartialUncore(a, cache)) = a.needed THEN Take(a, PartialUncore(a, cache)) ELSE a

TakeUncoreCache(a) ==
    LET TakeFrom(b, cache) ==
            LET full == IF b.needed >= CPUsPerUncore(topo) THEN TakeFullUncore(b) ELSE b
            IN  IF IsSatisfied(full) THEN full ELSE TakePartialUncore(full, cache)
    IN  FoldLeft(LAMBDA b, cache : IF IsSatisfied(b) THEN b ELSE TakeFrom(b, cache),
                 a, SortAvailableUncoreCaches(a.details))

\* Single CPUs, until there are enough.
TakeRemaining(a) ==
    FoldLeft(LAMBDA b, cpu : IF IsSatisfied(b) THEN b ELSE Take(b, {cpu}),
             a, SortAvailableCPUsPacked(a.details))

-----------------------------------------------------------------------------
(* The call.                                                                 *)

Init ==
    /\ \E st \in Settings : topo = DiscoverFromSettings(st)
    /\ available \in SUBSET DOMAIN topo.details
    /\ numCPUs \in Requests
    /\ acc = NewCPUAccumulator(topo, available, numCPUs)
    /\ stage = "start"

Begin ==
    /\ stage = "start"
    /\ stage' = IF IsSatisfied(acc) THEN "done" ELSE IF IsFailed(acc) THEN "failed" ELSE "first"
    /\ UNCHANGED <<topo, available, numCPUs, acc>>

Step(now, taken, next) ==
    /\ stage = now
    /\ acc' = taken
    /\ stage' = IF IsSatisfied(taken) THEN "done" ELSE next
    /\ UNCHANGED <<topo, available, numCPUs>>

TakeFullFirstLevel ==
    Step("first", TakeFull(acc, FirstLevel, SortFirstLevel(acc.details)), "second")

TakeFullSecondLevel ==
    Step("second", TakeFull(acc, SecondLevel, SortSecondLevel(acc.details)), "uncore")

TakeUncoreCaches == Step("uncore", TakeUncoreCache(acc), "cores")

TakeFullCores == Step("cores", TakeFull(acc, "core", SortAvailableCores(acc.details)), "remaining")

TakeRemainingCPUs == Step("remaining", TakeRemaining(acc), "failed")

Next ==
    \/ Begin
    \/ TakeFullFirstLevel
    \/ TakeFullSecondLevel
    \/ TakeUncoreCaches
    \/ TakeFullCores
    \/ TakeRemainingCPUs

Spec == Init /\ [][Next]_vars

-----------------------------------------------------------------------------
(* Properties.                                                               *)

\* A cache whose CPUs belong to several NUMA nodes.  The list of caches names it
\* once for each of them.
Crossing(k) == Cardinality(IDsIn(topo.details, "numa", "cache", k)) > 1

\* A crossing cache that fits twice into the request may be counted twice.
CountedTwice ==
    \E k \in IDs(topo.details, "cache") :
        Crossing(k) /\ 2 * Cardinality(CPUsIn(topo.details, "cache", k)) <= numCPUs

\* takeByTopology "returns a CPUSet containing numCPUs CPUs" of those available
\* (cpu_assignment.go:728).  What holds of it: every offered CPU is either taken
\* or still on offer, whatever the lists made before the first take and the
\* averages a free unit is compared with; a call fails only if fewer CPUs were
\* offered than asked for; and what was taken and what is still needed add up to
\* the request, so that a call that succeeds returns exactly that many, unless a
\* cache crosses NUMA nodes and fits twice into the request.  Such a cache is
\* listed once per NUMA node and taken again: the second take adds no CPU to the
\* result and lowers the need, and the call returns too few CPUs, never too
\* many and never none.
TakesWhatWasAsked ==
    /\ acc.result \cup DOMAIN acc.details = available
    /\ acc.result \cap DOMAIN acc.details = {}
    /\ acc.needed \in Nat
    /\ acc.needed + Cardinality(acc.result) <= numCPUs
    /\ ~CountedTwice => acc.needed + Cardinality(acc.result) = numCPUs
    /\ stage = "done" => acc.needed = 0 /\ (numCPUs > 0 => acc.result # {})
    /\ stage = "failed" => numCPUs > Cardinality(available)

WholeCore(cpus, core) == CPUsIn(topo.details, "core", core) \subseteq cpus

\* A call breaks up at most one core that was free before it: odd requests
\* cost one half core, wherever the CPUs come from and in however many stages
\* they are collected.
OneSplitCore ==
    Cardinality({k \in IDs(topo.details, "core") :
                    /\ WholeCore(available, k)
                    /\ acc.result \cap CPUsIn(topo.details, "core", k) # {}
                    /\ ~WholeCore(acc.result, k)}) <= 1

Caches(cpus) == {topo.details[c].cache : c \in cpus}

\* On a node whose caches lie within NUMA nodes, and as long as no core is half
\* used, a request that fits into the free CPUs of some cache is served from a
\* single cache (PreferAlignByUncoreCache).
OneCacheWhenItFits ==
    ( /\ stage = "done"
      /\ \A k \in Caches(available) : ~Crossing(k)
      /\ \A c \in available : WholeCore(available, topo.details[c].core)
      /\ \E k \in Caches(available) :
            Cardinality(CPUsIn(topo.details, "cache", k) \cap available) >= numCPUs )
    => Cardinality(Caches(acc.result)) <= 1

=============================================================================
