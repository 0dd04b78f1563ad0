----------------------------- MODULE CPUTopology -----------------------------
(***************************************************************************)
(* What the provider believes about the CPUs of a Proxmox node.            *)
(*                                                                         *)
(* Proxmox reports the CPU model and the number of CPUs, cores and sockets *)
(* of a node.  nodesettings/cpu.go guesses the NUMA nodes and the L3       *)
(* ("uncore") caches from them, and topology/discovery.go spreads the CPU  *)
(* numbers over NUMA nodes, sockets, cores and caches by arithmetic.  A    *)
(* settings file may replace any part of the guess.                        *)
(*                                                                         *)
(* A node is a record with the fields                                      *)
(*   family      "intel", "amd" or "epyc"                                  *)
(*   series      the second digit of an EPYC model number                  *)
(*   generation  its fourth digit                                          *)
(*   cores, sockets, cpus                                                  *)
(***************************************************************************)
EXTENDS Integers, FiniteSets, FiniteSetsExt, Functions

AtLeastOne(n) == IF n < 1 THEN 1 ELSE n

-----------------------------------------------------------------------------
(* Settings guessed from the CPU model.                                      *)

\* Cores that share an L3 cache, zero when the series is not known.
CoresPerCCX(series) ==
    IF series \in {2, 3} THEN 4
    ELSE IF series = 4 THEN 6
    ELSE IF series \in 5..8 THEN 8 ELSE 0

\* Zero stands for "not known": discovery then assumes one cache.
NumUncoreCaches(n) ==
    IF n.family = "intel" THEN n.sockets
    ELSE IF n.family = "epyc" /\ CoresPerCCX(n.series) > 0
         THEN (n.cores \div n.sockets) \div CoresPerCCX(n.series) ELSE 0

NumNUMANodes(n) ==
    n.sockets * (IF n.family = "epyc" /\ n.generation \in {1, 2, 4, 5} THEN 4 ELSE 1)

\* NUMA node i holds a block of cores, and their second threads.
GuessedNUMANode(n, i) ==
    LET size  == n.cores \div NumNUMANodes(n)
        block == (i * size) .. ((i + 1) * size - 1)
    IN  IF n.cpus \div n.cores > 1 THEN block \cup {c + n.cores : c \in block} ELSE block

GetNodeSettingByNode(n) ==
    [ sockets |-> n.sockets,
      threads |-> n.cpus \div n.cores,
      caches  |-> NumUncoreCaches(n),
      numa    |-> [i \in 0..(NumNUMANodes(n) - 1) |-> GuessedNUMANode(n, i)] ]

-----------------------------------------------------------------------------
(* The topology built from the settings: the totals, and for every CPU its   *)
(* place on each level.                                                      *)

DiscoverFromSettings(st) ==
    LET nodes    == DOMAIN st.numa
        cpus     == UNION {st.numa[i] : i \in nodes}
        nCores   == MapThenSumSet(LAMBDA i : Cardinality(st.numa[i]) \div AtLeastOne(st.threads), nodes)
        nSockets == AtLeastOne(st.sockets)
        Core(c)  == IF c >= nCores THEN c - nCores ELSE c
        details  == [c \in cpus |->
            [ cpu    |-> c,
              numa   |-> CHOOSE i \in nodes : c \in st.numa[i],
              socket |-> (c \div AtLeastOne(nCores \div nSockets)) % nSockets,
              core   |-> Core(c),
              cache  |-> Core(c) \div AtLeastOne(nCores \div AtLeastOne(st.caches)) ]]
    IN  [ numCPUs    |-> Cardinality(cpus),
          numCores   |-> nCores,
          numSockets |-> nSockets,
          numNUMA    |-> Cardinality({details[c].numa : c \in cpus}),
          numCaches  |-> Cardinality({details[c].cache : c \in cpus}),
          details    |-> details ]

\* Averages: the code divides the totals, whatever the single core, socket or
\* cache looks like.
CPUsPerCore(topo) == IF topo.numCores = 0 THEN 0 ELSE topo.numCPUs \div topo.numCores

CPUsPerSocket(topo) == IF topo.numSockets = 0 THEN 0 ELSE topo.numCPUs \div topo.numSockets

CPUsPerUncore(topo) == IF topo.numCaches = 0 THEN 0 ELSE topo.numCPUs \div topo.numCaches

-----------------------------------------------------------------------------
(* Queries on CPUDetails.  A level is one of the fields of a detail.         *)

KeepOnly(details, cpus) == Restrict(details, DOMAIN details \cap cpus)

IDs(details, level) == {details[c][level] : c \in DOMAIN details}

CPUsIn(details, level, id) == {c \in DOMAIN details : details[c][level] = id}

IDsIn(details, lower, upper, id) == {details[c][lower] : c \in CPUsIn(details, upper, id)}

\* All cores of the cache, or the first `needed` of them.
CoresNeededInUncoreCache(details, needed, cache) ==
    LET cores == IDsIn(details, "core", "cache", cache)
    IN  {c \in cores : Cardinality({b \in cores : b < c}) < needed}

=============================================================================
