--------------------------- MODULE MCCPUAssignment ---------------------------
(***************************************************************************)
(* Node models for CPUAssignment: each way the settings of a node come     *)
(* about, on eight CPUs at most, so that every set of free CPUs and every  *)
(* request can be tried, and at its real size the twelve core EPYC 7272    *)
(* with SMT switched off, whose three caches lie across four NUMA nodes.   *)
(***************************************************************************)
EXTENDS CPUAssignment

Node(family, series, generation, cores, sockets, cpus) ==
    [family |-> family, series |-> series, generation |-> generation,
     cores |-> cores, sockets |-> sockets, cpus |-> cpus]

MCNodes ==
    { Node("intel", 0, 0, 4, 2, 8),    \* a cache and a NUMA node per socket, SMT
      Node("amd",   0, 0, 4, 2, 8),    \* one cache assumed over two NUMA nodes
      Node("epyc",  2, 2, 8, 1, 8),    \* four NUMA nodes, two to a cache
      Node("epyc",  2, 3, 8, 1, 8),    \* one NUMA node with two caches
      Node("epyc",  2, 2, 12, 1, 12) } \* four NUMA nodes of three CPUs, caches of four

\* Settings files: a NUMA node with two sockets, and one with two caches, SMT.
MCFiles ==
    { [sockets |-> 2, threads |-> 2, caches |-> 2, numa |-> [i \in {0} |-> 0..7]],
      [sockets |-> 1, threads |-> 2, caches |-> 2, numa |-> [i \in {0} |-> 0..7]] }

MCSettings == {GetNodeSettingByNode(n) : n \in MCNodes} \cup MCFiles

=============================================================================
