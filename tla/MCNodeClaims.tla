----------------------------- MODULE MCNodeClaims -----------------------------
(* Small instances of NodeClaims for TLC.                                  *)
EXTENDS NodeClaims

\* Each zone has its own template.  One that is removed frees its ID for the other.
MCZones == {"z1", "z2"}
MCFirstIDs == [z \in MCZones |-> IF z = "z1" THEN 101 ELSE 102]

\* The first specification; one that differs in every field that is updated in
\* place; one that has to be built anew and names no pool.
MCSpec(rev, x, pool) ==
    [rev |-> rev, tags |-> x, rules |-> x, pool |-> pool, cdrom |-> TRUE]
MCFirst == MCSpec(1, 1, "a")
MCSpecs == {MCFirst, MCSpec(1, 2, "b"), MCSpec(2, 2, None)}
===============================================================================
