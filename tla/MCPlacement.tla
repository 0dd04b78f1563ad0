----------------------------- MODULE MCPlacement -----------------------------
(* Two regions with a zone of the same name and two types.  Either one claim  *)
(* is for any zone and all regions and the other for a named zone and a class *)
(* with a region, or there is only one claim that some type is large enough   *)
(* for, and it excludes a zone and names a region.                            *)
EXTENDS Placement

CONSTANTS c1, c2, r1, r2, a, b

MCLocations == {<<r1, a>>, <<r1, b>>, <<r2, a>>}
MCTypes == {[name |-> "small", size |-> 1, price |-> 1],
            [name |-> "large", size |-> 2, price |-> 2]}
MCPlain == [c \in {c1, c2} |->
    IF c = c1 THEN [size |-> 1, zoneOp |-> "In", zones |-> {}, regions |-> {}, class |-> "any"]
    ELSE [size |-> 2, zoneOp |-> "In", zones |-> {a}, regions |-> {}, class |-> "one"]]
MCMisread == [c \in {c1, c2} |->
    IF c = c1 THEN [size |-> 3, zoneOp |-> "In", zones |-> {}, regions |-> {}, class |-> "any"]
    ELSE [size |-> 1, zoneOp |-> "NotIn", zones |-> {b}, regions |-> {r2}, class |-> "both"]]
MCRequests == {MCPlain, MCMisread}
MCNodeClass ==
    [any |-> [region |-> None, selected |-> {<<r1, a>>, <<r1, b>>}, balanced |-> TRUE],
     one |-> [region |-> r1, selected |-> {<<r1, a>>, <<r2, a>>}, balanced |-> FALSE],
     both |-> [region |-> None, selected |-> {<<r1, b>>, <<r2, a>>}, balanced |-> FALSE]]

===============================================================================
