-------------------------- MODULE MCInstanceTemplate --------------------------
(* Two classes that share a zone; the specifications change the image, for    *)
(* which a new template is built, or the part that is updated in place.       *)
EXTENDS InstanceTemplate

CONSTANTS a, b, z1, z2, img1, img2

MCClasses == {a, b}
MCZones == {z1, z2}
MCZonesOf == [c \in MCClasses |-> IF c = a THEN {z1, z2} ELSE {z1}]
MCOneZone == [c \in MCClasses |-> {z1}]
MCStore == [z \in MCZones |-> z1]

MCFirst == [image |-> img1, rev |-> 1, opts |-> 1]
MCNewImage == [image |-> img2, rev |-> 1, opts |-> 1]
MCNewOptions == [image |-> img1, rev |-> 1, opts |-> 2]

MCSpecs == {MCFirst, MCNewImage, MCNewOptions}
MCFirstSpec == [c \in MCClasses |-> MCFirst]

===============================================================================
