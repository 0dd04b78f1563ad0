------------------------------- MODULE IPPool -------------------------------
(***************************************************************************)
(* The address pool of one IPv4 subnet (nodeipam/ipam/ippool.go).          *)
(*                                                                         *)
(* Addresses are numbers and a subnet is a block of them: its base and its *)
(* size, a power of two.  Bit i of a pool is the address base + i + 1, so  *)
(* that the network address has no bit and the broadcast address has one.  *)
(* Every method holds the pool's lock for its whole body.                  *)
(***************************************************************************)
EXTENDS Integers, FiniteSetsExt

NoAddress == -1

\* IPNet.Contains
Contains(net, ip) == net.base <= ip /\ ip < net.base + net.size

\* maxIPs: the network address is left out.
MaxIPs(net) == net.size - 1

\* ParseCIDR
NewIPPool(net) == [net |-> net, bits |-> {}]

\* Mutant: the network address is given bit 0.
HostIndexFromBase(net, ip) == ip - net.base

\* The bit of an address of the subnet; -1 for the network address.
HostIndex(net, ip) == ip - net.base - 1

\* gocidr.Host(IPNet, candidate + 1), which fails past the end of the subnet.
HostAddress(net, index) ==
    IF index + 1 < net.size THEN net.base + index + 1 ELSE NoAddress

HasBit(net, ip) == Contains(net, ip) /\ ip # net.base

Occupied(p, ip) ==
    IF HasBit(p.net, ip)
    THEN [p EXCEPT !.bits = @ \cup {HostIndex(p.net, ip)}]
    ELSE p

\* Mutant: the bit stays set.
FreedNever(p, ip) == p

Freed(p, ip) ==
    IF HasBit(p.net, ip)
    THEN [p EXCEPT !.bits = @ \ {HostIndex(p.net, ip)}]
    ELSE p

-----------------------------------------------------------------------------
(* Next: the first clear bit at or after the one of the hint, going round    *)
(* once.  When every bit is set the search ends where it began, and the bit  *)
(* found there is handed out again.                                          *)

FreeBits(p) == (0 .. MaxIPs(p.net) - 1) \ p.bits

FirstBit(p, hint) ==
    IF hint = p.net.base \/ ~Contains(p.net, hint) THEN 0 ELSE HostIndex(p.net, hint)

\* Mutant: the search starts over at the bit it is given.
CandidateAtHint(p, hint) == FirstBit(p, hint)

Candidate(p, hint) ==
    LET first == FirstBit(p, hint)
        ahead == {i \in FreeBits(p) : first <= i}
    IN  IF ahead # {} THEN Min(ahead)
        ELSE IF FreeBits(p) # {} THEN Min(FreeBits(p))
        ELSE first

\* The pool that Next leaves, and the address it returns.
Taken(p, hint) == [p EXCEPT !.bits = @ \cup {Candidate(p, hint)}]

NextAddress(p, hint) == HostAddress(p.net, Candidate(p, hint))

=============================================================================
