----------------------------- MODULE MCNodeIpam -----------------------------
(* Small networks for NodeIpam: one bridge with an address in a subnet of     *)
(* three host addresses, and a second subnet that no host is part of.         *)
EXTENDS NodeIpam, TLC

MCHostNet == [base |-> 0, size |-> 4]
MCGuestNet == [base |-> 4, size |-> 4]

MCBridge == [ip |-> 1, net |-> MCHostNet, gateway |-> 3]

MCHostIfaces == {MCBridge}

MCOnBridge == [net |-> MCHostNet, iface |-> MCBridge]
MCOffBridge == [net |-> MCGuestNet, iface |-> NoIface]

MCTemplates == {MCOnBridge, MCOffBridge}

MCSymmetry == Permutations(VM)

=============================================================================
