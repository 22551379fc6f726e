---------------------------- MODULE MCProxyLease ----------------------------
(* Instances of ProxyLease for TLC. *)
EXTENDS ProxyLease, TLC

CONSTANTS r1, r2, r3, p1, p2, ip1, ip2, us, jp

MCCountryOf == [ip \in ExitIPs |-> us]
MCLeases == {1}
MCSymmetry == Permutations(Requests) \cup Permutations(Releasers) \cup Permutations(ExitIPs)
=============================================================================
