-------------------------- MODULE ProxyLeaseRestart --------------------------
(***************************************************************************)
(* ProxyLease with a crash or restart of the server.  Leases, reservations *)
(* and the quality cache are in memory only: NewServer makes every map     *)
(* empty.  Operating-system handles die with the process, what the clients *)
(* were granted stays known to them.                                       *)
(***************************************************************************)
EXTENDS ProxyLease, TLC

CONSTANTS r1, r2, ip1, us

MCCountryOf == [ip \in ExitIPs |-> us]

Restart ==
  /\ proxyCache' = [n \in Nodes |-> NoEntry]
  /\ recentExitIPs' = [ip \in ExitIPs |-> Never]
  /\ failed' = {} /\ refreshing' = {}
  /\ pc' = [r \in Requests |-> IF InFlight(r) THEN "refused" ELSE pc[r]]
  /\ handle' = [r \in Requests |-> IF handle[r] = "open" THEN "closed" ELSE handle[r]]
  /\ dynamicProxies' = {} /\ releasingProxies' = {}
  /\ rpc' = [p \in Releasers |-> "idle"]
  /\ jpc' = "idle" /\ expired' = {} /\ current' = NoRequest
  /\ UNCHANGED <<clock, stamp, node, exitIP, lease, closeErr, target>>

RestartSpec == Init /\ [][Next \/ Restart]_vars

(* README.md: "the same exit IP is not allocated again within one hour" --  *)
(* by this server or by the one before a restart.                           *)
NotAllocatedTwiceInWindow ==
  [][\A r, q \in Requests :
       /\ pc[r] = "arrived" /\ pc'[r] = "starting"
       /\ q # r /\ pc[q] = "granted" /\ exitIP[q] = exitIP'[r]
       => clock >= stamp[q] + ReuseWindow]_vars
=============================================================================
