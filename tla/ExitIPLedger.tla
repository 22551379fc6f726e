---------------------------- MODULE ExitIPLedger ----------------------------
(***************************************************************************)
(* What the allocation API promises its clients, without caches, janitors  *)
(* or locks: a lease is granted once, with an exit address nobody was      *)
(* granted during the reuse window, and ends once for all.                 *)
(***************************************************************************)
EXTENDS Integers

CONSTANTS Requests, ExitIPs, ReuseWindow

VARIABLES now, lease

None == [ip |-> "none", since |-> 0, open |-> FALSE]

Init ==
  /\ now = 0
  /\ lease = [r \in Requests |-> None]

Granted(r) == lease[r] # None
OutOfUse(ip) ==
  \A q \in Requests : Granted(q) /\ lease[q].ip = ip => now >= lease[q].since + ReuseWindow

(* The request came at "since" and is answered now *)
Grant(r) ==
  /\ ~Granted(r)
  /\ \E ip \in ExitIPs, since \in 0 .. now :
       /\ OutOfUse(ip)
       /\ lease' = [lease EXCEPT ![r] = [ip |-> ip, since |-> since, open |-> TRUE]]
  /\ UNCHANGED now

(* Released, expired or shut down *)
End(r) ==
  /\ Granted(r) /\ lease[r].open
  /\ lease' = [lease EXCEPT ![r] = [ip |-> @.ip, since |-> @.since, open |-> FALSE]]
  /\ UNCHANGED now

Pass == now' = now + 1 /\ UNCHANGED lease

Next == Pass \/ \E r \in Requests : Grant(r) \/ End(r)

Spec == Init /\ [][Next]_<<now, lease>>
=============================================================================
