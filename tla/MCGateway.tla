----------------------------- MODULE MCGateway -----------------------------
(***************************************************************************)
(* Instances of Gateway for TLC.  Handlers meet the owner in the context   *)
(* and in the stack only, whose state is the same for one server as for    *)
(* two: clients come to a backend with one server, and two servers are     *)
(* there to fail, begin and stop in every order.                           *)
(***************************************************************************)
EXTENDS Gateway

CONSTANTS c1, a1, a2

Small ==
  /\ enabled' \in {{}, {1}, {1, 2}}
  /\ enabled' = {1, 2} => \A c \in Clients : pc'[c] = "idle"

MCFairSpec ==
  /\ Init /\ [][Next /\ Small]_vars
  /\ SocksFairness /\ WF_vars(OwnerStep) /\ WF_vars(Stop /\ MustStop)
=============================================================================
