---------------------------- MODULE SessionView ----------------------------
(***************************************************************************)
(* What a client of the state API may see of the gateway's sessions: at    *)
(* most one session is in place, one that is gone never comes back, and    *)
(* each of its listeners goes through the statuses of one worker: it is    *)
(* being started, then looks for a node, runs on the one it has found, and *)
(* looks again before it runs on another.  Session implements it.          *)
(***************************************************************************)
EXTENDS Naturals

CONSTANTS Listeners, Nodes, NoNode

VARIABLES
  current,   \* the session in place, or 0
  made,      \* sessions so far
  shown      \* listener: status and node of its backend

viewVars == <<current, made, shown>>

Nothing == [l \in Listeners |-> [status |-> "none", node |-> NoNode]]

(* The statuses a listener may be shown in next *)
After(status) ==
  CASE status = "none"      -> {"starting"}
    [] status = "starting"  -> {"switching"}
    [] status = "switching" -> {"switching", "running", "error"}
    [] status = "running"   -> {"running", "switching"}
    [] status = "error"     -> {"switching"}

Init == current = 0 /\ made = 0 /\ shown = Nothing

Begin ==
  /\ made' = made + 1 /\ current' = made' /\ shown' = Nothing
End ==
  /\ current # 0 /\ current' = 0 /\ shown' = Nothing
  /\ UNCHANGED made

(* a backend that runs stays on its node for as long as it runs *)
Show(l) ==
  /\ current # 0
  /\ \E st \in After(shown[l].status), n \in Nodes \cup {NoNode} :
       /\ st = "running" /\ shown[l].status = "running" => n = shown[l].node
       /\ st \in {"starting", "error"} => n = NoNode
       /\ shown' = [shown EXCEPT ![l] = [status |-> st, node |-> n]]
  /\ UNCHANGED <<current, made>>

Next == Begin \/ End \/ \E l \in Listeners : Show(l)
Spec == Init /\ [][Next]_viewVars
=============================================================================
