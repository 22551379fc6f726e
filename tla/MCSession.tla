----------------------------- MODULE MCSession -----------------------------
(***************************************************************************)
(* Two instances of Session for TLC in one run.  "replace": sessions that  *)
(* replace each other, with one listener and one node, the second without  *)
(* a node of its own; its properties are all of them.  "listeners": one    *)
(* session with two listeners and two nodes and no auto-connect, for what  *)
(* the state says; since Fairness would have auto-connect go on, no        *)
(* leads-to property is claimed of it.  They differ in what the            *)
(* environment may ask for only.                                           *)
(***************************************************************************)
EXTENDS Session

CONSTANTS a1, a2

VARIABLE instance
mcVars == <<vars, instance>>

MCCountryOf == [n \in Nodes |-> IF n = 1 THEN "JP" ELSE "KR"]
MCNetsOf == [n \in Nodes |-> IF n = 2 THEN Nets ELSE {}]

Free == [l \in Listeners |-> NoPolicy]

(* Only the file: the first backend is not a node, a failover takes one *)
FileOnly == [static |-> TRUE, enabled |-> Listeners, fixed |-> NoNode,
             country |-> Anywhere, policy |-> Free]
OneListener == [FileOnly EXCEPT !.enabled = {1}, !.country = "JP"]

(* A file, and listener 1 with a policy for node 2 *)
FileAndPolicy == [FileOnly EXCEPT !.policy[1].nets = Nets]

(* No file: listener 1 prefers node 1, the rest are left to the mode *)
PolicyOnly == [FileOnly EXCEPT !.static = FALSE, !.policy[1].country = "JP"]

MCConfigs == {OneListener, FileAndPolicy, PolicyOnly}

MCInit == Init /\ instance \in {"replace", "listeners"}

Asked ==
  \A s \in 1 .. created' :
    /\ nodeID'[s] \in {NoNode, 1}
    /\ IF instance = "replace" THEN config'[s] = OneListener /\ (s = 1 \/ nodeID'[s] = NoNode)
       ELSE s = 1 /\ config'[s].enabled = Listeners

MCNext == Next /\ Asked /\ (instance = "listeners" => auto' = auto) /\ UNCHANGED instance
MCFairSpec == MCInit /\ [][MCNext]_mcVars /\ Fairness
=============================================================================
