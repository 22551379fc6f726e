-------------------------- MODULE NodeCatalogBind --------------------------
(***************************************************************************)
(* NodeCatalog with a note of the nodes whose failure was cleared by       *)
(* binding them to a listener.                                             *)
(***************************************************************************)
EXTENDS NodeCatalog

CONSTANTS n1, n2

VARIABLE cleared   \* bound to a listener, and neither tested nor found failing since
bindVars == <<vars, cleared>>

SaidOf(n) ==
  StartTest(n) \/ EndTest(n) \/ StartFails(n) \/ (FinishError /\ session = n)

BindInit == Init /\ cleared = {}
BindNext ==
  /\ Next
  /\ cleared' = {n \in Nodes : ConnectBound(n) \/ (n \in cleared /\ ~SaidOf(n))}
BindSpec == BindInit /\ [][BindNext]_bindVars

(* A node bound to a listener stays usable for it until something is found  *)
(* against it: server_test.go, TestConnectNodeToListenerPersistsConfigAnd-  *)
(* ClearsFailedNode, says that binding a node clears its failure.           *)
BindSticks == cleared \cap failed = {}
=============================================================================
