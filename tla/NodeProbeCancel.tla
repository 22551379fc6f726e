-------------------------- MODULE NodeProbeCancel --------------------------
(***************************************************************************)
(* NodeProbe with a note of the nodes whose cancel came at a moment when   *)
(* nobody would look at it any more, and of the tests that shared the one  *)
(* entry of their node in s.nodeTests with another.                        *)
(***************************************************************************)
EXTENDS NodeProbe

VARIABLES
  missed,   \* nodes with a cancel that fell into one of the two gaps
  beside    \* jobs that were registered while another was, on the same node
cancelVars == <<vars, missed, beside>>

(* A cancel of n comes between the worker's look for it and the             *)
(* registration of its cancel function; or the test of n is over before     *)
(* cancelNodeTest, which has taken its function, calls it.                  *)
Misses(n) ==
  \/ CancelNode(n) /\ batchTest # NoBatch /\ pc[<<batchTest, n>>] = "register"
  \/ \E p \in cancelling : node[p] = n /\ pc[p] = "post" /\ pc'[p] # "post"

(* From registerNodeTest to unregisterNodeTest                              *)
InTable == {"begin", "mark", "dial", "commit", "post", "panicked", "unregister"}
Entered(p) == pc[p] \in InTable
Shares(p) == Entered(p) /\ \E q \in Jobs \ {p} : Entered(q) /\ node[q] = node[p]

CancelInit == Init /\ missed = {} /\ beside = {}
CancelNext ==
  /\ Next
  /\ missed' = {n \in Nodes : n \in missed \/ Misses(n)}
  /\ beside' = {p \in Jobs : p \in beside \/ Shares(p)'}
CancelSpec == CancelInit /\ [][CancelNext]_cancelVars

-----------------------------------------------------------------------------
(* The batch does not report the node n available, which was cancelled by   *)
(* itself: the cancel has returned and nobody has tested the node again.    *)
Sticks(n) ==
  /\ IsBatchNodeCancelled(n) /\ cancelling = {}
  /\ \A t \in Tests : node[t] = n => pc[t] = "none"
  /\ n \in members[batchTest] /\ bpc[batchTest] = "collecting" /\ n \notin left[batchTest]
  => status[n] # "available"

(* A node cancelled by itself in a batch ends as cancelled: server_test.go, *)
(* TestProbeNodesConcurrentlyCancelsSingleQueuedNode.                       *)
BatchCancelSticks == \A n \in Nodes : Sticks(n)

(* ... and the two gaps are all that can go wrong: every other cancel       *)
(* sticks, if no other batch has tested the node.                           *)
CancelSticks ==
  \A n \in Nodes \ missed : (\A b \in Batches \ {batchTest} : pc[<<b, n>>] = "none") => Sticks(n)

(* What a cancel request finds under a node is a test that goes on there,   *)
(* and a test that goes on is found, if it never shared its node with       *)
(* another.  Of tests that do, only the last to begin is found, and not     *)
(* even that one once another of them has ended.                            *)
CancelFindsTest ==
  /\ \A n \in Nodes : nodeTests[n] # NoJob => node[nodeTests[n]] = n /\ Entered(nodeTests[n])
  /\ \A p \in Jobs \ beside : Entered(p) => nodeTests[node[p]] = p
=============================================================================
