----------------------------- MODULE NodeProbe -----------------------------
(***************************************************************************)
(* Node tests of the management server                                     *)
(* (src/userspace-gateway/internal/manager/server.go): POST /api/test_node *)
(* runs one probe under a deadline, POST /api/test_nodes a batch of them   *)
(* with a queue, workers, a collector and a watchdog, the quality cache    *)
(* refreshes itself with such a batch in the background, and tests are     *)
(* cancelled one node or one batch at a time while all of that runs.       *)
(*                                                                         *)
(* A job is one call of probeNodeTestJob: of a call of testNode, or for    *)
(* one node of a batch.  Calls and batches are used once; the nodes are in *)
(* s.nodes throughout.                                                     *)
(***************************************************************************)
EXTENDS Integers, FiniteSets

CONSTANTS
  Nodes,       \* s.nodes; a batch queues its nodes in increasing order
  Tests,       \* calls of testNode
  Batches,     \* calls of testNodes and of refreshProxyCache
  Workers      \* maxBatchTestWorkers

ASSUME NodeProbeAssumption ==
  /\ Nodes \subseteq Nat
  /\ Workers \in Nat \ {0}
  /\ Tests \cap (Batches \X Nodes) = {} /\ << >> \notin Tests

Jobs == Tests \cup (Batches \X Nodes)
NoJob == << >>
NoBatch == "no_batch"

VARIABLES
  status, failed,   \* ProbeStatus of each node; s.failed
  nodeTests,        \* s.nodeTests: the job whose cancel function is entered
  batchTest,        \* s.batchTest
  batchNodes,       \* batch.nodeIDs of s.batchTest
  batchCancelled,   \* batch.cancelledNodes of s.batchTest
  pc, node, err,    \* job: control, its node, result.Err
  outcome,          \* job: what the tunnel and the exit check say
  ctx,              \* job: probeCtx.Err()
  deadline,         \* testNode: probeCtx.Err() of the request
  answered,         \* testNode: requests answered
  bpc, members,     \* batch: control of its collector, its nodes
  left,             \* batch: nodes the collector has no result for
  bctx,             \* batch: Err() of its context
  cancelling        \* jobs whose cancel function cancelNodeTest is to call

nodeVars  == <<status, failed>>
tableVars == <<nodeTests, batchTest, batchNodes, batchCancelled, cancelling>>
jobVars   == <<pc, node, err, outcome>>
ctxVars   == <<ctx, deadline, bctx>>
batchVars == <<bpc, members, left>>
vars == <<nodeVars, tableVars, jobVars, ctxVars, answered, batchVars>>

-----------------------------------------------------------------------------
Statuses == {"not_checked", "testing", "available", "unavailable", "cancelled"}
CtxErrs == {"none", "cancelled", "expired"}
JobStates == {"none", "waiting", "dropped", "passed", "queued", "check", "skip", "register",
              "begin", "mark", "dial", "commit", "post", "panicked", "recovered", "unregister",
              "result", "over"}
BatchStates == {"none", "started", "listed", "collecting", "sweeping", "over"}

Init ==
  /\ status = [n \in Nodes |-> "not_checked"] /\ failed = {}
  /\ nodeTests = [n \in Nodes |-> NoJob]
  /\ batchTest = NoBatch /\ batchNodes = {} /\ batchCancelled = {}
  /\ pc = [p \in Jobs |-> "none"]
  /\ node \in [Jobs -> Nodes] /\ \A b \in Batches, n \in Nodes : node[<<b, n>>] = n
  /\ err = [p \in Jobs |-> "none"] /\ outcome = [p \in Jobs |-> "none"]
  /\ ctx = [p \in Jobs |-> "none"]
  /\ deadline = [t \in Tests |-> "none"] /\ answered = {}
  /\ bpc = [b \in Batches |-> "none"] /\ bctx = [b \in Batches |-> "none"]
  /\ members = [b \in Batches |-> {}] /\ left = [b \in Batches |-> {}]
  /\ cancelling = {}

-----------------------------------------------------------------------------
(* Locked helpers *)

Set(n, st) ==
  /\ status' = [status EXCEPT ![n] = st]
  /\ failed' = IF st = "unavailable" THEN failed \cup {n} ELSE failed \ {n}
MarkTestingOnly(ns) ==   \* mutant: the old failure is not forgotten
  status' = [n \in Nodes |-> IF n \in ns THEN "testing" ELSE status[n]] /\ UNCHANGED failed
MarkTesting(ns) ==   \* markNodeProbeTesting, markBatchNodesProbeTesting
  /\ status' = [n \in Nodes |-> IF n \in ns THEN "testing" ELSE status[n]]
  /\ failed' = failed \ ns
MarkFailed(n) == Set(n, "unavailable")
MarkCancelled(n) == Set(n, "cancelled")

(* markInterruptedNodeProbe: a timeout counts against the node *)
MarkInterrupted(n, e) == IF e = "expired" THEN MarkFailed(n) ELSE MarkCancelled(n)

IsBatchNodeCancelled(n) == batchTest # NoBatch /\ n \in batchCancelled

Parent(p) == IF p \in Tests THEN deadline[p] ELSE bctx[p[1]]
JobsOf(b) == {b} \X Nodes

(* The live contexts below a batch's end with it *)
EndContexts(b, e) ==
  /\ bctx' = [bctx EXCEPT ![b] = IF @ = "none" THEN e ELSE @]
  /\ ctx' = [p \in Jobs |-> IF p \in JobsOf(b) /\ ctx[p] = "none" THEN bctx'[b] ELSE ctx[p]]
  /\ UNCHANGED deadline

-----------------------------------------------------------------------------
(* probeNodeTestJob and probeNodeWithTimeout *)

Goto(p, from, to) == pc[p] = from /\ pc' = [pc EXCEPT ![p] = to]
Done(p) == ctx[p] # "none"
Fails(p, e) == err' = [err EXCEPT ![p] = e]
JobOnly == UNCHANGED <<tableVars, node, ctxVars, answered, batchVars>>

Check(p) ==
  /\ \/ IsBatchNodeCancelled(node[p]) /\ Goto(p, "check", "skip")
     \/ ~IsBatchNodeCancelled(node[p]) /\ Goto(p, "check", "register")
  /\ JobOnly /\ UNCHANGED <<nodeVars, err, outcome>>

(* markNodeProbeCancelled for a node cancelled before its turn, by the      *)
(* worker or already by the queue                                           *)
Skip(p) ==
  /\ Goto(p, "skip", "result") \/ Goto(p, "passed", "result")
  /\ MarkCancelled(node[p]) /\ Fails(p, "cancelled")
  /\ JobOnly /\ UNCHANGED outcome

(* registerNodeTest replaces the entry of another job on the node *)
Register(p) ==
  /\ Goto(p, "register", "begin")
  /\ nodeTests' = [nodeTests EXCEPT ![node[p]] = p]
  /\ ctx' = [ctx EXCEPT ![p] = Parent(p)]
  /\ UNCHANGED <<nodeVars, batchTest, batchNodes, batchCancelled, cancelling, node, err,
                 outcome, deadline, bctx, answered, batchVars>>

(* ctx.Err(), before anything is marked *)
Begin(p) ==
  /\ \/ Done(p) /\ Goto(p, "begin", "post") /\ Fails(p, ctx[p])
     \/ ~Done(p) /\ Goto(p, "begin", "mark") /\ UNCHANGED err
  /\ JobOnly /\ UNCHANGED <<nodeVars, outcome>>

Mark(p) ==
  /\ Goto(p, "mark", "dial")
  /\ MarkTesting({node[p]})
  /\ JobOnly /\ UNCHANGED <<err, outcome>>

(* ctx.Err() once more, the OpenVPN file, the tunnel, the exit check and,   *)
(* whatever they said, ctx.Err() again                                      *)
Dial(p) ==
  /\ \/ /\ ~Done(p) /\ Goto(p, "dial", "commit")
        /\ \E o \in {"available", "unavailable"} : outcome' = [outcome EXCEPT ![p] = o]
        /\ UNCHANGED <<nodeVars, err>>
     \/ /\ Done(p) /\ Goto(p, "dial", "post")
        /\ MarkInterrupted(node[p], ctx[p]) /\ Fails(p, ctx[p])
        /\ UNCHANGED outcome
  /\ JobOnly
WriteFails(p) ==
  /\ Goto(p, "dial", "post")
  /\ MarkFailed(node[p]) /\ Fails(p, "error")
  /\ JobOnly /\ UNCHANGED outcome

(* the result is written unless the node was cancelled meanwhile *)
Commit(p) ==
  /\ Goto(p, "commit", "post")
  /\ IF status[node[p]] = "cancelled" THEN Fails(p, "cancelled") /\ UNCHANGED nodeVars
                                      ELSE Set(node[p], outcome[p]) /\ UNCHANGED err
  /\ outcome' = [outcome EXCEPT ![p] = "none"]
  /\ JobOnly

(* probeCtx.Err(), though the result may be written already *)
PostBlind(p) ==   \* mutant: nobody looks once the probe has returned
  /\ Goto(p, "post", "unregister")
  /\ JobOnly /\ UNCHANGED <<nodeVars, err, outcome>>
Post(p) ==
  /\ Goto(p, "post", "unregister")
  /\ IF Done(p) THEN MarkInterrupted(node[p], ctx[p]) /\ Fails(p, ctx[p])
                ELSE UNCHANGED <<nodeVars, err>>
  /\ JobOnly /\ UNCHANGED outcome

(* a panic of the probe is recovered by the deferred function: the entry is *)
(* removed, then the node is marked                                         *)
Panic(p) ==
  /\ Goto(p, "dial", "panicked") \/ Goto(p, "commit", "panicked")
  /\ outcome' = [outcome EXCEPT ![p] = "none"]
  /\ JobOnly /\ UNCHANGED <<nodeVars, err>>
RecoverLost(p) ==   \* mutant: the worker recovers but sends no result
  /\ Goto(p, "recovered", "over")
  /\ MarkFailed(node[p])
  /\ JobOnly /\ UNCHANGED <<err, outcome>>
Recover(p) ==
  /\ Goto(p, "recovered", "result")
  /\ MarkFailed(node[p]) /\ Fails(p, "error")
  /\ JobOnly /\ UNCHANGED outcome

(* the deferred cancel and unregisterNodeTest; the tokens it compares have  *)
(* size zero and one address, so the entry of another job goes as well      *)
UnregisterNot(p) ==   \* mutant: the entry is left behind
  /\ Goto(p, "unregister", "result") \/ Goto(p, "panicked", "recovered")
  /\ JobOnly /\ UNCHANGED <<nodeVars, err, outcome>>
Unregister(p) ==
  /\ Goto(p, "unregister", "result") \/ Goto(p, "panicked", "recovered")
  /\ nodeTests' = [nodeTests EXCEPT ![node[p]] = NoJob]
  /\ UNCHANGED <<nodeVars, batchTest, batchNodes, batchCancelled, cancelling, node, err,
                 outcome, ctxVars, answered, batchVars>>

(* normalizeNodeTestResult of a result that is received *)
Normalize(p) ==
  /\ Goto(p, "result", "over")
  /\ \/ err[p] \in {"cancelled", "expired"} /\ MarkInterrupted(node[p], err[p])
     \/ err[p] = "error" /\ MarkFailed(node[p])
     \/ err[p] = "none" /\ UNCHANGED nodeVars
  /\ err' = [err EXCEPT ![p] = "none"]

Probe(p) ==
  \/ Check(p) \/ Skip(p) \/ Register(p) \/ Begin(p) \/ Mark(p) \/ Dial(p) \/ WriteFails(p)
  \/ Commit(p) \/ Post(p) \/ Panic(p) \/ Recover(p) \/ Unregister(p)

-----------------------------------------------------------------------------
(* testNode: the job is a goroutine of its own *)

TestNode(t) ==
  /\ Goto(t, "none", "check")
  /\ JobOnly /\ UNCHANGED <<nodeVars, err, outcome>>

Deadline(t) ==
  /\ pc[t] # "none" /\ t \notin answered /\ deadline[t] = "none"
  /\ deadline' = [deadline EXCEPT ![t] = "expired"]
  /\ ctx' = [ctx EXCEPT ![t] = IF @ = "none" THEN "expired" ELSE @]
  /\ UNCHANGED <<nodeVars, tableVars, jobVars, bctx, answered, batchVars>>

(* select: the result, or the deadline, if the result is not taken first *)
AnswerResult(t) ==
  /\ t \notin answered /\ answered' = answered \cup {t}
  /\ Normalize(t)
  /\ UNCHANGED <<tableVars, node, outcome, ctxVars, batchVars>>
AnswerTimeout(t) ==
  /\ deadline[t] # "none"
  /\ t \notin answered /\ answered' = answered \cup {t}
  /\ MarkInterrupted(node[t], deadline[t])
  /\ UNCHANGED <<tableVars, jobVars, ctxVars, batchVars>>

-----------------------------------------------------------------------------
(* testNodes, refreshProxyCache and probeNodesConcurrentlyWith *)

BGoto(b, from, to) == bpc[b] = from /\ bpc' = [bpc EXCEPT ![b] = to]

(* startBatchNodeTest *)
StartBatch(b) ==
  /\ batchTest = NoBatch
  /\ BGoto(b, "none", "started")
  /\ batchTest' = b /\ batchNodes' = {} /\ batchCancelled' = {}
  /\ UNCHANGED <<nodeVars, nodeTests, cancelling, jobVars, ctxVars, answered, members, left>>

(* setBatchNodeTestIDs; a refresh of the quality cache, one at a time by    *)
(* proxyCacheRefreshing, takes its candidates without an entry in batchTest *)
InBackground(b) == bpc[b] \in {"listed", "collecting", "sweeping"} /\ batchTest # b
ListBatch(b) ==
  /\ \/ BGoto(b, "started", "listed")
     \/ BGoto(b, "none", "listed") /\ \A c \in Batches : ~InBackground(c)
  /\ \E ns \in (SUBSET Nodes) \ {{}} :
       /\ members' = [members EXCEPT ![b] = ns]
       /\ batchNodes' = IF batchTest = b THEN ns ELSE batchNodes
  /\ UNCHANGED <<nodeVars, nodeTests, batchTest, batchCancelled, cancelling, jobVars, ctxVars,
                 answered, left>>

(* markBatchNodesProbeTesting, then the queue, the workers, the collector *)
RunBatch(b) ==
  /\ BGoto(b, "listed", "collecting")
  /\ MarkTesting(members[b])
  /\ left' = [left EXCEPT ![b] = members[b]]
  /\ pc' = [p \in Jobs |-> IF p \in JobsOf(b) /\ node[p] \in members[b] THEN "waiting" ELSE pc[p]]
  /\ UNCHANGED <<tableVars, node, err, outcome, ctxVars, answered, members>>

(* the queue: the next node is passed over or put in the jobs channel, or   *)
(* the context is done and the rest is dropped                              *)
AtHead(b, n) ==
  /\ pc[<<b, n>>] = "waiting"
  /\ \A q \in JobsOf(b) : pc[q] # "passed" /\ (pc[q] = "waiting" => n <= node[q])
Enqueue(b, n) ==
  /\ AtHead(b, n)
  /\ \/ IsBatchNodeCancelled(n) /\ Goto(<<b, n>>, "waiting", "passed")
     \/ ~IsBatchNodeCancelled(n) /\ Goto(<<b, n>>, "waiting", "queued")
  /\ JobOnly /\ UNCHANGED <<nodeVars, err, outcome>>
DropRest(b) ==
  /\ bctx[b] # "none"
  /\ \E n \in Nodes : AtHead(b, n) /\ ~IsBatchNodeCancelled(n)
  /\ pc' = [p \in Jobs |-> IF p \in JobsOf(b) /\ pc[p] = "waiting" THEN "dropped" ELSE pc[p]]
  /\ JobOnly /\ UNCHANGED <<nodeVars, err, outcome>>

(* a worker takes a job *)
Moving == {"check", "skip", "register", "begin", "mark", "dial", "commit", "post", "panicked",
           "recovered", "unregister"}
Busy(b) == {p \in JobsOf(b) : pc[p] \in Moving}
NextInLine(b, n) ==
  pc[<<b, n>>] = "queued" /\ \A q \in JobsOf(b) : pc[q] = "queued" => n <= node[q]
Dequeue(b, n) ==
  /\ Cardinality(Busy(b)) < Workers
  /\ NextInLine(b, n)
  /\ Goto(<<b, n>>, "queued", "check")
  /\ JobOnly /\ UNCHANGED <<nodeVars, err, outcome>>

(* the collector receives a result, also while it drains what is ready *)
Collect(b, n) ==
  /\ bpc[b] = "collecting" /\ n \in left[b]
  /\ Normalize(<<b, n>>)
  /\ left' = [left EXCEPT ![b] = @ \ {n}]
  /\ UNCHANGED <<tableVars, node, outcome, ctxVars, answered, bpc, members>>

(* the watchdog *)
Watchdog(b) ==
  /\ bpc[b] = "collecting" /\ bctx[b] = "none"
  /\ EndContexts(b, "expired")
  /\ UNCHANGED <<nodeVars, tableVars, jobVars, answered, batchVars>>

(* ctx.Done(): the nodes without a result are marked, one by one *)
SweepStartEmpty(b) ==   \* mutant: the collector returns at once
  /\ bctx[b] # "none"
  /\ BGoto(b, "collecting", "sweeping")
  /\ left' = [left EXCEPT ![b] = {}]
  /\ UNCHANGED <<nodeVars, tableVars, jobVars, ctxVars, answered, members>>
SweepStart(b) ==
  /\ bctx[b] # "none" /\ left[b] # {}
  /\ BGoto(b, "collecting", "sweeping")
  /\ UNCHANGED <<nodeVars, tableVars, jobVars, ctxVars, answered, members, left>>
Sweep(b, n) ==
  /\ bpc[b] = "sweeping" /\ n \in left[b]
  /\ MarkInterrupted(n, bctx[b])
  /\ left' = [left EXCEPT ![b] = @ \ {n}]
  /\ UNCHANGED <<tableVars, jobVars, ctxVars, answered, bpc, members>>

(* finishBatchNodeTest; the contexts are cancelled on return in any case *)
FinishBatch(b) ==
  /\ left[b] = {}
  /\ BGoto(b, "collecting", "over") \/ BGoto(b, "sweeping", "over")
  /\ EndContexts(b, "cancelled")
  /\ IF batchTest = b THEN batchTest' = NoBatch /\ batchNodes' = {} /\ batchCancelled' = {}
                      ELSE UNCHANGED <<batchTest, batchNodes, batchCancelled>>
  /\ UNCHANGED <<nodeVars, nodeTests, cancelling, jobVars, answered, members, left>>

Batch(b) ==
  \/ ListBatch(b) \/ RunBatch(b) \/ DropRest(b) \/ SweepStart(b) \/ FinishBatch(b)
  \/ \E n \in Nodes : Enqueue(b, n) \/ Dequeue(b, n) \/ Collect(b, n) \/ Sweep(b, n)

-----------------------------------------------------------------------------
(* cancelTestNodes and cancelTestNode *)

CancelBatch ==
  /\ batchTest # NoBatch
  /\ EndContexts(batchTest, "cancelled")
  /\ UNCHANGED <<nodeVars, tableVars, jobVars, answered, batchVars>>

(* cancelNodeTest, answered "cancelled": the node is marked under the lock, *)
(* the job's cancel function is called after it                             *)
InBatch(n) == batchTest # NoBatch /\ n \in batchNodes
CancelNode(n) ==
  /\ status[n] = "testing"
  /\ nodeTests[n] # NoJob \/ InBatch(n)
  /\ MarkCancelled(n)
  /\ batchCancelled' = IF InBatch(n) THEN batchCancelled \cup {n} ELSE batchCancelled
  /\ cancelling' = cancelling \cup ({nodeTests[n]} \ {NoJob})
  /\ UNCHANGED <<nodeTests, batchTest, batchNodes, jobVars, ctxVars, answered, batchVars>>
CallCancel(p) ==
  /\ p \in cancelling /\ cancelling' = cancelling \ {p}
  /\ ctx' = [ctx EXCEPT ![p] = IF @ = "none" THEN "cancelled" ELSE @]
  /\ UNCHANGED <<nodeVars, nodeTests, batchTest, batchNodes, batchCancelled, jobVars, deadline,
                 bctx, answered, batchVars>>

-----------------------------------------------------------------------------
Next ==
  \/ \E p \in Jobs : Probe(p) \/ CallCancel(p)
  \/ \E t \in Tests : TestNode(t) \/ Deadline(t) \/ AnswerResult(t) \/ AnswerTimeout(t)
  \/ \E b \in Batches : StartBatch(b) \/ Batch(b) \/ Watchdog(b)
  \/ CancelBatch \/ \E n \in Nodes : CancelNode(n)

Spec == Init /\ [][Next]_vars

(* Goroutines run on: a dial has its own timeouts, a result that is waited  *)
(* for is taken, a collector sweeps.                                        *)
ProbeGoesOn(p) == WF_vars(Probe(p))
TestGoesOn(t) == WF_vars(AnswerResult(t))
BatchGoesOn(b) == WF_vars(Batch(b))
ProbesGoOn == \A p \in Jobs : ProbeGoesOn(p)
TestsGoOn == \A t \in Tests : TestGoesOn(t)
BatchesGoOn == \A b \in Batches : BatchGoesOn(b)
Fairness == ProbesGoOn /\ TestsGoOn /\ BatchesGoOn
FairSpec == Spec /\ Fairness

-----------------------------------------------------------------------------
(* Every variable has its type. *)
TypeOK ==
  /\ status \in [Nodes -> Statuses] /\ failed \subseteq Nodes
  /\ nodeTests \in [Nodes -> Jobs \cup {NoJob}]
  /\ batchTest \in Batches \cup {NoBatch}
  /\ batchNodes \subseteq Nodes /\ batchCancelled \subseteq Nodes
  /\ pc \in [Jobs -> JobStates] /\ node \in [Jobs -> Nodes]
  /\ err \in [Jobs -> CtxErrs \cup {"error"}]
  /\ outcome \in [Jobs -> {"none", "available", "unavailable"}]
  /\ ctx \in [Jobs -> CtxErrs] /\ deadline \in [Tests -> CtxErrs]
  /\ answered \subseteq Tests
  /\ bpc \in [Batches -> BatchStates] /\ bctx \in [Batches -> CtxErrs]
  /\ members \in [Batches -> SUBSET Nodes] /\ left \in [Batches -> SUBSET Nodes]
  /\ cancelling \subseteq Jobs

(* A job that has not written its last word *)
UnderWay(p) == pc[p] \notin {"none", "waiting", "dropped", "queued", "result", "over"}

(* A node shown "testing" is being tested: a job on it is under way or a    *)
(* collector still owes it a result, whatever was cancelled, timed out,     *)
(* dropped from the queue or overtaken by another test of the node.         *)
TestingIsTested ==
  \A n \in Nodes : status[n] = "testing" =>
    \/ \E p \in Jobs : node[p] = n /\ UnderWay(p)
    \/ \E b \in Batches : n \in left[b]

(* s.failed holds exactly the nodes shown as unavailable: what the choice   *)
(* of a backend avoids is what the list of nodes shows.                     *)
FailedIsShown == \A n \in Nodes : n \in failed <=> status[n] = "unavailable"

(* After the deadline of its request, or the end of its batch by a cancel   *)
(* or by the watchdog, no test gets as far as a result, and one that has    *)
(* written its result by then takes it back when it looks for the last      *)
(* time: it reports an error, and the node is not left available by it.     *)
LateIsWithdrawn ==
  [][\A p \in Jobs : Parent(p) # "none" =>
       /\ Post(p) => status'[node[p]] # "available" /\ err'[p] # "none"
       /\ Dial(p) => pc'[p] # "commit"]_vars

(* A batch ends and makes room for the next, however its jobs end: every    *)
(* node is accounted for by a result, a skip or the sweep.                  *)
BatchEnds == \A b \in Batches : bpc[b] = "collecting" ~> bpc[b] = "over" /\ batchTest # b

(* The next step is a goroutine's own: of a job, of a batch's queue,        *)
(* workers or collector.                                                    *)
MustProbe(p) == pc[p] \in Moving \/ pc[p] = "passed"
MustRun(b) ==
  \/ bpc[b] \in {"listed", "sweeping"}
  \/ bpc[b] = "collecting" /\ (left[b] = {} \/ bctx[b] # "none")
  \/ \E n \in Nodes : bpc[b] = "collecting" /\ n \in left[b] /\ pc[<<b, n>>] = "result"
  \/ \E n \in Nodes : AtHead(b, n) \/ (NextInLine(b, n) /\ Cardinality(Busy(b)) < Workers)

(* In a batch that has no result for some node it is always somebody's turn *)
(* to step: queue, workers and collector never wait for one another, or     *)
(* for a result nobody will send, whatever panics, is cancelled, passed     *)
(* over or dropped.                                                         *)
BatchNeverStalls ==
  \A b \in Batches : bpc[b] = "collecting" =>
    MustRun(b) \/ \E n \in Nodes : MustProbe(<<b, n>>)

Answered(t) == pc[t] # "none" ~> t \in answered

(* Every request for a test (testNode) is answered, by its result or by its *)
(* deadline.                                                                *)
RequestsAnswered == \A t \in Tests : Answered(t)
=============================================================================
