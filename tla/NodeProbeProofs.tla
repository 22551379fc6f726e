--------------------------- MODULE NodeProbeProofs ---------------------------
(***************************************************************************)
(* Theorems about NodeProbe, for every set of nodes, tests and batches and *)
(* any number of workers.                                                  *)
(***************************************************************************)
EXTENDS NodeProbeCancel, FiniteSetTheorems, WellFoundedInduction, TLAPS

USE DEF vars, nodeVars, tableVars, jobVars, ctxVars, batchVars, JobOnly, Goto, Fails, BGoto

-----------------------------------------------------------------------------
(* A job that is to write a result has one.                                 *)
OutcomeKnown == \A p \in Jobs : pc[p] = "commit" => outcome[p] # "none"
TypeInv == TypeOK /\ OutcomeKnown

(* What a step may do to the nodes: one gets a new status, some are marked  *)
(* as in test, or nothing.                                                  *)
NodeStep ==
  \/ \E n \in Nodes, st \in Statuses : Set(n, st)
  \/ \E ns \in SUBSET Nodes : MarkTesting(ns)
  \/ UNCHANGED nodeVars

LEMMA MarkIsStep ==
  ASSUME NEW n \in Nodes, NEW e, MarkFailed(n) \/ MarkCancelled(n) \/ MarkInterrupted(n, e)
  PROVE  NodeStep
BY DEF NodeStep, MarkFailed, MarkCancelled, MarkInterrupted, Statuses

LEMMA NormalizeIsStep ==
  ASSUME TypeOK, NEW p \in Jobs, Normalize(p)
  PROVE  NodeStep
<1>1. node[p] \in Nodes
  BY DEF TypeOK
<1> QED
  BY <1>1, MarkIsStep DEF Normalize, NodeStep

LEMMA ProbeNodes ==
  ASSUME TypeInv, NEW p \in Jobs, Probe(p)
  PROVE  NodeStep
<1>1. node[p] \in Nodes /\ outcome[p] \in {"none", "available", "unavailable"}
  BY DEF TypeInv, TypeOK
<1>2. CASE Check(p) \/ Register(p) \/ Begin(p) \/ Panic(p) \/ Unregister(p)
  BY <1>2 DEF Check, Register, Begin, Panic, Unregister, NodeStep
<1>3. CASE Skip(p) \/ WriteFails(p) \/ Recover(p)
  BY <1>1, <1>3, MarkIsStep DEF Skip, WriteFails, Recover
<1>4. CASE Mark(p)
  BY <1>1, <1>4 DEF Mark, NodeStep
<1>5. CASE Dial(p) \/ Post(p)
  BY <1>1, <1>5, MarkIsStep DEF Dial, Post, NodeStep
<1>6. CASE Commit(p)
  <2>1. outcome[p] \in Statuses
    BY <1>1, <1>6 DEF Commit, TypeInv, OutcomeKnown, Statuses
  <2> QED
    BY <1>1, <1>6, <2>1 DEF Commit, NodeStep
<1> QED
  BY <1>2, <1>3, <1>4, <1>5, <1>6 DEF Probe

LEMMA NextNodes == ASSUME TypeInv, Next PROVE NodeStep
<1>1. ASSUME NEW p \in Jobs, Probe(p) \/ CallCancel(p) PROVE NodeStep
  BY <1>1, ProbeNodes DEF CallCancel, NodeStep
<1>2. ASSUME NEW t \in Tests, TestNode(t) \/ Deadline(t) \/ AnswerResult(t) \/ AnswerTimeout(t)
      PROVE  NodeStep
  <2>1. t \in Jobs /\ node[t] \in Nodes
    BY DEF TypeInv, TypeOK, Jobs
  <2>2. CASE TestNode(t) \/ Deadline(t)
    BY <2>2 DEF TestNode, Deadline, NodeStep
  <2>3. CASE AnswerResult(t)
    BY <2>1, <2>3, NormalizeIsStep DEF AnswerResult, TypeInv
  <2>4. CASE AnswerTimeout(t)
    BY <2>1, <2>4, MarkIsStep DEF AnswerTimeout
  <2> QED
    BY <1>2, <2>2, <2>3, <2>4
<1>3. ASSUME NEW b \in Batches, StartBatch(b) \/ Batch(b) \/ Watchdog(b) PROVE NodeStep
  <2>1. CASE StartBatch(b) \/ ListBatch(b) \/ DropRest(b) \/ SweepStart(b) \/ FinishBatch(b)
             \/ Watchdog(b) \/ \E n \in Nodes : Enqueue(b, n) \/ Dequeue(b, n)
    BY <2>1 DEF StartBatch, ListBatch, DropRest, SweepStart, FinishBatch, Watchdog, Enqueue,
       Dequeue, NodeStep
  <2>2. CASE RunBatch(b)
    BY <2>2 DEF RunBatch, NodeStep, TypeInv, TypeOK
  <2>3. ASSUME NEW n \in Nodes, Collect(b, n) PROVE NodeStep
    <3>1. <<b, n>> \in Jobs
      BY DEF Jobs
    <3> QED
      BY <2>3, <3>1, NormalizeIsStep DEF Collect, TypeInv
  <2>4. ASSUME NEW n \in Nodes, Sweep(b, n) PROVE NodeStep
    BY <2>4, MarkIsStep DEF Sweep
  <2> QED
    BY <1>3, <2>1, <2>2, <2>3, <2>4 DEF Batch
<1>4. CASE CancelBatch
  BY <1>4 DEF CancelBatch, NodeStep
<1>5. ASSUME NEW n \in Nodes, CancelNode(n) PROVE NodeStep
  BY <1>5, MarkIsStep DEF CancelNode
<1> QED
  BY <1>1, <1>2, <1>3, <1>4, <1>5 DEF Next

-----------------------------------------------------------------------------
(* Types, one group of actions after the other                              *)

LEMMA NodesType == ASSUME TypeOK, NodeStep PROVE status' \in [Nodes -> Statuses] /\ failed' \subseteq Nodes
BY DEF NodeStep, Set, MarkTesting, TypeOK, Statuses

LEMMA JobContexts ==
  ASSUME TypeOK, NEW p \in Jobs
  PROVE  Parent(p) \in CtxErrs
<1>1. CASE p \in Tests
  BY <1>1 DEF Parent, TypeOK
<1>2. CASE p \notin Tests
  <2>1. PICK b \in Batches, n \in Nodes : p = <<b, n>>
    BY <1>2 DEF Jobs
  <2> QED
    BY <1>2, <2>1 DEF Parent, TypeOK
<1> QED
  BY <1>1, <1>2

(* Everything but the status of nodes.                                      *)
RestType ==
  /\ nodeTests \in [Nodes -> Jobs \cup {NoJob}]
  /\ batchTest \in Batches \cup {NoBatch}
  /\ batchNodes \subseteq Nodes /\ batchCancelled \subseteq Nodes
  /\ pc \in [Jobs -> JobStates] /\ node \in [Jobs -> Nodes]
  /\ err \in [Jobs -> CtxErrs \cup {"error"}]
  /\ outcome \in [Jobs -> {"none", "available", "unavailable"}]
  /\ ctx \in [Jobs -> CtxErrs] /\ deadline \in [Tests -> CtxErrs]
  /\ answered \subseteq Tests
  /\ bpc \in [Batches -> BatchStates] /\ bctx \in [Batches -> CtxErrs]
  /\ members \in [Batches -> SUBSET Nodes] /\ left \in [Batches -> SUBSET Nodes]
  /\ cancelling \subseteq Jobs
  /\ OutcomeKnown

LEMMA RestIsType == TypeInv <=> RestType /\ status \in [Nodes -> Statuses] /\ failed \subseteq Nodes
BY DEF TypeInv, TypeOK, RestType

LEMMA ProbeType ==
  ASSUME RestType, NEW p \in Jobs, Probe(p), Parent(p) \in CtxErrs
  PROVE  RestType'
<1> USE DEF RestType, OutcomeKnown, JobStates, CtxErrs
<1>1. CASE Check(p) \/ Skip(p)
  BY <1>1 DEF Check, Skip
<1>2. CASE Register(p)
  BY <1>2 DEF Register
<1>3. CASE Begin(p)
  BY <1>3 DEF Begin
<1>4. CASE Mark(p)
  BY <1>4 DEF Mark
<1>5. CASE Dial(p)
  <2>1. err' = err \/ err' = [err EXCEPT ![p] = ctx[p]]
    BY <1>5 DEF Dial
  <2>2. outcome' = outcome \/ \E o \in {"available", "unavailable"} : outcome' = [outcome EXCEPT ![p] = o]
    BY <1>5 DEF Dial
  <2>3. pc' = [pc EXCEPT ![p] = "post"] \/
        (pc' = [pc EXCEPT ![p] = "commit"] /\ outcome'[p] \in {"available", "unavailable"})
    BY <1>5 DEF Dial
  <2>4. /\ outcome' \in [Jobs -> {"none", "available", "unavailable"}]
        /\ pc' \in [Jobs -> JobStates]
        /\ err' \in [Jobs -> CtxErrs \cup {"error"}]
    <3>1. outcome' \in [Jobs -> {"none", "available", "unavailable"}]
      BY <2>2
    <3>2. pc' \in [Jobs -> JobStates]
      BY <2>3
    <3>3. ctx[p] \in CtxErrs \cup {"error"}
      OBVIOUS
    <3>4. err' \in [Jobs -> CtxErrs \cup {"error"}]
      BY <2>1, <3>3
    <3> QED
      BY <3>1, <3>2, <3>4
  <2>5. ASSUME NEW q \in Jobs, pc'[q] = "commit" PROVE outcome'[q] # "none"
    <3>1. CASE q = p
      BY <2>3, <2>5, <3>1
    <3>2. CASE q # p
      BY <2>2, <2>3, <2>5, <3>2
    <3> QED
      BY <3>1, <3>2
  <2>6. UNCHANGED <<tableVars, node, ctxVars, answered, batchVars>>
    BY <1>5 DEF Dial
  <2> QED
    BY <2>4, <2>5, <2>6
<1>6. CASE WriteFails(p) \/ Recover(p)
  BY <1>6 DEF WriteFails, Recover
<1>7. CASE Commit(p)
  BY <1>7 DEF Commit
<1>8. CASE Post(p)
  BY <1>8 DEF Post
<1>9. CASE Panic(p)
  BY <1>9 DEF Panic
<1>10. CASE Unregister(p)
  BY <1>10 DEF Unregister
<1> QED
  BY <1>1, <1>2, <1>3, <1>4, <1>5, <1>6, <1>7, <1>8, <1>9, <1>10 DEF Probe

LEMMA TestType ==
  ASSUME RestType, NEW t \in Tests,
         TestNode(t) \/ Deadline(t) \/ AnswerResult(t) \/ AnswerTimeout(t)
  PROVE  RestType'
<1> USE DEF RestType, OutcomeKnown, JobStates, CtxErrs
<1>1. t \in Jobs
  BY DEF Jobs
<1>2. CASE TestNode(t) \/ AnswerTimeout(t)
  BY <1>1, <1>2 DEF TestNode, AnswerTimeout
<1>3. CASE Deadline(t)
  BY <1>1, <1>3 DEF Deadline
<1>4. CASE AnswerResult(t)
  BY <1>1, <1>4 DEF AnswerResult, Normalize
<1> QED
  BY <1>2, <1>3, <1>4

LEMMA ContextsType ==
  ASSUME RestType, NEW b \in Batches, NEW e \in CtxErrs, EndContexts(b, e)
  PROVE  bctx' \in [Batches -> CtxErrs] /\ ctx' \in [Jobs -> CtxErrs] /\ deadline' = deadline
<1>1. bctx' \in [Batches -> CtxErrs]
  BY DEF RestType, EndContexts
<1> QED
  BY <1>1 DEF RestType, EndContexts

LEMMA BatchType ==
  ASSUME RestType, NEW b \in Batches, StartBatch(b) \/ Batch(b) \/ Watchdog(b)
  PROVE  RestType'
<1> USE DEF RestType, OutcomeKnown, JobStates, BatchStates
<1>1. \A n \in Nodes : <<b, n>> \in Jobs
  BY DEF Jobs
<1>2. CASE StartBatch(b) \/ ListBatch(b) \/ SweepStart(b)
  BY <1>2 DEF StartBatch, ListBatch, SweepStart
<1>3. CASE RunBatch(b)
  BY <1>3 DEF RunBatch
<1>4. CASE DropRest(b)
  BY <1>4 DEF DropRest
<1>5. CASE FinishBatch(b)
  BY <1>5, ContextsType DEF FinishBatch, CtxErrs
<1>6. CASE Watchdog(b)
  BY <1>6, ContextsType DEF Watchdog, CtxErrs
<1>7. ASSUME NEW n \in Nodes, Enqueue(b, n) \/ Dequeue(b, n) PROVE RestType'
  BY <1>1, <1>7 DEF Enqueue, Dequeue
<1>8. ASSUME NEW n \in Nodes, Collect(b, n) PROVE RestType'
  BY <1>1, <1>8 DEF Collect, Normalize, CtxErrs
<1>9. ASSUME NEW n \in Nodes, Sweep(b, n) PROVE RestType'
  BY <1>9 DEF Sweep
<1> QED
  BY <1>2, <1>3, <1>4, <1>5, <1>6, <1>7, <1>8, <1>9 DEF Batch

LEMMA CancelType ==
  ASSUME RestType, CancelBatch \/ (\E n \in Nodes : CancelNode(n)) \/ \E p \in Jobs : CallCancel(p)
  PROVE  RestType'
<1>1. CASE CancelBatch
  BY <1>1, ContextsType DEF CancelBatch, RestType, OutcomeKnown, CtxErrs
<1>2. ASSUME NEW n \in Nodes, CancelNode(n) PROVE RestType'
  BY <1>2 DEF CancelNode, RestType, OutcomeKnown
<1>3. ASSUME NEW p \in Jobs, CallCancel(p) PROVE RestType'
  BY <1>3 DEF CallCancel, RestType, OutcomeKnown, CtxErrs
<1> QED
  BY <1>1, <1>2, <1>3

LEMMA TypeStep == TypeInv /\ [Next]_vars => TypeInv'
<1>1. ASSUME TypeInv, Next PROVE RestType'
  <2>1. RestType /\ TypeOK
    BY <1>1, RestIsType DEF TypeInv
  <2> QED
    BY <1>1, <2>1, JobContexts, ProbeType, TestType, BatchType, CancelType DEF Next
<1>2. ASSUME TypeInv, Next PROVE TypeInv'
  BY <1>1, <1>2, NextNodes, NodesType, RestIsType DEF TypeInv, TypeOK, RestType
<1>3. ASSUME TypeInv, UNCHANGED vars PROVE TypeInv'
  BY <1>3 DEF TypeInv, TypeOK, OutcomeKnown
<1> QED
  BY <1>2, <1>3

LEMMA InitType == Init => TypeInv
BY DEF Init, TypeInv, TypeOK, OutcomeKnown, Statuses, JobStates, CtxErrs, BatchStates

(* Every reachable state has its type, and a result is there before it is   *)
(* written.                                                                 *)
THEOREM TypeCorrect == Spec => []TypeOK
<1>1. TypeInv => TypeOK
  BY DEF TypeInv
<1> QED
  BY <1>1, InitType, TypeStep, PTL DEF Spec
-----------------------------------------------------------------------------
(* The set of failed nodes is the set of nodes shown as unavailable: no     *)
(* locked section writes one of the two without the other.                  *)
THEOREM FailedShown == Spec => []FailedIsShown
<1>1. Init => FailedIsShown
  BY DEF Init, FailedIsShown
<1>2. TypeInv /\ FailedIsShown /\ [Next]_vars => FailedIsShown'
  <2>1. ASSUME TypeOK, FailedIsShown, NodeStep PROVE FailedIsShown'
    <3>1. ASSUME NEW n \in Nodes, NEW st \in Statuses, Set(n, st) PROVE FailedIsShown'
      BY <2>1, <3>1 DEF FailedIsShown, Set, TypeOK
    <3>2. ASSUME NEW ns \in SUBSET Nodes, MarkTesting(ns) PROVE FailedIsShown'
      BY <2>1, <3>2 DEF FailedIsShown, MarkTesting, TypeOK
    <3>3. CASE UNCHANGED nodeVars
      BY <2>1, <3>3 DEF FailedIsShown
    <3> QED
      BY <2>1, <3>1, <3>2, <3>3 DEF NodeStep
  <2>2. CASE UNCHANGED vars
    BY <2>2 DEF FailedIsShown
  <2> QED
    BY <2>1, <2>2, NextNodes DEF TypeInv
<1> QED
  BY <1>1, <1>2, InitType, TypeStep, PTL DEF Spec

-----------------------------------------------------------------------------
(* Jobs of a batch have their node, and do nothing until the batch runs.    *)
Shape ==
  \A b \in Batches :
    /\ \A n \in Nodes : node[<<b, n>>] = n
    /\ bpc[b] \in {"none", "started", "listed"} =>
         left[b] = {} /\ \A n \in Nodes : pc[<<b, n>>] = "none"

(* A step of a job changes no other job.                                    *)
LEMMA ProbeIsLocal ==
  ASSUME TypeInv, NEW p \in Jobs, Probe(p)
  PROVE  /\ UNCHANGED <<node, left, bpc>> /\ pc[p] # "none"
         /\ \A q \in Jobs \ {p} : pc'[q] = pc[q] /\ err'[q] = err[q]
<1> USE DEF TypeInv, TypeOK
<1>1. CASE Check(p) \/ Skip(p) \/ Register(p) \/ Begin(p) \/ Mark(p)
  BY <1>1 DEF Check, Skip, Register, Begin, Mark
<1>2. CASE Dial(p) \/ WriteFails(p) \/ Commit(p) \/ Post(p)
  BY <1>2 DEF Dial, WriteFails, Commit, Post
<1>3. CASE Panic(p) \/ Recover(p) \/ Unregister(p)
  BY <1>3 DEF Panic, Recover, Unregister
<1> QED
  BY <1>1, <1>2, <1>3 DEF Probe

LEMMA ShapeStep == TypeInv /\ Shape /\ [Next]_vars => Shape'
<1> SUFFICES ASSUME TypeInv, Shape, [Next]_vars PROVE Shape'
  OBVIOUS
<1> USE DEF TypeInv, TypeOK
<1>0. \A b \in Batches, n \in Nodes : <<b, n>> \in Jobs /\ <<b, n>> \notin Tests
  BY NodeProbeAssumption DEF Jobs
<1>1. ASSUME NEW p \in Jobs, Probe(p) PROVE Shape'
  BY <1>0, <1>1, ProbeIsLocal DEF Shape
<1>2. CASE UNCHANGED <<pc, node, bpc, left>>
  BY <1>2 DEF Shape
<1>3. ASSUME NEW t \in Tests, TestNode(t) \/ AnswerResult(t) PROVE Shape'
  BY <1>0, <1>3 DEF Shape, TestNode, AnswerResult, Normalize
<1>4. ASSUME NEW b \in Batches, StartBatch(b) \/ ListBatch(b) \/ SweepStart(b) \/ FinishBatch(b)
      PROVE  Shape'
  BY <1>4 DEF Shape, StartBatch, ListBatch, SweepStart, FinishBatch
<1>5. ASSUME NEW b \in Batches, RunBatch(b) PROVE Shape'
  BY <1>0, <1>5 DEF Shape, RunBatch, JobsOf
<1>6. ASSUME NEW b \in Batches, DropRest(b) PROVE Shape'
  BY <1>0, <1>6 DEF Shape, DropRest
<1>7. ASSUME NEW b \in Batches, NEW n \in Nodes, Enqueue(b, n) \/ Dequeue(b, n) PROVE Shape'
  <2>1. pc[<<b, n>>] # "none" /\ UNCHANGED <<node, bpc, left>>
        /\ \A q \in Jobs \ {<<b, n>>} : pc'[q] = pc[q]
    BY <1>0, <1>7 DEF Enqueue, Dequeue, AtHead
  <2> QED
    BY <1>0, <2>1 DEF Shape
<1>8. ASSUME NEW b \in Batches, NEW n \in Nodes, Collect(b, n) \/ Sweep(b, n) PROVE Shape'
  BY <1>0, <1>8 DEF Shape, Collect, Sweep, Normalize
<1> QED
  BY <1>1, <1>2, <1>3, <1>4, <1>5, <1>6, <1>7, <1>8 DEF Next, Batch, CallCancel, Deadline,
     AnswerTimeout, Watchdog, CancelBatch, CancelNode
LEMMA InitShape == Init => Shape
BY DEF Init, Shape, Jobs

LEMMA JobNames ==
  \A b \in Batches, n \in Nodes : <<b, n>> \in Jobs /\ <<b, n>> \notin Tests
BY NodeProbeAssumption DEF Jobs

-----------------------------------------------------------------------------
(* The table of cancel functions                                            *)

(* Steps of other goroutines change no job that is in the table.            *)
LEMMA OthersEntries ==
  ASSUME TypeInv, Shape, [Next]_vars, \A p \in Jobs : ~Probe(p)
  PROVE  /\ UNCHANGED <<nodeTests, node>>
         /\ \A p \in Jobs : pc[p] \in InTable \/ pc'[p] \in InTable => pc'[p] = pc[p]
<1> USE DEF TypeInv, TypeOK
<1>1. UNCHANGED <<nodeTests, node>>
  <2>1. ASSUME NEW t \in Tests,
               TestNode(t) \/ Deadline(t) \/ AnswerResult(t) \/ AnswerTimeout(t)
        PROVE  UNCHANGED <<nodeTests, node>>
    BY <2>1 DEF TestNode, Deadline, AnswerResult, AnswerTimeout
  <2>2. ASSUME NEW b \in Batches, StartBatch(b) \/ Batch(b) \/ Watchdog(b)
        PROVE  UNCHANGED <<nodeTests, node>>
    <3>1. CASE StartBatch(b) \/ ListBatch(b) \/ RunBatch(b) \/ Watchdog(b)
      BY <3>1 DEF StartBatch, ListBatch, RunBatch, Watchdog
    <3>2. CASE DropRest(b) \/ SweepStart(b) \/ FinishBatch(b)
      BY <3>2 DEF DropRest, SweepStart, FinishBatch
    <3>3. ASSUME NEW n \in Nodes, Enqueue(b, n) \/ Dequeue(b, n) \/ Collect(b, n) \/ Sweep(b, n)
          PROVE  UNCHANGED <<nodeTests, node>>
      BY <3>3 DEF Enqueue, Dequeue, Collect, Sweep
    <3> QED
      BY <2>2, <3>1, <3>2, <3>3 DEF Batch
  <2>3. CASE CancelBatch \/ (\E n \in Nodes : CancelNode(n)) \/ \E p \in Jobs : CallCancel(p)
    BY <2>3 DEF CancelBatch, CancelNode, CallCancel
  <2>4. CASE UNCHANGED vars
    BY <2>4
  <2> QED
    BY <2>1, <2>2, <2>3, <2>4 DEF Next
<1>2. \A p \in Jobs : pc[p] \in InTable \/ pc'[p] \in InTable => pc'[p] = pc[p]
  <2>1. CASE UNCHANGED pc
    BY <2>1
  <2>2. ASSUME NEW t \in Tests, TestNode(t) \/ AnswerResult(t)
        PROVE  \A p \in Jobs : pc[p] \in InTable \/ pc'[p] \in InTable => pc'[p] = pc[p]
    BY <2>2 DEF TestNode, AnswerResult, Normalize, InTable
  <2>3. ASSUME NEW b \in Batches, RunBatch(b), NEW p \in Jobs,
               pc[p] \in InTable \/ pc'[p] \in InTable
        PROVE  pc'[p] = pc[p]
    <3>1. \A n \in Nodes : pc[<<b, n>>] = "none"
      BY <2>3 DEF RunBatch, Shape
    <3>2. p \notin JobsOf(b)
      BY <2>3, <3>1 DEF RunBatch, JobsOf, InTable
    <3> QED
      BY <2>3, <3>2 DEF RunBatch
  <2>4. ASSUME NEW b \in Batches, DropRest(b)
        PROVE  \A p \in Jobs : pc[p] \in InTable \/ pc'[p] \in InTable => pc'[p] = pc[p]
    BY <2>4 DEF DropRest, InTable
  <2>5. ASSUME NEW b \in Batches, NEW n \in Nodes, Enqueue(b, n) \/ Dequeue(b, n) \/ Collect(b, n)
        PROVE  \A p \in Jobs : pc[p] \in InTable \/ pc'[p] \in InTable => pc'[p] = pc[p]
    BY <2>5, JobNames DEF Enqueue, Dequeue, Collect, Normalize, AtHead, InTable
  <2> QED
    BY <2>1, <2>2, <2>3, <2>4, <2>5 DEF Next, Deadline, AnswerTimeout, StartBatch, Batch,
       ListBatch, SweepStart, FinishBatch, Sweep, Watchdog, CancelBatch, CancelNode, CallCancel
<1> QED
  BY <1>1, <1>2

(* Who shares a node with another is known to.                              *)
SharesNoted == \A p \in Jobs : Shares(p) => p \in beside

LEMMA ProbeEntries ==
  ASSUME TypeInv, CancelFindsTest, SharesNoted, NEW p \in Jobs, Probe(p),
         \A q \in Jobs : q \in beside \/ Shares(q)' => q \in beside'
  PROVE  CancelFindsTest'
<1> USE DEF TypeInv, TypeOK, Entered
<1>1. node' = node /\ \A q \in Jobs \ {p} : pc'[q] = pc[q]
  BY ProbeIsLocal
<1>2. CASE Register(p)
  <2>1. pc'[p] = "begin" /\ nodeTests' = [nodeTests EXCEPT ![node[p]] = p]
    BY <1>2 DEF Register
  <2>2. ASSUME NEW n \in Nodes, nodeTests'[n] # NoJob
        PROVE  node'[nodeTests'[n]] = n /\ Entered(nodeTests[n])'
    BY <1>1, <2>1, <2>2 DEF CancelFindsTest, InTable
  <2>3. ASSUME NEW q \in Jobs, q \notin beside', Entered(q)'
        PROVE  nodeTests'[node'[q]] = q
    <3>1. CASE q = p
      BY <1>1, <2>1, <3>1
    <3>2. CASE q # p
      <4>1. Entered(p)' /\ Entered(q) /\ q \notin beside
        BY <1>1, <2>1, <2>3, <3>2 DEF InTable
      <4>2. node[q] # node[p]
        BY <1>1, <2>3, <3>2, <4>1 DEF Shares
      <4> QED
        BY <1>1, <2>1, <4>1, <4>2 DEF CancelFindsTest
    <3> QED
      BY <3>1, <3>2
  <2> QED
    BY <2>2, <2>3 DEF CancelFindsTest
<1>3. CASE Unregister(p)
  <2>1. /\ nodeTests' = [nodeTests EXCEPT ![node[p]] = NoJob]
        /\ pc[p] \in InTable /\ pc'[p] \notin InTable
    BY <1>3 DEF Unregister, InTable
  <2>2. ASSUME NEW n \in Nodes, nodeTests'[n] # NoJob
        PROVE  node'[nodeTests'[n]] = n /\ Entered(nodeTests[n])'
    <3>1. n # node[p] /\ nodeTests'[n] = nodeTests[n]
      BY <2>1, <2>2
    <3>2. node[nodeTests[n]] = n /\ Entered(nodeTests[n])
      BY <2>2, <3>1 DEF CancelFindsTest
    <3>3. nodeTests[n] \in Jobs \ {p}
      BY <2>2, <3>1, <3>2
    <3> QED
      BY <1>1, <3>1, <3>2, <3>3
  <2>3. ASSUME NEW q \in Jobs, q \notin beside', Entered(q)'
        PROVE  nodeTests'[node'[q]] = q
    <3>1. q # p /\ Entered(q) /\ q \notin beside
      BY <1>1, <2>1, <2>3
    <3>2. node[q] # node[p]
      BY <2>1, <3>1 DEF SharesNoted, Shares
    <3> QED
      BY <1>1, <2>1, <3>1, <3>2 DEF CancelFindsTest
  <2> QED
    BY <2>2, <2>3 DEF CancelFindsTest
<1>4. CASE ~(Register(p) \/ Unregister(p))
  <2>1. nodeTests' = nodeTests
    BY <1>4 DEF Probe, Check, Skip, Begin, Mark, Dial, WriteFails, Commit, Post, Panic, Recover
  <2>2. pc[p] \in InTable <=> pc'[p] \in InTable
    BY <1>4 DEF Probe, Check, Skip, Begin, Mark, Dial, WriteFails, Commit, Post, Panic, Recover, InTable
  <2> QED
    BY <1>1, <2>1, <2>2 DEF CancelFindsTest
<1> QED
  BY <1>2, <1>3, <1>4

(* A cancel finds a test under the node it names, which has not removed     *)
(* itself yet, and every test that never shared its node with another can   *)
(* be found, for any number of nodes, tests and batches.                    *)
THEOREM CancelsFindTests == CancelSpec => []CancelFindsTest
<1>1. CancelInit => CancelFindsTest /\ SharesNoted
  BY DEF CancelInit, Init, CancelFindsTest, SharesNoted, Shares, Entered, InTable
<1>2. [CancelNext]_cancelVars => [Next]_vars
  BY DEF CancelNext, cancelVars
<1>3. TypeInv /\ Shape /\ CancelFindsTest /\ SharesNoted /\ [CancelNext]_cancelVars
        => CancelFindsTest' /\ SharesNoted'
  <2> SUFFICES ASSUME TypeInv, Shape, CancelFindsTest, SharesNoted, [CancelNext]_cancelVars
               PROVE  CancelFindsTest' /\ SharesNoted'
    OBVIOUS
  <2>1. CASE UNCHANGED cancelVars
    BY <2>1 DEF cancelVars, vars, nodeVars, tableVars, jobVars, CancelFindsTest, SharesNoted, Shares, Entered
  <2>2. CASE CancelNext
    <3>1. \A q \in Jobs : q \in beside \/ Shares(q)' => q \in beside'
      BY <2>2 DEF CancelNext
    <3>2. ASSUME NEW p \in Jobs, Probe(p) PROVE CancelFindsTest'
      BY <3>1, <3>2, ProbeEntries
    <3>3. ASSUME \A p \in Jobs : ~Probe(p) PROVE CancelFindsTest'
      <4>1. /\ UNCHANGED <<nodeTests, node>>
            /\ \A p \in Jobs : pc[p] \in InTable \/ pc'[p] \in InTable => pc'[p] = pc[p]
        BY <1>2, <3>3, OthersEntries
      <4> QED
        BY <3>1, <4>1 DEF CancelFindsTest, Entered, TypeInv, TypeOK
    <3> QED
      BY <3>1, <3>2, <3>3 DEF SharesNoted
  <2> QED
    BY <2>1, <2>2
<1> QED
  BY <1>1, <1>2, <1>3, InitType, TypeStep, InitShape, ShapeStep, PTL DEF CancelSpec, CancelInit
-----------------------------------------------------------------------------
(* Who will have the last word on a node in test: a job that has marked it  *)
(* and not yet written its result, or a collector that waits for a job      *)
(* which has still to speak or to which an error happened.                  *)
InTest == {"dial", "commit", "panicked", "recovered"}
LastWord == {"post", "unregister", "result"}
Owes(b, n) == n \in left[b] /\ (pc[<<b, n>>] \in LastWord => err[<<b, n>>] # "none")
Tested(n) ==
  \/ \E p \in Jobs : node[p] = n /\ pc[p] \in InTest
  \/ \E b \in Batches : Owes(b, n)
TestedInv == \A n \in Nodes : status[n] = "testing" => Tested(n)

(* A node that is given a status leaves the others alone and is not in test.*)
LEMMA MarkValue ==
  ASSUME TypeOK, NEW n \in Nodes, NEW e, MarkFailed(n) \/ MarkCancelled(n) \/ MarkInterrupted(n, e)
  PROVE  status'[n] # "testing" /\ \A m \in Nodes \ {n} : status'[m] = status[m]
BY DEF MarkFailed, MarkCancelled, MarkInterrupted, Set, TypeOK

(* What a step of a job may leave behind on its node.                       *)
Quiet(p) ==
  /\ status'[node[p]] = status[node[p]] /\ pc[p] \notin InTest
  /\ pc'[p] \in LastWord => err'[p] # "none" \/ (pc[p] \in LastWord /\ err'[p] = err[p])

LEMMA ProbeStatus ==
  ASSUME TypeInv, NEW p \in Jobs, Probe(p)
  PROVE  /\ \A m \in Nodes \ {node[p]} : status'[m] = status[m]
         /\ status'[node[p]] # "testing" \/ pc'[p] \in InTest \/ Quiet(p)
<1> USE DEF TypeInv, TypeOK
<1>1. node[p] \in Nodes
  OBVIOUS
<1>2. CASE Check(p) \/ Register(p)
  BY <1>2 DEF Check, Register, Quiet, InTest, LastWord
<1>3. CASE Begin(p)
  BY <1>3 DEF Begin, Done, Quiet, InTest, LastWord
<1>4. CASE Skip(p) \/ WriteFails(p) \/ Recover(p)
  BY <1>1, <1>4, MarkValue DEF Skip, WriteFails, Recover
<1>5. CASE Mark(p)
  BY <1>1, <1>5 DEF Mark, MarkTesting, InTest
<1>6. CASE Dial(p)
  <2>1. CASE UNCHANGED nodeVars /\ pc' = [pc EXCEPT ![p] = "commit"]
    BY <2>1 DEF InTest
  <2>2. CASE MarkInterrupted(node[p], ctx[p])
    BY <1>1, <2>2, MarkValue
  <2> QED
    BY <1>6, <2>1, <2>2 DEF Dial
<1>7. CASE Commit(p)
  <2>1. CASE status[node[p]] = "cancelled"
    BY <1>1, <1>7, <2>1 DEF Commit
  <2>2. CASE status[node[p]] # "cancelled"
    BY <1>1, <1>7, <2>2 DEF Commit, Set
  <2> QED
    BY <2>1, <2>2
<1>8. CASE Post(p)
  <2>1. CASE Done(p)
    BY <1>1, <1>8, <2>1, MarkValue DEF Post
  <2>2. CASE ~Done(p)
    BY <1>8, <2>2 DEF Post, Quiet, InTest, LastWord
  <2> QED
    BY <2>1, <2>2
<1>9. CASE Panic(p)
  BY <1>9 DEF Panic, InTest
<1>10. CASE Unregister(p)
  BY <1>10 DEF Unregister, Quiet, InTest, LastWord
<1> QED
  BY <1>2, <1>3, <1>4, <1>5, <1>6, <1>7, <1>8, <1>9, <1>10 DEF Probe

LEMMA ProbeTested ==
  ASSUME TypeInv, Shape, TestedInv, NEW p \in Jobs, Probe(p)
  PROVE  TestedInv'
<1> USE DEF TypeInv, TypeOK
<1>1. UNCHANGED <<node, left>> /\ \A q \in Jobs \ {p} : pc'[q] = pc[q] /\ err'[q] = err[q]
  BY ProbeIsLocal
<1> SUFFICES ASSUME NEW n \in Nodes, status'[n] = "testing" PROVE Tested(n)'
  BY DEF TestedInv
<1>2. CASE n = node[p] /\ pc'[p] \in InTest
  BY <1>1, <1>2 DEF Tested
<1>3. CASE n # node[p] \/ Quiet(p)
  <2>1. Tested(n)
    BY <1>3, ProbeStatus DEF TestedInv, Quiet
  <2>2. ASSUME NEW q \in Jobs, node[q] = n, pc[q] \in InTest PROVE Tested(n)'
    <3>1. q # p
      BY <1>3, <2>2 DEF Quiet
    <3> QED
      BY <1>1, <2>2, <3>1 DEF Tested
  <2>3. ASSUME NEW b \in Batches, Owes(b, n) PROVE Tested(n)'
    <3>1. <<b, n>> \in Jobs /\ node[<<b, n>>] = n
      BY JobNames DEF Shape
    <3>2. CASE <<b, n>> # p
      BY <1>1, <2>3, <3>1, <3>2 DEF Tested, Owes
    <3>3. CASE <<b, n>> = p
      BY <1>1, <1>3, <2>3, <3>1, <3>3 DEF Tested, Owes, Quiet
    <3> QED
      BY <3>2, <3>3
  <2> QED
    BY <2>1, <2>2, <2>3 DEF Tested
<1> QED
  BY <1>2, <1>3, ProbeStatus

(* Steps that leave the jobs in test and the collectors alone.              *)
LEMMA QuietTested ==
  ASSUME TypeInv, TestedInv, UNCHANGED <<node, err, left>>,
         \A n \in Nodes : status'[n] = "testing" => status[n] = "testing",
         \A q \in Jobs : pc'[q] = pc[q] \/ (pc[q] \notin InTest /\ pc'[q] \notin LastWord)
  PROVE  TestedInv'
BY JobNames DEF TestedInv, Tested, Owes

(* The collector takes a result, which has the last word if it is an error. *)
LEMMA NormalizeTested ==
  ASSUME TypeInv, TestedInv, NEW p \in Jobs, Normalize(p), node' = node,
         \A b \in Batches, n \in Nodes :
           n \in left[b] => n \in left'[b] \/ (<<b, n>> = p /\ node[p] = n),
         NEW n \in Nodes, status'[n] = "testing",
         \A b \in Batches : <<b, n>> = p => n \notin left'[b]
  PROVE  Tested(n)'
<1> USE DEF TypeInv, TypeOK
<1>1. node[p] \in Nodes /\ pc[p] = "result"
  BY DEF Normalize
<1>2. \A q \in Jobs \ {p} : pc'[q] = pc[q] /\ err'[q] = err[q]
  BY DEF Normalize
<1>3. status[n] = "testing" /\ (n = node[p] => err[p] = "none")
  BY <1>1, MarkValue DEF Normalize
<1>4. ASSUME NEW q \in Jobs, node[q] = n, pc[q] \in InTest PROVE Tested(n)'
  BY <1>1, <1>2, <1>4 DEF Tested, InTest
<1>5. ASSUME NEW b \in Batches, Owes(b, n) PROVE Tested(n)'
  <2>1. <<b, n>> \in Jobs
    BY JobNames
  <2>2. CASE <<b, n>> # p
    BY <1>2, <1>5, <2>1, <2>2 DEF Tested, Owes
  <2>3. CASE <<b, n>> = p
    BY <1>1, <1>3, <1>5, <2>3 DEF Owes, LastWord
  <2> QED
    BY <2>2, <2>3
<1> QED
  BY <1>3, <1>4, <1>5 DEF TestedInv, Tested
LEMMA TestTested ==
  ASSUME TypeInv, TestedInv, NEW t \in Tests,
         TestNode(t) \/ Deadline(t) \/ AnswerResult(t) \/ AnswerTimeout(t)
  PROVE  TestedInv'
<1> USE DEF TypeInv, TypeOK
<1>1. t \in Jobs /\ \A b \in Batches, n \in Nodes : <<b, n>> # t
  BY JobNames DEF Jobs
<1>2. CASE TestNode(t)
  BY <1>1, <1>2, QuietTested DEF TestNode, InTest, LastWord
<1>3. CASE Deadline(t)
  BY <1>3, QuietTested DEF Deadline
<1>4. CASE AnswerResult(t)
  BY <1>1, <1>4, NormalizeTested DEF AnswerResult, TestedInv
<1>5. CASE AnswerTimeout(t)
  <2>1. \A n \in Nodes : status'[n] = "testing" => status[n] = "testing"
    BY <1>1, <1>5, MarkValue DEF AnswerTimeout
  <2> QED
    BY <1>5, <2>1, QuietTested DEF AnswerTimeout
<1> QED
  BY <1>2, <1>3, <1>4, <1>5

LEMMA RunTested ==
  ASSUME TypeInv, Shape, TestedInv, NEW b \in Batches, RunBatch(b)
  PROVE  TestedInv'
<1> USE DEF TypeInv, TypeOK
<1>1. left[b] = {} /\ left' = [left EXCEPT ![b] = members[b]]
  BY DEF RunBatch, Shape
<1>2. \A n \in Nodes : node[<<b, n>>] = n /\ <<b, n>> \in Jobs /\ <<b, n>> \in JobsOf(b)
  BY JobNames DEF Shape, JobsOf
<1> SUFFICES ASSUME NEW n \in Nodes, status'[n] = "testing" PROVE Tested(n)'
  BY DEF TestedInv
<1>3. CASE n \in members[b]
  <2>1. pc'[<<b, n>>] = "waiting"
    BY <1>2, <1>3 DEF RunBatch
  <2>2. Owes(b, n)'
    BY <1>1, <1>3, <2>1 DEF Owes, LastWord
  <2> QED
    BY <2>2 DEF Tested
<1>4. CASE n \notin members[b]
  <2>1. status[n] = "testing"
    BY <1>4 DEF RunBatch, MarkTesting
  <2>2. ASSUME NEW q \in Jobs, node[q] = n, pc[q] \in InTest PROVE Tested(n)'
    BY <1>4, <2>2 DEF RunBatch, Tested
  <2>3. ASSUME NEW c \in Batches, Owes(c, n) PROVE Tested(n)'
    <3>1. c # b
      BY <1>1, <2>3 DEF Owes
    <3>2. <<c, n>> \in Jobs /\ <<c, n>> \notin JobsOf(b)
      BY <3>1, JobNames DEF JobsOf
    <3>3. Owes(c, n)'
      BY <1>1, <2>3, <3>1, <3>2 DEF RunBatch, Owes
    <3> QED
      BY <3>3 DEF Tested
  <2> QED
    BY <2>1, <2>2, <2>3 DEF TestedInv, Tested
<1> QED
  BY <1>3, <1>4

LEMMA BatchTested ==
  ASSUME TypeInv, Shape, TestedInv, NEW b \in Batches, StartBatch(b) \/ Batch(b) \/ Watchdog(b)
  PROVE  TestedInv'
<1> USE DEF TypeInv, TypeOK
<1>1. CASE StartBatch(b) \/ ListBatch(b) \/ SweepStart(b) \/ FinishBatch(b) \/ Watchdog(b)
  BY <1>1, QuietTested DEF StartBatch, ListBatch, SweepStart, FinishBatch, Watchdog
<1>2. CASE RunBatch(b)
  BY <1>2, RunTested
<1>3. CASE DropRest(b)
  BY <1>3, QuietTested DEF DropRest, InTest, LastWord
<1>4. ASSUME NEW n \in Nodes, Enqueue(b, n) \/ Dequeue(b, n) PROVE TestedInv'
  <2>1. \A q \in Jobs : pc'[q] = pc[q] \/ (pc[q] \notin InTest /\ pc'[q] \notin LastWord)
    BY <1>4, JobNames DEF Enqueue, Dequeue, AtHead, InTest, LastWord
  <2>2. UNCHANGED <<node, err, left, status>>
    BY <1>4 DEF Enqueue, Dequeue
  <2> QED
    BY <2>1, <2>2, QuietTested
<1>5. ASSUME NEW n \in Nodes, Collect(b, n) PROVE TestedInv'
  <2>1. <<b, n>> \in Jobs /\ node[<<b, n>>] = n
    BY JobNames DEF Shape
  <2>2. Normalize(<<b, n>>) /\ node' = node /\ left' = [left EXCEPT ![b] = @ \ {n}]
    BY <1>5 DEF Collect
  <2>3. \A c \in Batches, m \in Nodes :
          m \in left[c] => m \in left'[c] \/ (<<c, m>> = <<b, n>> /\ node[<<b, n>>] = m)
    BY <2>1, <2>2
  <2>4. \A c \in Batches, m \in Nodes : <<c, m>> = <<b, n>> => m \notin left'[c]
    BY <2>2
  <2> QED
    BY <2>1, <2>2, <2>3, <2>4, NormalizeTested DEF TestedInv
<1>6. ASSUME NEW n \in Nodes, Sweep(b, n) PROVE TestedInv'
  <2>1. status'[n] # "testing" /\ \A m \in Nodes \ {n} : status'[m] = status[m]
    BY <1>6, MarkValue DEF Sweep
  <2>2. UNCHANGED <<node, pc, err>> /\ left' = [left EXCEPT ![b] = @ \ {n}]
    BY <1>6 DEF Sweep
  <2>3. \A m \in Nodes \ {n} : Tested(m) => Tested(m)'
    BY <2>2 DEF Tested, Owes
  <2> QED
    BY <2>1, <2>3 DEF TestedInv
<1> QED
  BY <1>1, <1>2, <1>3, <1>4, <1>5, <1>6 DEF Batch

LEMMA TestedStep == TypeInv /\ Shape /\ TestedInv /\ [Next]_vars => TestedInv'
<1> SUFFICES ASSUME TypeInv, Shape, TestedInv, [Next]_vars PROVE TestedInv'
  OBVIOUS
<1>1. CASE (\E p \in Jobs : CallCancel(p)) \/ CancelBatch \/ UNCHANGED vars
  BY <1>1, QuietTested DEF CallCancel, CancelBatch
<1>2. ASSUME NEW n \in Nodes, CancelNode(n) PROVE TestedInv'
  <2>1. \A m \in Nodes : status'[m] = "testing" => status[m] = "testing"
    BY <1>2, MarkValue DEF CancelNode, TypeInv
  <2> QED
    BY <1>2, <2>1, QuietTested DEF CancelNode
<1> QED
  BY <1>1, <1>2, ProbeTested, TestTested, BatchTested DEF Next

(* A node shown "testing" has a job under way or a collector that owes it a *)
(* result.                                                                  *)
THEOREM TestingTested == Spec => []TestingIsTested
<1>1. Init => TestedInv
  BY DEF Init, TestedInv
<1>2. TestedInv => TestingIsTested
  BY DEF TestedInv, TestingIsTested, Tested, Owes, UnderWay, InTest
<1> QED
  BY <1>1, <1>2, InitType, TypeStep, InitShape, ShapeStep, TestedStep, PTL DEF Spec

-----------------------------------------------------------------------------
(* Contexts.  A job that is registered has a context below its request's or *)
(* its batch's.                                                             *)
ContextsFollow ==
  \A p \in Jobs : pc[p] \in InTable /\ Parent(p) # "none" => ctx[p] # "none"

(* How the steps of others leave a registered job.                          *)
Follows(p) ==
  /\ pc'[p] \in InTable => pc[p] \in InTable
  /\ ctx[p] # "none" => ctx'[p] # "none"
  /\ Parent(p)' # "none" => Parent(p) # "none" \/ ctx'[p] # "none"

LEMMA ParentOf ==
  /\ \A t \in Tests : Parent(t) = deadline[t]
  /\ \A b \in Batches, n \in Nodes : Parent(<<b, n>>) = bctx[b]
BY JobNames DEF Parent

LEMMA ParentKept ==
  ASSUME NEW p \in Jobs, UNCHANGED <<deadline, bctx>>
  PROVE  Parent(p)' = Parent(p)
BY DEF Parent

LEMMA EndedFollow ==
  ASSUME TypeInv, NEW b \in Batches, NEW e \in CtxErrs \ {"none"}, EndContexts(b, e)
  PROVE  \A p \in Jobs :
           /\ ctx[p] # "none" => ctx'[p] # "none"
           /\ Parent(p)' # "none" => Parent(p) # "none" \/ ctx'[p] # "none"
<1> USE DEF TypeInv, TypeOK
<1>1. bctx' = [bctx EXCEPT ![b] = IF @ = "none" THEN e ELSE @] /\ deadline' = deadline
  BY DEF EndContexts
<1>2. bctx'[b] # "none"
  BY <1>1
<1>3. ASSUME NEW p \in Jobs
      PROVE  ctx'[p] = IF p \in JobsOf(b) /\ ctx[p] = "none" THEN bctx'[b] ELSE ctx[p]
  BY DEF EndContexts
<1>4. ASSUME NEW p \in Jobs, Parent(p)' # "none", p \notin JobsOf(b)
      PROVE  Parent(p) # "none"
  <2>1. CASE p \in Tests
    BY <1>1, <1>4, <2>1 DEF Parent
  <2>2. CASE p \notin Tests
    <3>1. PICK c \in Batches, n \in Nodes : p = <<c, n>>
      BY <2>2 DEF Jobs
    <3>2. c # b
      BY <1>4, <3>1 DEF JobsOf
    <3> QED
      BY <1>1, <1>4, <2>2, <3>1, <3>2 DEF Parent
  <2> QED
    BY <2>1, <2>2
<1> QED
  BY <1>2, <1>3, <1>4

LEMMA ContextsStep ==
  TypeInv /\ Shape /\ ContextsFollow /\ [Next]_vars => ContextsFollow'
<1> SUFFICES ASSUME TypeInv, Shape, ContextsFollow, [Next]_vars PROVE ContextsFollow'
  OBVIOUS
<1> USE DEF TypeInv, TypeOK
<1>0. ASSUME \A p \in Jobs : Follows(p) PROVE ContextsFollow'
  BY <1>0 DEF ContextsFollow, Follows
<1>1. ASSUME NEW p \in Jobs, Probe(p) PROVE ContextsFollow'
  <2>1. \A q \in Jobs \ {p} : pc'[q] = pc[q]
    BY <1>1, ProbeIsLocal
  <2>2. UNCHANGED <<deadline, bctx>>
    BY <1>1 DEF Probe, Check, Skip, Register, Begin, Mark, Dial, WriteFails, Commit, Post, Panic,
       Recover, Unregister
  <2>3. \A q \in Jobs : Parent(q)' = Parent(q)
    BY <2>2, ParentKept
  <2>4. CASE Register(p)
    <3>1. ctx' = [ctx EXCEPT ![p] = Parent(p)]
      BY <2>4 DEF Register
    <3> QED
      BY <2>1, <2>3, <3>1 DEF ContextsFollow
  <2>5. CASE ~Register(p)
    <3>1. ctx' = ctx
      BY <1>1, <2>5 DEF Probe, Check, Skip, Begin, Mark, Dial, WriteFails, Commit, Post, Panic,
         Recover, Unregister
    <3>2. pc'[p] \in InTable => pc[p] \in InTable
      BY <1>1, <2>5 DEF Probe, Check, Skip, Begin, Mark, Dial, WriteFails, Commit, Post, Panic,
         Recover, Unregister, InTable
    <3> QED
      BY <2>1, <2>3, <3>1, <3>2 DEF ContextsFollow
  <2> QED
    BY <2>4, <2>5
<1>2. ASSUME NEW p \in Jobs, CallCancel(p) PROVE ContextsFollow'
  <2>1. \A q \in Jobs : Parent(q)' = Parent(q)
    BY <1>2, ParentKept DEF CallCancel
  <2> QED
    BY <1>0, <1>2, <2>1 DEF CallCancel, Follows
<1>3. ASSUME NEW t \in Tests, TestNode(t) \/ AnswerResult(t) \/ AnswerTimeout(t)
      PROVE  ContextsFollow'
  <2>1. \A q \in Jobs : Parent(q)' = Parent(q)
    BY <1>3, ParentKept DEF TestNode, AnswerResult, AnswerTimeout
  <2>2. ctx' = ctx /\ \A q \in Jobs : pc'[q] \in InTable => pc[q] \in InTable
    BY <1>3 DEF TestNode, AnswerResult, AnswerTimeout, Normalize, InTable
  <2> QED
    BY <1>0, <2>1, <2>2 DEF Follows
<1>4. ASSUME NEW t \in Tests, Deadline(t) PROVE ContextsFollow'
  <2>1. pc' = pc /\ bctx' = bctx /\ t \in Jobs
        /\ ctx' = [ctx EXCEPT ![t] = IF @ = "none" THEN "expired" ELSE @]
        /\ deadline' = [deadline EXCEPT ![t] = "expired"]
    BY <1>4 DEF Deadline, Jobs
  <2>2. \A q \in Jobs \ {t} : Parent(q)' = Parent(q) /\ ctx'[q] = ctx[q]
    BY <2>1 DEF Parent
  <2>3. ctx'[t] # "none"
    BY <2>1
  <2> QED
    BY <1>0, <2>1, <2>2, <2>3 DEF Follows
<1>5. ASSUME NEW b \in Batches, Watchdog(b) \/ FinishBatch(b) PROVE ContextsFollow'
  <2>1. pc' = pc /\ (EndContexts(b, "expired") \/ EndContexts(b, "cancelled"))
    BY <1>5 DEF Watchdog, FinishBatch
  <2> QED
    BY <1>0, <2>1, EndedFollow DEF Follows, CtxErrs
<1>6. CASE CancelBatch
  <2>1. pc' = pc /\ batchTest \in Batches /\ EndContexts(batchTest, "cancelled")
    BY <1>6 DEF CancelBatch
  <2> QED
    BY <1>0, <2>1, EndedFollow DEF Follows, CtxErrs
<1>7. ASSUME NEW b \in Batches, StartBatch(b) \/ ListBatch(b) \/ RunBatch(b) \/ DropRest(b)
                               \/ SweepStart(b)
                               \/ \E n \in Nodes : Enqueue(b, n) \/ Dequeue(b, n)
                                                   \/ Collect(b, n) \/ Sweep(b, n)
      PROVE  ContextsFollow'
  <2>1. UNCHANGED ctxVars
    BY <1>7 DEF StartBatch, ListBatch, RunBatch, DropRest, SweepStart, Enqueue, Dequeue, Collect,
       Sweep
  <2>2. \A q \in Jobs : Parent(q)' = Parent(q)
    BY <2>1, ParentKept
  <2>3. \A q \in Jobs : pc'[q] \in InTable => pc[q] \in InTable
    <3>1. CASE pc' = pc
      BY <3>1
    <3>2. CASE RunBatch(b) \/ DropRest(b)
      BY <3>2 DEF RunBatch, DropRest, InTable
    <3>3. ASSUME NEW n \in Nodes, Enqueue(b, n) \/ Dequeue(b, n) \/ Collect(b, n)
          PROVE  \A q \in Jobs : pc'[q] \in InTable => pc[q] \in InTable
      BY <3>3, JobNames DEF Enqueue, Dequeue, Collect, Normalize, InTable
    <3> QED
      BY <1>7, <3>1, <3>2, <3>3 DEF StartBatch, ListBatch, SweepStart, Sweep
  <2> QED
    BY <1>0, <2>1, <2>2, <2>3 DEF Follows
<1>8. CASE (\E n \in Nodes : CancelNode(n)) \/ UNCHANGED vars
  <2>1. pc' = pc /\ UNCHANGED ctxVars
    BY <1>8 DEF CancelNode
  <2> QED
    BY <1>0, <2>1, ParentKept DEF Follows
<1> QED
  BY <1>1, <1>2, <1>3, <1>4, <1>5, <1>6, <1>7, <1>8 DEF Next, Batch

(* The end of a request or of a batch reaches every test under way: no test *)
(* goes on under a context that nobody ends.                                *)
THEOREM EndReachesTests == Spec => []ContextsFollow
<1>1. Init => ContextsFollow
  BY DEF Init, ContextsFollow, InTable
<1> QED
  BY <1>1, InitType, TypeStep, InitShape, ShapeStep, ContextsStep, PTL DEF Spec

(* A result that comes after the deadline of its request or after the end   *)
(* of its batch is taken back, for any number of tests and batches.          *)
THEOREM LateResultWithdrawn == Spec => LateIsWithdrawn
<1> DEFINE Late == \A p \in Jobs : Parent(p) # "none" =>
             /\ Post(p) => status'[node[p]] # "available" /\ err'[p] # "none"
             /\ Dial(p) => pc'[p] # "commit"
<1>1. TypeInv /\ ContextsFollow /\ [Next]_vars => [Late]_vars
  <2> SUFFICES ASSUME TypeInv, ContextsFollow, NEW p \in Jobs, Parent(p) # "none"
               PROVE  /\ Post(p) => status'[node[p]] # "available" /\ err'[p] # "none"
                      /\ Dial(p) => pc'[p] # "commit"
    OBVIOUS
  <2>1. Post(p) \/ Dial(p) => ctx[p] # "none"
    BY DEF ContextsFollow, Post, Dial, InTable
  <2>2. node[p] \in Nodes
    BY DEF TypeInv, TypeOK
  <2>3. ASSUME Post(p) PROVE status'[node[p]] # "available" /\ err'[p] # "none"
    BY <2>1, <2>2, <2>3 DEF Post, Done, MarkInterrupted, MarkFailed, MarkCancelled, Set, TypeInv,
       TypeOK
  <2>4. ASSUME Dial(p) PROVE pc'[p] # "commit"
    BY <2>1, <2>4 DEF Dial, Done, TypeInv, TypeOK
  <2> QED
    BY <2>3, <2>4
<1>2. Spec => []TypeInv
  BY InitType, TypeStep, PTL DEF Spec
<1> HIDE DEF Late
<1>3. Spec => [][Late]_vars
  BY <1>1, <1>2, EndReachesTests, PTL DEF Spec
<1> QED
  BY <1>3 DEF Late, LateIsWithdrawn
-----------------------------------------------------------------------------
(* Queue, workers and collector of a batch                                  *)

(* What the collector has no result for will have one: its job is on its    *)
(* way, or was dropped when the context was done, and then the sweep comes. *)
Accounted ==
  \A b \in Batches : bpc[b] = "collecting" =>
    \A n \in left[b] :
      pc[<<b, n>>] \notin {"none", "over"} /\ (pc[<<b, n>>] = "dropped" => bctx[b] # "none")

LEMMA EndedStays ==
  ASSUME TypeInv, NEW b \in Batches, NEW e \in CtxErrs \ {"none"}, EndContexts(b, e)
  PROVE  bctx'[b] # "none" /\ \A c \in Batches : bctx[c] # "none" => bctx'[c] # "none"
<1>1. bctx \in [Batches -> CtxErrs] /\ bctx' = [bctx EXCEPT ![b] = IF @ = "none" THEN e ELSE @]
  BY DEF TypeInv, TypeOK, EndContexts
<1> QED
  BY <1>1

LEMMA AccountedStep == TypeInv /\ Shape /\ Accounted /\ [Next]_vars => Accounted'
<1> SUFFICES ASSUME TypeInv, Shape, Accounted, [Next]_vars PROVE Accounted'
  OBVIOUS
<1> USE DEF TypeInv, TypeOK
<1>0. ASSUME UNCHANGED <<pc, left>>,
             \A b \in Batches : bpc'[b] = "collecting" => bpc[b] = "collecting",
             \A b \in Batches : bctx[b] # "none" => bctx'[b] # "none"
      PROVE  Accounted'
  BY <1>0 DEF Accounted
<1>1. ASSUME NEW p \in Jobs, Probe(p) PROVE Accounted'
  <2>1. pc'[p] \notin {"none", "over", "dropped"} /\ UNCHANGED bctx
    BY <1>1 DEF Probe, Check, Skip, Register, Begin, Mark, Dial, WriteFails, Commit, Post, Panic,
       Recover, Unregister
  <2> QED
    BY <1>1, <2>1, ProbeIsLocal, JobNames DEF Accounted
<1>2. ASSUME NEW p \in Jobs, CallCancel(p) PROVE Accounted'
  BY <1>0, <1>2 DEF CallCancel
<1>3. ASSUME NEW t \in Tests, TestNode(t) \/ AnswerResult(t) PROVE Accounted'
  <2>1. (\A q \in Jobs \ {t} : pc'[q] = pc[q]) /\ UNCHANGED <<bpc, left, bctx>>
    BY <1>3 DEF TestNode, AnswerResult, Normalize
  <2> QED
    BY <2>1, JobNames DEF Accounted
<1>4. ASSUME NEW t \in Tests, Deadline(t) \/ AnswerTimeout(t) PROVE Accounted'
  BY <1>0, <1>4 DEF Deadline, AnswerTimeout
<1>5. ASSUME NEW b \in Batches, StartBatch(b) \/ ListBatch(b) \/ SweepStart(b) PROVE Accounted'
  <2>1. UNCHANGED <<pc, left, bctx>> /\ \A c \in Batches : bpc'[c] = "collecting" => bpc[c] = "collecting"
    BY <1>5 DEF StartBatch, ListBatch, SweepStart
  <2> QED
    BY <1>0, <2>1
<1>6. ASSUME NEW b \in Batches, RunBatch(b) PROVE Accounted'
  <2>1. /\ bpc' = [bpc EXCEPT ![b] = "collecting"] /\ UNCHANGED bctx
        /\ left' = [left EXCEPT ![b] = members[b]]
        /\ \A q \in Jobs : pc'[q] = IF q \in JobsOf(b) /\ node[q] \in members[b] THEN "waiting" ELSE pc[q]
    BY <1>6 DEF RunBatch
  <2>2. \A n \in members[b] : pc'[<<b, n>>] = "waiting"
    BY <2>1, JobNames DEF Shape, JobsOf
  <2>3. \A c \in Batches \ {b}, n \in Nodes : pc'[<<c, n>>] = pc[<<c, n>>]
    BY <2>1, JobNames DEF JobsOf
  <2> QED
    BY <2>1, <2>2, <2>3 DEF Accounted
<1>7. ASSUME NEW b \in Batches, DropRest(b) PROVE Accounted'
  <2>1. /\ bctx[b] # "none" /\ UNCHANGED <<bpc, left, bctx>>
        /\ \A q \in Jobs : pc'[q] = IF q \in JobsOf(b) /\ pc[q] = "waiting" THEN "dropped" ELSE pc[q]
    BY <1>7 DEF DropRest
  <2> QED
    BY <2>1, JobNames DEF Accounted, JobsOf
<1>8. ASSUME NEW b \in Batches, NEW n \in Nodes, Enqueue(b, n) \/ Dequeue(b, n) PROVE Accounted'
  <2>1. /\ pc'[<<b, n>>] \in {"passed", "queued", "check"} /\ UNCHANGED <<bpc, left, bctx>>
        /\ \A q \in Jobs \ {<<b, n>>} : pc'[q] = pc[q]
    BY <1>8, JobNames DEF Enqueue, Dequeue
  <2> QED
    BY <2>1, JobNames DEF Accounted
<1>9. ASSUME NEW b \in Batches, NEW n \in Nodes, Collect(b, n) PROVE Accounted'
  <2>1. /\ left' = [left EXCEPT ![b] = @ \ {n}] /\ UNCHANGED <<bpc, bctx>>
        /\ \A q \in Jobs \ {<<b, n>>} : pc'[q] = pc[q]
    BY <1>9, JobNames DEF Collect, Normalize
  <2> QED
    BY <2>1, JobNames DEF Accounted
<1>10. ASSUME NEW b \in Batches, NEW n \in Nodes, Sweep(b, n) PROVE Accounted'
  BY <1>10 DEF Sweep, Accounted
<1>11. ASSUME NEW b \in Batches, Watchdog(b) \/ FinishBatch(b) PROVE Accounted'
  <2>1. EndContexts(b, "expired") \/ EndContexts(b, "cancelled")
    BY <1>11 DEF Watchdog, FinishBatch
  <2>2. UNCHANGED <<pc, left>> /\ \A c \in Batches : bpc'[c] = "collecting" => bpc[c] = "collecting"
    BY <1>11 DEF Watchdog, FinishBatch
  <2> QED
    BY <1>0, <2>1, <2>2, EndedStays DEF CtxErrs
<1>12. CASE CancelBatch
  <2>1. batchTest \in Batches /\ EndContexts(batchTest, "cancelled") /\ UNCHANGED <<pc, left, bpc>>
    BY <1>12 DEF CancelBatch
  <2> QED
    BY <1>0, <2>1, EndedStays DEF CtxErrs
<1>13. CASE (\E n \in Nodes : CancelNode(n)) \/ UNCHANGED vars
  <2>1. UNCHANGED <<pc, left, bpc, bctx>>
    BY <1>13 DEF CancelNode
  <2> QED
    BY <1>0, <2>1
<1> QED
  BY <1>1, <1>2, <1>3, <1>4, <1>5, <1>6, <1>7, <1>8, <1>9, <1>10, <1>11, <1>12, <1>13 DEF Next, Batch

(* Queue and workers go by the order of the nodes: one is always the first. *)
LEMMA LeastNode ==
  ASSUME NEW S \in SUBSET Nodes, S # {}
  PROVE  \E n \in S : \A m \in S : n <= m
<1>1. S \subseteq Nat
  BY NodeProbeAssumption
<1>2. PICK n \in S : \A m \in S : <<m, n>> \notin OpToRel(<, Nat)
  BY <1>1, NatLessThanWellFounded, WFMin
<1>3. \A m \in S : ~(m < n)
  BY <1>1, <1>2 DEF OpToRel
<1> QED
  BY <1>1, <1>3

(* A batch whose collector waits can go on: some job, the queue, a worker   *)
(* or the collector itself has its turn, for any number of nodes and of     *)
(* workers.                                                                 *)
THEOREM NoBatchStalls == Spec => []BatchNeverStalls
<1>1. TypeInv /\ Shape /\ Accounted => BatchNeverStalls
  <2> SUFFICES ASSUME TypeInv, Shape, Accounted, NEW b \in Batches, bpc[b] = "collecting",
                      ~MustRun(b), \A n \in Nodes : ~MustProbe(<<b, n>>)
               PROVE  FALSE
    BY DEF BatchNeverStalls
  <2> DEFINE J(st) == {n \in Nodes : pc[<<b, n>>] = st}
  <2>1. left[b] # {} /\ bctx[b] = "none" /\ left[b] \subseteq Nodes
    BY DEF MustRun, TypeInv, TypeOK
  <2>2. \A n \in Nodes : pc[<<b, n>>] \notin Moving \cup {"passed"} /\ node[<<b, n>>] = n
    BY DEF MustProbe, Shape
  <2>3. PICK n \in left[b] : TRUE
    BY <2>1
  <2>4. pc[<<b, n>>] \in JobStates
    BY <2>1, JobNames DEF TypeInv, TypeOK
  <2>5. pc[<<b, n>>] \in {"waiting", "queued"}
    BY <2>1, <2>2, <2>3, <2>4 DEF Accounted, JobStates, Moving, MustRun
  <2>0. ASSUME NEW q \in JobsOf(b) PROVE \E k \in Nodes : q = <<b, k>>
    BY DEF JobsOf
  <2>6. CASE pc[<<b, n>>] = "waiting"
    <3>1. PICK m \in J("waiting") : \A k \in J("waiting") : m <= k
      BY <2>1, <2>6, LeastNode
    <3>2. ASSUME NEW q \in JobsOf(b)
          PROVE  pc[q] # "passed" /\ (pc[q] = "waiting" => m <= node[q])
      <4>1. PICK k \in Nodes : q = <<b, k>>
        BY <2>0
      <4> QED
        BY <2>2, <3>1, <4>1
    <3>3. AtHead(b, m)
      BY <3>1, <3>2 DEF AtHead
    <3> QED
      BY <3>1, <3>3 DEF MustRun
  <2>7. CASE pc[<<b, n>>] = "queued"
    <3>1. PICK m \in J("queued") : \A k \in J("queued") : m <= k
      BY <2>1, <2>7, LeastNode
    <3>2. ASSUME NEW q \in JobsOf(b)
          PROVE  pc[q] \notin Moving /\ (pc[q] = "queued" => m <= node[q])
      <4>1. PICK k \in Nodes : q = <<b, k>>
        BY <2>0
      <4> QED
        BY <2>2, <3>1, <4>1
    <3>3. NextInLine(b, m) /\ Busy(b) = {}
      BY <3>1, <3>2 DEF NextInLine, Busy
    <3>4. Cardinality(Busy(b)) < Workers
      BY <3>3, FS_EmptySet, NodeProbeAssumption
    <3> QED
      BY <3>1, <3>3, <3>4 DEF MustRun
  <2> QED
    BY <2>5, <2>6, <2>7
<1>2. Init => Accounted
  BY DEF Init, Accounted
<1> QED
  BY <1>1, <1>2, InitType, TypeStep, InitShape, ShapeStep, AccountedStep, PTL DEF Spec
-----------------------------------------------------------------------------
(* Which cancels of one node stick                                          *)

Watched == {"begin", "mark", "dial", "commit", "post"}
Alone(b, n) ==
  /\ \A t \in Tests : node[t] = n => pc[t] = "none"
  /\ \A c \in Batches \ {b} : pc[<<c, n>>] = "none"

(* Nobody has a word on a node without having begun: a request that is out  *)
(* of time was asked, a node a batch still owes a result has a job, and one *)
(* it has a result for has a job that is over.                              *)
Begun ==
  /\ \A t \in Tests : deadline[t] # "none" => pc[t] # "none"
  /\ \A b \in Batches : \A n \in left[b] : pc[<<b, n>>] # "none"
  /\ \A b \in Batches : bpc[b] = "collecting" => \A n \in members[b] \ left[b] : pc[<<b, n>>] = "over"

(* The entry of the only job on a node is the job's own.                    *)
OwnEntry ==
  \A b \in Batches, n \in Nodes :
    Alone(b, n) /\ pc[<<b, n>>] \in Watched => nodeTests[n] = <<b, n>>

(* What becomes of a job whose node was cancelled by itself, in time.       *)
Withdrawn(p) ==
  /\ pc[p] # "register"
  /\ pc[p] \in Watched => p \in cancelling \/ Done(p)
  /\ pc[p] \in {"unregister", "result", "over"} => status[node[p]] # "available"
CancelReaches ==
  \A n \in batchCancelled \ missed : batchTest # NoBatch /\ Alone(batchTest, n) => Withdrawn(<<batchTest, n>>)

(* A job begins once, on the same node for good.                            *)
LEMMA NoneIsFirst ==
  ASSUME TypeInv, Shape, [Next]_vars
  PROVE  UNCHANGED node /\ \A q \in Jobs : pc'[q] = "none" => pc[q] = "none"
<1> USE DEF TypeInv, TypeOK
<1>1. ASSUME NEW p \in Jobs, Probe(p)
      PROVE  UNCHANGED node /\ \A q \in Jobs : pc'[q] = "none" => pc[q] = "none"
  <2>1. pc'[p] # "none"
    BY <1>1 DEF Probe, Check, Skip, Register, Begin, Mark, Dial, WriteFails, Commit, Post, Panic,
       Recover, Unregister
  <2> QED
    BY <1>1, <2>1, ProbeIsLocal
<1>2. ASSUME NEW t \in Tests, TestNode(t) \/ AnswerResult(t)
      PROVE  UNCHANGED node /\ \A q \in Jobs : pc'[q] = "none" => pc[q] = "none"
  BY <1>2, JobNames DEF TestNode, AnswerResult, Normalize
<1>3. ASSUME NEW b \in Batches, RunBatch(b) \/ DropRest(b)
      PROVE  UNCHANGED node /\ \A q \in Jobs : pc'[q] = "none" => pc[q] = "none"
  BY <1>3 DEF RunBatch, DropRest
<1>4. ASSUME NEW b \in Batches, NEW n \in Nodes, Enqueue(b, n) \/ Dequeue(b, n) \/ Collect(b, n)
      PROVE  UNCHANGED node /\ \A q \in Jobs : pc'[q] = "none" => pc[q] = "none"
  BY <1>4, JobNames DEF Enqueue, Dequeue, Collect, Normalize
<1>5. CASE UNCHANGED <<pc, node>>
  BY <1>5
<1> QED
  BY <1>1, <1>2, <1>3, <1>4, <1>5 DEF Next, Batch, CallCancel, Deadline, AnswerTimeout, StartBatch,
     ListBatch, SweepStart, FinishBatch, Sweep, Watchdog, CancelBatch, CancelNode

LEMMA AloneBefore ==
  ASSUME TypeInv, Shape, [Next]_vars, NEW b \in Batches, NEW n \in Nodes, Alone(b, n)'
  PROVE  Alone(b, n)
<1>1. UNCHANGED node /\ \A q \in Jobs : pc'[q] = "none" => pc[q] = "none"
  BY NoneIsFirst
<1>2. \A t \in Tests : t \in Jobs
  BY DEF Jobs
<1> QED
  BY <1>1, <1>2, JobNames DEF Alone

(* A job that is alone on its node is the only one whose step is about it.  *)
LEMMA OthersAreElsewhere ==
  ASSUME TypeInv, Shape, NEW b \in Batches, NEW n \in Nodes, NEW q \in Jobs, q # <<b, n>>,
         Alone(b, n), pc[q] # "none"
  PROVE  node[q] # n
<1>1. CASE q \in Tests
  BY <1>1 DEF Alone
<1>2. CASE q \notin Tests
  <2>1. PICK c \in Batches, m \in Nodes : q = <<c, m>>
    BY <1>2 DEF Jobs
  <2>2. node[q] = m
    BY <2>1 DEF Shape
  <2> QED
    BY <2>1, <2>2 DEF Alone
<1> QED
  BY <1>1, <1>2

LEMMA ProbeElsewhere ==
  ASSUME TypeInv, NEW q \in Jobs, Probe(q), NEW n \in Nodes, node[q] # n
  PROVE  status'[n] = status[n] /\ nodeTests'[n] = nodeTests[n]
<1> USE DEF TypeInv, TypeOK
<1>1. CASE Check(q) \/ Begin(q) \/ Panic(q)
  BY <1>1 DEF Check, Begin, Panic
<1>2. CASE Register(q) \/ Unregister(q)
  BY <1>2 DEF Register, Unregister
<1>3. CASE Mark(q)
  BY <1>3 DEF Mark, MarkTesting
<1>4. CASE Skip(q) \/ Dial(q) \/ WriteFails(q) \/ Commit(q) \/ Post(q) \/ Recover(q)
  BY <1>4 DEF Skip, Dial, WriteFails, Commit, Post, Recover, MarkInterrupted, MarkFailed,
     MarkCancelled, Set
<1> QED
  BY <1>1, <1>2, <1>3, <1>4 DEF Probe

LEMMA BegunStep == TypeInv /\ Shape /\ Begun /\ [Next]_vars => Begun'
<1> SUFFICES ASSUME TypeInv, Shape, Begun, [Next]_vars PROVE Begun'
  OBVIOUS
<1> USE DEF TypeInv, TypeOK
<1>0. /\ \A q \in Jobs : pc'[q] = "none" => pc[q] = "none"
      /\ \A t \in Tests : t \in Jobs
      /\ \A b \in Batches, n \in Nodes : <<b, n>> \in Jobs
  BY NoneIsFirst, JobNames DEF Jobs
<1>1. \A t \in Tests : deadline'[t] # "none" => pc'[t] # "none"
  <2>1. CASE \E t \in Tests : Deadline(t)
    BY <1>0, <2>1 DEF Begun, Deadline
  <2>2. CASE UNCHANGED deadline
    BY <1>0, <2>2 DEF Begun
  <2>3. ASSUME NEW p \in Jobs, Probe(p) \/ CallCancel(p) PROVE UNCHANGED deadline
    BY <2>3 DEF Probe, Check, Skip, Register, Begin, Mark, Dial, WriteFails, Commit, Post, Panic,
       Recover, Unregister, CallCancel
  <2>4. ASSUME NEW t \in Tests, TestNode(t) \/ AnswerResult(t) \/ AnswerTimeout(t)
        PROVE  UNCHANGED deadline
    BY <2>4 DEF TestNode, AnswerResult, AnswerTimeout
  <2>5. ASSUME NEW b \in Batches, StartBatch(b) \/ Batch(b) \/ Watchdog(b) PROVE UNCHANGED deadline
    <3>1. CASE StartBatch(b) \/ RunBatch(b) \/ DropRest(b) \/ SweepStart(b)
      BY <3>1 DEF StartBatch, RunBatch, DropRest, SweepStart
    <3>4. CASE ListBatch(b)
      BY <3>4 DEF ListBatch
    <3>2. CASE FinishBatch(b) \/ Watchdog(b)
      BY <3>2 DEF FinishBatch, Watchdog, EndContexts
    <3>3. ASSUME NEW n \in Nodes, Enqueue(b, n) \/ Dequeue(b, n) \/ Collect(b, n) \/ Sweep(b, n)
          PROVE  UNCHANGED deadline
      BY <3>3 DEF Enqueue, Dequeue, Collect, Sweep
    <3> QED
      BY <2>5, <3>1, <3>2, <3>3, <3>4 DEF Batch
  <2>6. ASSUME CancelBatch \/ (\E n \in Nodes : CancelNode(n)) \/ UNCHANGED vars
        PROVE  UNCHANGED deadline
    BY <2>6 DEF CancelBatch, CancelNode, EndContexts
  <2> QED
    BY <2>1, <2>2, <2>3, <2>4, <2>5, <2>6 DEF Next
<1>2. ASSUME NEW b \in Batches, RunBatch(b)
      PROVE  /\ \A c \in Batches : \A n \in left'[c] : pc'[<<c, n>>] # "none"
             /\ \A c \in Batches : bpc'[c] = "collecting" =>
                  \A n \in members'[c] \ left'[c] : pc'[<<c, n>>] = "over"
  <2>1. /\ bpc' = [bpc EXCEPT ![b] = "collecting"] /\ UNCHANGED members
        /\ left' = [left EXCEPT ![b] = members[b]]
        /\ \A q \in Jobs : pc'[q] = IF q \in JobsOf(b) /\ node[q] \in members[b] THEN "waiting" ELSE pc[q]
    BY <1>2 DEF RunBatch
  <2>2. \A n \in members[b] : pc'[<<b, n>>] = "waiting"
    BY <2>1, JobNames DEF Shape, JobsOf
  <2>3. \A c \in Batches \ {b}, n \in Nodes : pc'[<<c, n>>] = pc[<<c, n>>]
    BY <2>1, JobNames DEF JobsOf
  <2> QED
    BY <2>1, <2>2, <2>3 DEF Begun
<1>3. ASSUME NEW b \in Batches, NEW n \in Nodes, Collect(b, n)
      PROVE  /\ \A c \in Batches : \A m \in left'[c] : pc'[<<c, m>>] # "none"
             /\ \A c \in Batches : bpc'[c] = "collecting" =>
                  \A m \in members'[c] \ left'[c] : pc'[<<c, m>>] = "over"
  <2>1. /\ left' = [left EXCEPT ![b] = @ \ {n}] /\ UNCHANGED <<bpc, members>>
        /\ pc'[<<b, n>>] = "over" /\ \A q \in Jobs \ {<<b, n>>} : pc'[q] = pc[q]
    BY <1>3, JobNames DEF Collect, Normalize
  <2> QED
    BY <2>1, JobNames DEF Begun
<1>4. ASSUME NEW b \in Batches, ListBatch(b)
      PROVE  /\ \A c \in Batches : \A m \in left'[c] : pc'[<<c, m>>] # "none"
             /\ \A c \in Batches : bpc'[c] = "collecting" =>
                  \A m \in members'[c] \ left'[c] : pc'[<<c, m>>] = "over"
  <2>1. PICK ns \in SUBSET Nodes : members' = [members EXCEPT ![b] = ns]
    BY <1>4 DEF ListBatch
  <2>2. bpc' = [bpc EXCEPT ![b] = "listed"] /\ UNCHANGED <<pc, left>>
    BY <1>4 DEF ListBatch
  <2> QED
    BY <2>1, <2>2 DEF Begun
<1>5. ASSUME NEW b \in Batches, (\E n \in Nodes : Sweep(b, n)) \/ StartBatch(b)
                               \/ SweepStart(b) \/ FinishBatch(b) \/ Watchdog(b)
      PROVE  /\ \A c \in Batches : \A m \in left'[c] : pc'[<<c, m>>] # "none"
             /\ \A c \in Batches : bpc'[c] = "collecting" =>
                  \A m \in members'[c] \ left'[c] : pc'[<<c, m>>] = "over"
  BY <1>5 DEF Begun, Sweep, StartBatch, SweepStart, FinishBatch, Watchdog
<1>6. ASSUME UNCHANGED <<left, members, bpc>>,
             \A q \in Jobs : pc[q] = "over" => pc'[q] = "over"
      PROVE  /\ \A c \in Batches : \A m \in left'[c] : pc'[<<c, m>>] # "none"
             /\ \A c \in Batches : bpc'[c] = "collecting" =>
                  \A m \in members'[c] \ left'[c] : pc'[<<c, m>>] = "over"
  BY <1>0, <1>6 DEF Begun
<1>7. ASSUME NEW p \in Jobs, Probe(p)
      PROVE  UNCHANGED <<left, members, bpc>> /\ \A q \in Jobs : pc[q] = "over" => pc'[q] = "over"
  <2>1. pc[p] # "over" /\ UNCHANGED members
    BY <1>7 DEF Probe, Check, Skip, Register, Begin, Mark, Dial, WriteFails, Commit, Post, Panic,
       Recover, Unregister
  <2> QED
    BY <1>7, <2>1, ProbeIsLocal
<1>8. ASSUME (\E t \in Tests : TestNode(t) \/ Deadline(t) \/ AnswerResult(t) \/ AnswerTimeout(t))
             \/ (\E b \in Batches : DropRest(b) \/ \E n \in Nodes : Enqueue(b, n) \/ Dequeue(b, n))
             \/ (\E p \in Jobs : CallCancel(p)) \/ CancelBatch \/ (\E n \in Nodes : CancelNode(n))
             \/ UNCHANGED vars
      PROVE  UNCHANGED <<left, members, bpc>> /\ \A q \in Jobs : pc[q] = "over" => pc'[q] = "over"
  <2>1. ASSUME NEW t \in Tests, TestNode(t) \/ AnswerResult(t)
        PROVE  UNCHANGED <<left, members, bpc>> /\ \A q \in Jobs : pc[q] = "over" => pc'[q] = "over"
    BY <1>0, <2>1 DEF TestNode, AnswerResult, Normalize
  <2>2. ASSUME NEW c \in Batches, NEW m \in Nodes, Enqueue(c, m) \/ Dequeue(c, m)
        PROVE  UNCHANGED <<left, members, bpc>> /\ \A q \in Jobs : pc[q] = "over" => pc'[q] = "over"
    BY <1>0, <2>2 DEF Enqueue, Dequeue
  <2>3. ASSUME NEW c \in Batches, DropRest(c)
        PROVE  UNCHANGED <<left, members, bpc>> /\ \A q \in Jobs : pc[q] = "over" => pc'[q] = "over"
    BY <2>3 DEF DropRest
  <2>4. ASSUME UNCHANGED <<pc, left, members, bpc>>
        PROVE  UNCHANGED <<left, members, bpc>> /\ \A q \in Jobs : pc[q] = "over" => pc'[q] = "over"
    BY <2>4
  <2>5. CASE (\E t \in Tests : Deadline(t) \/ AnswerTimeout(t)) \/ (\E q \in Jobs : CallCancel(q))
             \/ CancelBatch \/ (\E m \in Nodes : CancelNode(m)) \/ UNCHANGED vars
    <3>1. UNCHANGED <<pc, left, members, bpc>>
      BY <2>5 DEF Deadline, AnswerTimeout, CallCancel, CancelBatch, CancelNode
    <3> QED
      BY <2>4, <3>1
  <2> QED
    BY <1>8, <2>1, <2>2, <2>3, <2>5
<1>9. /\ \A c \in Batches : \A m \in left'[c] : pc'[<<c, m>>] # "none"
      /\ \A c \in Batches : bpc'[c] = "collecting" =>
           \A m \in members'[c] \ left'[c] : pc'[<<c, m>>] = "over"
  BY <1>2, <1>3, <1>4, <1>5, <1>6, <1>7, <1>8 DEF Next, Batch
<1> QED
  BY <1>1, <1>9 DEF Begun

LEMMA OwnEntryStep == TypeInv /\ Shape /\ OwnEntry /\ [Next]_vars => OwnEntry'
<1> SUFFICES ASSUME TypeInv, Shape, OwnEntry, [Next]_vars, NEW b \in Batches, NEW n \in Nodes,
                    Alone(b, n)', pc'[<<b, n>>] \in Watched
             PROVE  nodeTests'[n] = <<b, n>>
  BY DEF OwnEntry
<1> DEFINE j == <<b, n>>
<1> USE DEF TypeInv, TypeOK
<1>0. Alone(b, n) /\ j \in Jobs /\ node[j] = n
  BY AloneBefore, JobNames DEF Shape
<1>1. CASE Probe(j)
  <2>1. CASE Register(j)
    BY <1>0, <2>1 DEF Register
  <2>2. CASE ~Register(j)
    <3>1. pc[j] \in Watched /\ UNCHANGED nodeTests
      <4>1. CASE Check(j) \/ Skip(j) \/ Recover(j) \/ Unregister(j) \/ Panic(j)
        BY <1>0, <4>1 DEF Check, Skip, Recover, Unregister, Panic, Watched
      <4>2. CASE Begin(j) \/ Mark(j) \/ Dial(j) \/ WriteFails(j) \/ Commit(j) \/ Post(j)
        BY <1>0, <4>2 DEF Begin, Mark, Dial, WriteFails, Commit, Post, Watched
      <4> QED
        BY <1>1, <2>2, <4>1, <4>2 DEF Probe
    <3> QED
      BY <1>0, <3>1 DEF OwnEntry
  <2> QED
    BY <2>1, <2>2
<1>2. ASSUME NEW q \in Jobs \ {j}, Probe(q) PROVE nodeTests'[n] = <<b, n>>
  <2>1. pc'[j] = pc[j] /\ pc[q] # "none"
    BY <1>0, <1>2, ProbeIsLocal
  <2>2. node[q] # n
    BY <1>0, <1>2, <2>1, OthersAreElsewhere
  <2> QED
    BY <1>0, <1>2, <2>1, <2>2, ProbeElsewhere DEF OwnEntry
<1>3. ASSUME UNCHANGED nodeTests, pc'[j] \in Watched => pc[j] \in Watched
      PROVE  nodeTests'[n] = <<b, n>>
  BY <1>0, <1>3 DEF OwnEntry
<1>4. ASSUME NEW t \in Tests, TestNode(t) \/ Deadline(t) \/ AnswerResult(t) \/ AnswerTimeout(t)
      PROVE  UNCHANGED nodeTests /\ pc'[j] = pc[j]
  BY <1>0, <1>4, JobNames DEF TestNode, Deadline, AnswerResult, Normalize, AnswerTimeout
<1>5. ASSUME NEW c \in Batches, StartBatch(c) \/ Batch(c) \/ Watchdog(c)
      PROVE  UNCHANGED nodeTests /\ (pc'[j] \in Watched => pc[j] \in Watched)
  <2>1. CASE StartBatch(c) \/ Watchdog(c) \/ ListBatch(c) \/ SweepStart(c) \/ FinishBatch(c)
             \/ \E m \in Nodes : Sweep(c, m)
    BY <2>1 DEF StartBatch, Watchdog, ListBatch, SweepStart, FinishBatch, Sweep
  <2>2. CASE RunBatch(c) \/ DropRest(c)
    BY <1>0, <2>2 DEF RunBatch, DropRest, Watched
  <2>3. ASSUME NEW m \in Nodes, Enqueue(c, m) \/ Dequeue(c, m) \/ Collect(c, m)
        PROVE  UNCHANGED nodeTests /\ (pc'[j] \in Watched => pc[j] \in Watched)
    BY <1>0, <2>3, JobNames DEF Enqueue, Dequeue, Collect, Normalize, Watched
  <2> QED
    BY <1>5, <2>1, <2>2, <2>3 DEF Batch
<1>6. CASE (\E p \in Jobs : CallCancel(p)) \/ CancelBatch \/ (\E m \in Nodes : CancelNode(m))
           \/ UNCHANGED vars
  BY <1>3, <1>6 DEF CallCancel, CancelBatch, CancelNode
<1> QED
  BY <1>1, <1>2, <1>3, <1>4, <1>5, <1>6 DEF Next

(* What leaves a withdrawn job withdrawn.                                   *)
LEMMA WithdrawnKept ==
  ASSUME TypeInv, NEW p \in Jobs, Withdrawn(p), UNCHANGED node,
         pc'[p] = pc[p] \/ pc'[p] \in {"waiting", "dropped", "passed", "queued", "check"}
           \/ (pc[p] = "result" /\ pc'[p] = "over"),
         p \in cancelling => p \in cancelling' \/ ctx'[p] # "none",
         ctx[p] # "none" => ctx'[p] # "none",
         status'[node[p]] = status[node[p]] \/ status'[node[p]] # "available"
  PROVE  Withdrawn(p)'
BY DEF Withdrawn, Watched, Done

LEMMA OwnStepWithdrawn ==
  ASSUME TypeInv, NEW p \in Jobs, Withdrawn(p), Probe(p), ~Misses(node[p]),
         pc[p] = "check" => IsBatchNodeCancelled(node[p])
  PROVE  Withdrawn(p)'
<1> USE DEF TypeInv, TypeOK, Withdrawn, Watched, Done
<1>0. node[p] \in Nodes
  OBVIOUS
<1>1. CASE Check(p) \/ Begin(p) \/ Mark(p) \/ Panic(p)
  BY <1>1 DEF Check, Begin, Mark, Panic
<1>2. CASE Register(p)
  BY <1>2 DEF Register
<1>3. CASE Skip(p) \/ WriteFails(p) \/ Recover(p)
  BY <1>0, <1>3 DEF Skip, WriteFails, Recover, MarkFailed, MarkCancelled, Set
<1>4. CASE Dial(p) \/ Commit(p)
  BY <1>4 DEF Dial, Commit
<1>5. CASE Post(p)
  <2>1. p \notin cancelling
    BY <1>5 DEF Post, Misses
  <2>2. ctx[p] # "none"
    BY <1>5, <2>1 DEF Post
  <2> QED
    BY <1>0, <1>5, <2>2 DEF Post, MarkInterrupted, MarkFailed, MarkCancelled, Set
<1>6. CASE Unregister(p)
  BY <1>6 DEF Unregister
<1> QED
  BY <1>1, <1>2, <1>3, <1>4, <1>5, <1>6 DEF Probe

LEMMA MarkNotAvailable ==
  ASSUME TypeInv, NEW m \in Nodes, NEW n \in Nodes, NEW e,
         MarkFailed(m) \/ MarkCancelled(m) \/ MarkInterrupted(m, e)
  PROVE  status'[n] = status[n] \/ status'[n] # "available"
BY DEF TypeInv, TypeOK, MarkFailed, MarkCancelled, MarkInterrupted, Set

(* A node is entered as cancelled by a cancel only, and no batch takes over *)
(* the entries of another.                                                  *)
LEMMA ListsStep ==
  ASSUME TypeInv, Next, NEW n \in Nodes
  PROVE  /\ batchTest' = batchTest \/ batchTest' = NoBatch \/ batchCancelled' = {}
         /\ n \in batchCancelled' => n \in batchCancelled \/ CancelNode(n)
<1> USE DEF TypeInv, TypeOK
<1> DEFINE Goal == /\ batchTest' = batchTest \/ batchTest' = NoBatch \/ batchCancelled' = {}
                   /\ n \in batchCancelled' => n \in batchCancelled \/ CancelNode(n)
<1>1. ASSUME UNCHANGED <<batchTest, batchCancelled>> PROVE Goal
  BY <1>1
<1>2. ASSUME NEW p \in Jobs, Probe(p) \/ CallCancel(p) PROVE UNCHANGED <<batchTest, batchCancelled>>
  <2>1. CASE CallCancel(p) \/ Register(p) \/ Unregister(p)
    BY <2>1 DEF CallCancel, Register, Unregister
  <2>2. CASE Check(p) \/ Skip(p) \/ Begin(p) \/ Mark(p) \/ Dial(p) \/ WriteFails(p)
    BY <2>2 DEF Check, Skip, Begin, Mark, Dial, WriteFails
  <2>3. CASE Commit(p) \/ Post(p) \/ Panic(p) \/ Recover(p)
    BY <2>3 DEF Commit, Post, Panic, Recover
  <2> QED
    BY <1>2, <2>1, <2>2, <2>3 DEF Probe
<1>3. ASSUME NEW t \in Tests, TestNode(t) \/ Deadline(t) \/ AnswerResult(t) \/ AnswerTimeout(t)
      PROVE  UNCHANGED <<batchTest, batchCancelled>>
  BY <1>3 DEF TestNode, Deadline, AnswerResult, AnswerTimeout
<1>4. ASSUME NEW b \in Batches, ListBatch(b) \/ RunBatch(b) \/ DropRest(b) \/ SweepStart(b)
                               \/ Watchdog(b)
      PROVE  UNCHANGED <<batchTest, batchCancelled>>
  BY <1>4 DEF ListBatch, RunBatch, DropRest, SweepStart, Watchdog
<1>5. ASSUME NEW b \in Batches, NEW m \in Nodes,
             Enqueue(b, m) \/ Dequeue(b, m) \/ Collect(b, m) \/ Sweep(b, m)
      PROVE  UNCHANGED <<batchTest, batchCancelled>>
  BY <1>5 DEF Enqueue, Dequeue, Collect, Sweep
<1>6. ASSUME NEW b \in Batches, StartBatch(b) \/ FinishBatch(b) PROVE Goal
  BY <1>6 DEF StartBatch, FinishBatch
<1>7. CASE CancelBatch
  BY <1>7 DEF CancelBatch
<1>8. ASSUME NEW m \in Nodes, CancelNode(m) PROVE Goal
  <2>1. batchTest' = batchTest /\ batchCancelled' \subseteq batchCancelled \cup {m}
    BY <1>8 DEF CancelNode
  <2> QED
    BY <1>8, <2>1
<1> QED
  BY <1>1, <1>2, <1>3, <1>4, <1>5, <1>6, <1>7, <1>8 DEF Next, Batch

LEMMA CancelReachesStep ==
  TypeInv /\ Shape /\ Begun /\ OwnEntry /\ CancelReaches /\ [CancelNext]_cancelVars => CancelReaches'
<1> SUFFICES ASSUME TypeInv, Shape, Begun, OwnEntry, CancelReaches, [CancelNext]_cancelVars,
                    NEW b \in Batches, batchTest' = b, b # NoBatch,
                    NEW n \in Nodes, n \in batchCancelled', n \notin missed', Alone(b, n)',
                    NEW j, j = <<b, n>>
             PROVE  Withdrawn(j)'
  <2>1. ASSUME [CancelNext]_cancelVars PROVE [Next]_vars
    BY <2>1 DEF CancelNext, cancelVars
  <2>3. ASSUME TypeInv, [CancelNext]_cancelVars PROVE TypeInv'
    BY <2>1, <2>3, TypeStep
  <2>2. ASSUME TypeInv' PROVE batchTest' \in Batches \cup {NoBatch} /\ batchCancelled' \subseteq Nodes
    BY <2>2 DEF TypeInv, TypeOK
  <2> QED
    BY <2>2, <2>3 DEF CancelReaches
<1> USE DEF TypeInv, TypeOK
<1>0. [Next]_vars /\ n \notin missed
  BY DEF CancelNext, cancelVars
<1>1. ASSUME ~UNCHANGED vars PROVE Next /\ ~Misses(n)
  BY <1>1 DEF CancelNext, cancelVars
<1>2. batchTest = b
  <2>1. CASE Next
    BY <2>1, ListsStep
  <2> QED
    BY <1>1, <2>1
<1>3. Alone(b, n) /\ j \in Jobs /\ node[j] = n /\ UNCHANGED node
  BY <1>0, AloneBefore, NoneIsFirst, JobNames DEF Shape
<1>5. CASE UNCHANGED vars
  <2>1. Withdrawn(j)
    BY <1>0, <1>2, <1>3, <1>5 DEF CancelReaches
  <2> QED
    BY <1>5, <2>1 DEF Withdrawn, Done
<1>6. ASSUME CancelNode(n), Next, ~Misses(n) PROVE Withdrawn(j)'
  <2>1. status'[n] = "cancelled" /\ UNCHANGED <<pc, node, ctx>>
        /\ cancelling' = cancelling \cup ({nodeTests[n]} \ {NoJob})
    BY <1>6 DEF CancelNode, MarkCancelled, Set
  <2>2. pc[j] # "register"
    BY <1>2, <1>6 DEF Misses
  <2>3. pc[j] \in Watched => nodeTests[n] = j /\ j # NoJob
    BY <1>1, <1>3 DEF OwnEntry, NoJob
  <2> QED
    BY <1>3, <2>1, <2>2, <2>3 DEF Withdrawn
<1>7. ASSUME ~CancelNode(n), Next, ~Misses(n) PROVE Withdrawn(j)'
  <2>1. n \in batchCancelled
    BY <1>7, ListsStep
  <2>2. Withdrawn(j) /\ IsBatchNodeCancelled(n)
    BY <1>0, <1>2, <1>3, <2>1 DEF CancelReaches, IsBatchNodeCancelled
  <2>3. CASE Probe(j)
    BY <1>3, <1>7, <2>2, <2>3, OwnStepWithdrawn
  <2>4. ASSUME NEW q \in Jobs \ {j}, Probe(q) PROVE Withdrawn(j)'
    <3>1. pc'[j] = pc[j] /\ pc[q] # "none"
      BY <1>3, <2>4, ProbeIsLocal
    <3>2. node[q] # n
      BY <1>3, <2>4, <3>1, OthersAreElsewhere
    <3>3. status'[n] = status[n]
      BY <2>4, <3>2, ProbeElsewhere
    <3>4. UNCHANGED cancelling /\ ctx'[j] = ctx[j]
      BY <1>3, <2>4 DEF Probe, Check, Skip, Register, Begin, Mark, Dial, WriteFails, Commit, Post,
         Panic, Recover, Unregister
    <3> QED
      BY <1>3, <2>2, <3>1, <3>3, <3>4, WithdrawnKept
  <2>5. ASSUME NEW q \in Jobs, CallCancel(q) PROVE Withdrawn(j)'
    BY <1>3, <2>2, <2>5, WithdrawnKept DEF CallCancel
  <2>6. ASSUME NEW t \in Tests, TestNode(t) \/ Deadline(t) \/ AnswerResult(t) \/ AnswerTimeout(t)
        PROVE  Withdrawn(j)'
    <3>0. t \in Jobs /\ t # j
      BY JobNames DEF Jobs
    <3>1. pc'[j] = pc[j] /\ UNCHANGED cancelling /\ (ctx[j] # "none" => ctx'[j] # "none")
      <4>1. CASE TestNode(t) \/ AnswerResult(t)
        BY <1>3, <3>0, <4>1 DEF TestNode, AnswerResult, Normalize
      <4>2. CASE Deadline(t) \/ AnswerTimeout(t)
        BY <1>3, <3>0, <4>2 DEF Deadline, AnswerTimeout
      <4> QED
        BY <2>6, <4>1, <4>2
    <3>2. CASE TestNode(t) \/ Deadline(t)
      BY <1>3, <2>2, <3>1, <3>2, WithdrawnKept DEF TestNode, Deadline
    <3>3. CASE AnswerResult(t) \/ AnswerTimeout(t)
      <4>1. pc[t] # "none"
        BY <3>3 DEF AnswerResult, Normalize, AnswerTimeout, Begun
      <4>2. node[t] # n
        BY <1>1, <1>3, <3>0, <4>1, OthersAreElsewhere
      <4>3. status'[n] = status[n]
        BY <3>0, <3>3, <4>2 DEF AnswerResult, Normalize, AnswerTimeout, MarkInterrupted,
           MarkFailed, MarkCancelled, Set
      <4> QED
        BY <1>3, <2>2, <3>1, <4>3, WithdrawnKept
    <3> QED
      BY <2>6, <3>2, <3>3
  <2>7. ASSUME NEW c \in Batches, StartBatch(c) \/ ListBatch(c) \/ SweepStart(c) \/ DropRest(c)
                                 \/ \E m \in Nodes : Enqueue(c, m) \/ Dequeue(c, m)
        PROVE  Withdrawn(j)'
    <3>1. UNCHANGED <<status, cancelling, ctx>>
      BY <2>7 DEF StartBatch, ListBatch, SweepStart, DropRest, Enqueue, Dequeue
    <3>2. pc'[j] = pc[j] \/ pc'[j] \in {"dropped", "passed", "queued", "check"}
      <4>1. CASE StartBatch(c) \/ ListBatch(c) \/ SweepStart(c)
        BY <4>1 DEF StartBatch, ListBatch, SweepStart
      <4>2. CASE DropRest(c)
        BY <1>3, <4>2 DEF DropRest
      <4>3. ASSUME NEW m \in Nodes, Enqueue(c, m) \/ Dequeue(c, m)
            PROVE  pc'[j] = pc[j] \/ pc'[j] \in {"passed", "queued", "check"}
        BY <1>3, <4>3, JobNames DEF Enqueue, Dequeue
      <4> QED
        BY <2>7, <4>1, <4>2, <4>3
    <3> QED
      BY <1>3, <2>2, <3>1, <3>2, WithdrawnKept
  <2>8. ASSUME NEW c \in Batches, RunBatch(c) PROVE Withdrawn(j)'
    <3>1. pc'[j] \in {pc[j], "waiting"} /\ UNCHANGED <<cancelling, ctx>>
      BY <1>3, <2>8 DEF RunBatch
    <3>2. status'[n] \in {status[n], "testing"}
      BY <2>8 DEF RunBatch, MarkTesting
    <3> QED
      BY <1>3, <2>2, <3>1, <3>2, WithdrawnKept
  <2>9. ASSUME NEW c \in Batches, NEW m \in Nodes, Collect(c, m) \/ Sweep(c, m) PROVE Withdrawn(j)'
    <3>1. UNCHANGED <<cancelling, ctx>> /\ (pc'[j] = pc[j] \/ (pc[j] = "result" /\ pc'[j] = "over"))
      BY <1>3, <2>9, JobNames DEF Collect, Normalize, Sweep
    <3>2. status'[n] = status[n] \/ status'[n] # "available"
      BY <2>9, JobNames, MarkNotAvailable DEF Collect, Normalize, Sweep
    <3> QED
      BY <1>3, <2>2, <3>1, <3>2, WithdrawnKept
  <2>10. ASSUME NEW c \in Batches, EndContexts(c, "expired") \/ EndContexts(c, "cancelled"),
                UNCHANGED <<pc, status, cancelling>>
         PROVE  Withdrawn(j)'
    <3>1. ctx[j] # "none" => ctx'[j] # "none"
      BY <1>3, <2>10, EndedFollow DEF CtxErrs
    <3> QED
      BY <1>3, <2>2, <2>10, <3>1, WithdrawnKept
  <2>11. ASSUME NEW c \in Batches, Watchdog(c) \/ FinishBatch(c) PROVE Withdrawn(j)'
    BY <2>10, <2>11 DEF Watchdog, FinishBatch
  <2>12. CASE CancelBatch
    BY <1>2, <2>10, <2>12 DEF CancelBatch
  <2>13. ASSUME NEW m \in Nodes, CancelNode(m) PROVE Withdrawn(j)'
    <3>1. m # n
      BY <1>7, <2>13
    <3>2. status'[n] = status[n] /\ UNCHANGED <<pc, ctx>> /\ cancelling \subseteq cancelling'
      BY <2>13, <3>1 DEF CancelNode, MarkCancelled, Set
    <3> QED
      BY <1>3, <2>2, <3>2, WithdrawnKept
  <2> QED
    BY <1>7, <2>3, <2>4, <2>5, <2>6, <2>7, <2>8, <2>9, <2>11, <2>12, <2>13 DEF Next, Batch
<1> QED
  BY <1>1, <1>5, <1>6, <1>7

(* The extent of a lost cancel: for any number of nodes, batches and tests, *)
(* a cancel of one node sticks if it does not fall between the worker's     *)
(* look for it and the registration of its cancel function, and if this     *)
(* function is called before the test is over.                              *)
THEOREM OnlyBeforeRegistration == CancelSpec => []CancelSticks
<1>1. CancelInit => Begun /\ OwnEntry /\ CancelReaches
  BY JobNames DEF CancelInit, Init, Begun, OwnEntry, CancelReaches, Watched
<1>2. [CancelNext]_cancelVars => [Next]_vars
  BY DEF CancelNext, cancelVars
<1>3. TypeInv /\ Shape /\ Begun /\ CancelReaches => CancelSticks
  <2> SUFFICES ASSUME TypeInv, Shape, Begun, CancelReaches, NEW n \in Nodes, n \notin missed,
                      \A b \in Batches \ {batchTest} : pc[<<b, n>>] = "none",
                      IsBatchNodeCancelled(n), \A t \in Tests : node[t] = n => pc[t] = "none",
                      n \in members[batchTest], bpc[batchTest] = "collecting",
                      n \notin left[batchTest]
               PROVE  status[n] # "available"
    BY DEF CancelSticks, Sticks
  <2>1. batchTest \in Batches /\ batchTest # NoBatch /\ n \in batchCancelled
    BY DEF TypeInv, TypeOK, IsBatchNodeCancelled
  <2>2. Withdrawn(<<batchTest, n>>)
    BY <2>1 DEF CancelReaches, Alone
  <2>3. pc[<<batchTest, n>>] = "over" /\ node[<<batchTest, n>>] = n
    BY <2>1 DEF Begun, Shape
  <2> QED
    BY <2>2, <2>3 DEF Withdrawn
<1> QED
  BY <1>1, <1>2, <1>3, InitType, TypeStep, InitShape, ShapeStep, BegunStep, OwnEntryStep,
     CancelReachesStep, PTL DEF CancelSpec, CancelInit
-----------------------------------------------------------------------------
(* The end of a job, and the answer to a request                            *)

(* How many steps a job is at most from its result *)
Reporting == Moving \cup {"passed", "result", "over"}
Rank(st) ==
  CASE st = "check" -> 8
    [] st = "register" -> 7
    [] st = "begin" -> 6
    [] st = "mark" -> 5
    [] st = "dial" -> 4
    [] st = "commit" -> 3
    [] st \in {"post", "panicked"} -> 2
    [] st \in {"unregister", "recovered", "skip", "passed"} -> 1
    [] st \in {"result", "over"} -> 0
Near(p, r) == pc[p] \in Reporting /\ Rank(pc[p]) \in 0 .. r

LEMMA RankTyped ==
  ASSUME NEW st \in Reporting
  PROVE  Rank(st) \in 0 .. 8 /\ (Rank(st) = 0 <=> st \in {"result", "over"})
<1>1. st \in {"check", "register", "begin", "mark", "dial", "commit", "post", "panicked",
              "unregister", "recovered", "skip", "passed", "result", "over"}
  BY DEF Reporting, Moving
<1>2. /\ Rank("check") = 8 /\ Rank("register") = 7 /\ Rank("begin") = 6 /\ Rank("mark") = 5
      /\ Rank("dial") = 4 /\ Rank("commit") = 3 /\ Rank("post") = 2 /\ Rank("panicked") = 2
      /\ Rank("unregister") = 1 /\ Rank("recovered") = 1 /\ Rank("skip") = 1
      /\ Rank("passed") = 1 /\ Rank("result") = 0 /\ Rank("over") = 0
  BY DEF Rank
<1> QED
  BY <1>1, <1>2

(* Its own steps lead down, a panic and its recovery included.              *)
LEMMA ProbeSinks ==
  ASSUME TypeInv, NEW p \in Jobs, Probe(p)
  PROVE  /\ pc[p] \in Reporting /\ pc'[p] \in Reporting
         /\ Rank(pc'[p]) < Rank(pc[p])
<1> DEFINE v == pc[p]
           w == pc'[p]
           Sinks == v \in Reporting /\ w \in Reporting /\ Rank(w) < Rank(v)
<1> USE DEF TypeInv, TypeOK
<1>0. ASSUME NEW x, NEW y,
             \/ x = "check" /\ y \in {"skip", "register"}
             \/ x \in {"skip", "passed"} /\ y = "result"
             \/ x = "register" /\ y = "begin"
             \/ x = "begin" /\ y \in {"mark", "post"}
             \/ x = "mark" /\ y = "dial"
             \/ x = "dial" /\ y \in {"commit", "post", "panicked"}
             \/ x = "commit" /\ y \in {"post", "panicked"}
             \/ x = "post" /\ y = "unregister"
             \/ x = "panicked" /\ y = "recovered"
             \/ x \in {"recovered", "unregister"} /\ y = "result"
      PROVE  x \in Reporting /\ y \in Reporting /\ Rank(y) < Rank(x)
  <2>1. CASE x = "check" \/ x = "skip" \/ x = "passed" \/ x = "register" \/ x = "begin"
    BY <1>0, <2>1 DEF Reporting, Moving, Rank
  <2>2. CASE x = "mark" \/ x = "dial" \/ x = "commit"
    BY <1>0, <2>2 DEF Reporting, Moving, Rank
  <2>3. CASE x = "post" \/ x = "panicked" \/ x = "recovered" \/ x = "unregister"
    BY <1>0, <2>3 DEF Reporting, Moving, Rank
  <2> QED
    BY <1>0, <2>1, <2>2, <2>3
<1>1. CASE Check(p) \/ Skip(p) \/ Register(p) \/ Begin(p) \/ Mark(p)
  <2>1. \/ v = "check" /\ w \in {"skip", "register"}
        \/ v \in {"skip", "passed"} /\ w = "result"
        \/ v = "register" /\ w = "begin"
        \/ v = "begin" /\ w \in {"mark", "post"}
        \/ v = "mark" /\ w = "dial"
    BY <1>1 DEF Check, Skip, Register, Begin, Mark
  <2>2. v \in Reporting /\ w \in Reporting /\ Rank(w) < Rank(v)
    <3> HIDE DEF v, w
    <3> QED
      BY <1>0, <2>1
  <2> QED
    BY <2>2
<1>2. CASE Dial(p) \/ WriteFails(p) \/ Commit(p) \/ Post(p) \/ Panic(p)
  <2>1. \/ v = "dial" /\ w \in {"commit", "post", "panicked"}
        \/ v = "commit" /\ w \in {"post", "panicked"}
        \/ v = "post" /\ w = "unregister"
    BY <1>2 DEF Dial, WriteFails, Commit, Post, Panic
  <2>2. v \in Reporting /\ w \in Reporting /\ Rank(w) < Rank(v)
    <3> HIDE DEF v, w
    <3> QED
      BY <1>0, <2>1
  <2> QED
    BY <2>2
<1>3. CASE Recover(p) \/ Unregister(p)
  <2>1. \/ v = "panicked" /\ w = "recovered"
        \/ v \in {"recovered", "unregister"} /\ w = "result"
    BY <1>3 DEF Recover, Unregister
  <2>2. v \in Reporting /\ w \in Reporting /\ Rank(w) < Rank(v)
    <3> HIDE DEF v, w
    <3> QED
      BY <1>0, <2>1
  <2> QED
    BY <2>2
<1> QED
  BY <1>1, <1>2, <1>3 DEF Probe

(* Nobody else moves it, until its result is received; a test is begun by   *)
(* its request.                                                             *)
LEMMA OthersKeep ==
  ASSUME TypeInv, Shape, [Next]_vars, NEW p \in Jobs, p \in Tests \/ pc[p] \in Reporting, ~Probe(p)
  PROVE  \/ pc'[p] = pc[p]
         \/ pc[p] = "result" /\ pc'[p] = "over" /\ (p \in Tests => p \in answered')
         \/ pc[p] = "none" /\ pc'[p] = "check"
<1> USE DEF TypeInv, TypeOK
<1> DEFINE Kept == \/ pc'[p] = pc[p]
                   \/ pc[p] = "result" /\ pc'[p] = "over" /\ (p \in Tests => p \in answered')
                   \/ pc[p] = "none" /\ pc'[p] = "check"
<1>0. p \in Tests \/ pc[p] \notin {"none", "waiting", "dropped", "queued"}
  BY DEF Reporting, Moving
<1>1. ASSUME NEW q \in Jobs, Probe(q) PROVE Kept
  BY <1>1, ProbeIsLocal
<1>2. ASSUME NEW t \in Tests, TestNode(t) \/ AnswerResult(t) PROVE Kept
  <2>1. t \in Jobs
    BY DEF Jobs
  <2> QED
    BY <1>2, <2>1 DEF TestNode, AnswerResult, Normalize
<1>3. ASSUME NEW b \in Batches, NEW n \in Nodes, Enqueue(b, n) \/ Dequeue(b, n) \/ Collect(b, n)
      PROVE  Kept
  <2>1. <<b, n>> \in Jobs /\ <<b, n>> \notin Tests
    BY JobNames
  <2>2. CASE Enqueue(b, n) \/ Dequeue(b, n)
    BY <1>0, <2>1, <2>2 DEF Enqueue, Dequeue
  <2>3. CASE Collect(b, n)
    BY <2>1, <2>3 DEF Collect, Normalize
  <2> QED
    BY <1>3, <2>2, <2>3
<1>4. ASSUME NEW b \in Batches, RunBatch(b) PROVE Kept
  <2>1. \A q \in JobsOf(b) : q \notin Tests /\ pc[q] = "none"
    BY <1>4, JobNames DEF Shape, RunBatch, JobsOf
  <2> QED
    BY <1>0, <1>4, <2>1 DEF RunBatch
<1>5. ASSUME NEW b \in Batches, DropRest(b) PROVE Kept
  <2>1. \A q \in JobsOf(b) : q \notin Tests
    BY JobNames DEF JobsOf
  <2> QED
    BY <1>0, <1>5, <2>1 DEF DropRest
<1>6. ASSUME UNCHANGED pc PROVE Kept
  BY <1>6
<1>7. ASSUME NEW b \in Batches, ListBatch(b) \/ SweepStart(b) \/ FinishBatch(b) \/ StartBatch(b)
                               \/ Watchdog(b) \/ \E n \in Nodes : Sweep(b, n)
      PROVE  UNCHANGED pc
  BY <1>7 DEF ListBatch, SweepStart, FinishBatch, StartBatch, Watchdog, Sweep
<1>8. ASSUME (\E q \in Jobs : CallCancel(q)) \/ (\E t \in Tests : Deadline(t) \/ AnswerTimeout(t))
             \/ CancelBatch \/ (\E n \in Nodes : CancelNode(n)) \/ UNCHANGED vars
      PROVE  UNCHANGED pc
  BY <1>8 DEF CallCancel, Deadline, AnswerTimeout, CancelBatch, CancelNode
<1> QED
  BY <1>1, <1>2, <1>3, <1>4, <1>5, <1>6, <1>7, <1>8 DEF Next, Batch

(* A request that has its result was answered with it, or by its deadline.  *)
OverIsAnswered ==
  \A t \in Tests : pc[t] \in Reporting \cup {"none"} /\ (pc[t] = "over" => t \in answered)

LEMMA OverIsAnsweredStep == TypeInv /\ Shape /\ OverIsAnswered /\ [Next]_vars => OverIsAnswered'
<1> SUFFICES ASSUME TypeInv, Shape, OverIsAnswered, [Next]_vars, NEW t \in Tests
             PROVE  pc'[t] \in Reporting \cup {"none"} /\ (pc'[t] = "over" => t \in answered')
  BY DEF OverIsAnswered
<1> USE DEF TypeInv, TypeOK
<1>0. t \in Jobs /\ pc[t] \in Reporting \cup {"none"} /\ (pc[t] = "over" => t \in answered)
  BY DEF Jobs, OverIsAnswered
<1>1. answered \subseteq answered'
  <2>1. CASE UNCHANGED answered
    BY <2>1
  <2>2. CASE \E u \in Tests : AnswerResult(u) \/ AnswerTimeout(u)
    BY <2>2 DEF AnswerResult, AnswerTimeout
  <2>3. ASSUME NEW q \in Jobs, Probe(q) \/ CallCancel(q) PROVE UNCHANGED answered
    BY <2>3 DEF Probe, Check, Skip, Register, Begin, Mark, Dial, WriteFails, Commit, Post, Panic,
       Recover, Unregister, CallCancel
  <2>4. ASSUME NEW b \in Batches, StartBatch(b) \/ Batch(b) \/ Watchdog(b) PROVE UNCHANGED answered
    BY <2>4 DEF StartBatch, Batch, ListBatch, RunBatch, DropRest, SweepStart, FinishBatch, Enqueue,
       Dequeue, Collect, Sweep, Watchdog
  <2>5. CASE (\E u \in Tests : TestNode(u) \/ Deadline(u)) \/ CancelBatch
             \/ (\E n \in Nodes : CancelNode(n)) \/ UNCHANGED vars
    BY <2>5 DEF TestNode, Deadline, CancelBatch, CancelNode
  <2> QED
    BY <2>1, <2>2, <2>3, <2>4, <2>5 DEF Next
<1>2. CASE Probe(t)
  <2>1. pc'[t] \in Reporting /\ Rank(pc'[t]) < Rank(pc[t])
    BY <1>0, <1>2, ProbeSinks
  <2>2. pc'[t] # "over"
    BY <1>0, <1>2 DEF Probe, Check, Skip, Register, Begin, Mark, Dial, WriteFails, Commit, Post, Panic,
       Recover, Unregister
  <2> QED
    BY <2>1, <2>2
<1>3. CASE ~Probe(t)
  BY <1>0, <1>1, <1>3, OthersKeep DEF Reporting, Moving
<1> QED
  BY <1>2, <1>3

(* A goroutine whose turn it is can take its step.  The guards say so in     *)
(* every state; that they do is a fact about ENABLED, which the provers do  *)
(* not handle, and so it stays a hypothesis.                                *)
NothingStuck ==
  /\ \A p \in Jobs : MustProbe(p) => ENABLED <<Probe(p)>>_vars
  /\ \A t \in Tests : pc[t] = "result" /\ t \notin answered => ENABLED <<AnswerResult(t)>>_vars

LEMMA ProbeGoes ==
  ASSUME NEW p \in Jobs
  PROVE  FairSpec /\ []NothingStuck => []<>~MustProbe(p) \/ []<><<Probe(p)>>_vars
<1>1. ProbesGoOn => ProbeGoesOn(p)
  BY DEF ProbesGoOn
<1>2. NothingStuck => (MustProbe(p) => ENABLED <<Probe(p)>>_vars)
  BY DEF NothingStuck
<1> QED
  BY <1>1, <1>2, PTL DEF FairSpec, Fairness, ProbeGoesOn

(* From each rank, the next step of the job itself leads further down.      *)
LEMMA NearSinks ==
  ASSUME NEW p \in Jobs, NEW q \in 0 .. 7, NEW r \in 1 .. 8, r = q + 1
  PROVE  /\ TypeInv /\ Shape /\ Near(p, r) /\ [Next]_vars => Near(p, r)'
         /\ TypeInv /\ Shape /\ Near(p, r) /\ <<Probe(p)>>_vars => Near(p, q)'
         /\ Near(p, r) => Near(p, q) \/ MustProbe(p)
<1> USE DEF Near
<1>1. ASSUME TypeInv, Near(p, r), Probe(p) PROVE Near(p, q)' /\ Near(p, r)'
  <2>1. pc'[p] \in Reporting /\ Rank(pc'[p]) < Rank(pc[p])
    BY <1>1, ProbeSinks
  <2>2. Rank(pc'[p]) \in 0 .. 8 /\ Rank(pc[p]) \in 0 .. r
    BY <1>1, <2>1, RankTyped
  <2> QED
    BY <2>1, <2>2
<1>2. ASSUME TypeInv, Shape, Near(p, r), [Next]_vars, ~Probe(p) PROVE Near(p, r)'
  <2>1. pc'[p] = pc[p] \/ (pc[p] = "result" /\ pc'[p] = "over")
    BY <1>2, OthersKeep DEF Reporting, Moving
  <2>2. "over" \in Reporting /\ Rank("over") = 0
    BY RankTyped DEF Reporting
  <2> QED
    BY <1>2, <2>1, <2>2
<1>3. ASSUME Near(p, r), ~Near(p, q) PROVE MustProbe(p)
  <2>1. pc[p] \in Reporting \ {"result", "over"}
    BY <1>3, RankTyped
  <2> QED
    BY <2>1 DEF MustProbe, Reporting
<1> QED
  BY <1>1, <1>2, <1>3

LEMMA FairIsSpec ==
  FairSpec => []TypeInv /\ []Shape /\ []OverIsAnswered /\ [][Next]_vars
<1>1. Init => OverIsAnswered
  BY DEF Init, OverIsAnswered, Jobs
<1> QED
  BY <1>1, InitType, TypeStep, InitShape, ShapeStep, OverIsAnsweredStep, PTL DEF FairSpec, Spec

Reports(p) == MustProbe(p) ~> pc[p] \in {"result", "over"}

(* A job whose turn has come reports, in whatever phase it is and whatever  *)
(* is cancelled, times out or panics meanwhile.                             *)
THEOREM JobsReport ==
  ASSUME NEW p \in Jobs
  PROVE  FairSpec /\ []NothingStuck => Reports(p)
<1> DEFINE S == MustProbe(p)
           R == pc[p] \in {"result", "over"}
           A == Probe(p)
           I == TypeInv /\ Shape
           W0 == Near(p, 0)
           W1 == Near(p, 1)
           W2 == Near(p, 2)
           W3 == Near(p, 3)
           W4 == Near(p, 4)
           W5 == Near(p, 5)
           W6 == Near(p, 6)
           W7 == Near(p, 7)
           W8 == Near(p, 8)
<1>8. (I /\ W8 /\ [Next]_vars => W8') /\ (I /\ W8 /\ <<A>>_vars => W7') /\ (W8 => W7 \/ S)
  BY NearSinks
<1>7. (I /\ W7 /\ [Next]_vars => W7') /\ (I /\ W7 /\ <<A>>_vars => W6') /\ (W7 => W6 \/ S)
  BY NearSinks
<1>6. (I /\ W6 /\ [Next]_vars => W6') /\ (I /\ W6 /\ <<A>>_vars => W5') /\ (W6 => W5 \/ S)
  BY NearSinks
<1>5. (I /\ W5 /\ [Next]_vars => W5') /\ (I /\ W5 /\ <<A>>_vars => W4') /\ (W5 => W4 \/ S)
  BY NearSinks
<1>4. (I /\ W4 /\ [Next]_vars => W4') /\ (I /\ W4 /\ <<A>>_vars => W3') /\ (W4 => W3 \/ S)
  BY NearSinks
<1>3. (I /\ W3 /\ [Next]_vars => W3') /\ (I /\ W3 /\ <<A>>_vars => W2') /\ (W3 => W2 \/ S)
  BY NearSinks
<1>2. (I /\ W2 /\ [Next]_vars => W2') /\ (I /\ W2 /\ <<A>>_vars => W1') /\ (W2 => W1 \/ S)
  BY NearSinks
<1>1. (I /\ W1 /\ [Next]_vars => W1') /\ (I /\ W1 /\ <<A>>_vars => W0') /\ (W1 => W0 \/ S)
  BY NearSinks
<1>9. S => W8
  BY RankTyped DEF MustProbe, Near, Reporting
<1>10. W0 => R
  BY RankTyped DEF Near
<1>11. FairSpec /\ []NothingStuck => []<>~S \/ []<><<A>>_vars
  BY ProbeGoes
<1>12. FairSpec => []I /\ [][Next]_vars
  BY FairIsSpec, PTL
<1> HIDE DEF S, R, A, I, W0, W1, W2, W3, W4, W5, W6, W7, W8
<1>13. FairSpec /\ []NothingStuck => (S ~> R)
  BY <1>1, <1>2, <1>3, <1>4, <1>5, <1>6, <1>7, <1>8, <1>9, <1>10, <1>11, <1>12, PTL
<1> QED
  BY <1>13 DEF S, R, Reports

(* A request for a test is answered, given that no goroutine is stuck in    *)
(* the middle of it.                                                        *)
THEOREM EachAnswered ==
  ASSUME NEW t \in Tests
  PROVE  FairSpec /\ []NothingStuck => Answered(t)
<1> DEFINE S == pc[t] # "none"
           M == MustProbe(t)
           R == pc[t] \in {"result", "over"}
           X == pc[t] = "result" /\ t \notin answered
           D == t \in answered
           A == AnswerResult(t)
<1>1. t \in Jobs
  BY DEF Jobs
<1>2. FairSpec /\ []NothingStuck => (M ~> R)
  <2>1. FairSpec /\ []NothingStuck => Reports(t)
    BY <1>1, JobsReport
  <2> QED
    BY <2>1 DEF Reports
<1>3. TypeInv /\ Shape /\ OverIsAnswered /\ S => M \/ X \/ D
  BY DEF OverIsAnswered, Reporting, MustProbe
<1>4. OverIsAnswered /\ R => X \/ D
  BY DEF OverIsAnswered
<1>5. TypeInv /\ Shape /\ X /\ [Next]_vars => X' \/ D'
  <2> SUFFICES ASSUME TypeInv, Shape, X, [Next]_vars PROVE X' \/ D'
    OBVIOUS
  <2>1. ~Probe(t)
    BY <1>1, ProbeSinks, RankTyped
  <2> QED
    BY <1>1, <2>1, OthersKeep
<1>6. <<A>>_vars => D'
  BY DEF AnswerResult
<1>7. FairSpec /\ []NothingStuck => []<>~X \/ []<><<A>>_vars
  <2>1. TestsGoOn => TestGoesOn(t)
    BY DEF TestsGoOn
  <2>2. NothingStuck => (X => ENABLED <<A>>_vars)
    BY DEF NothingStuck
  <2> QED
    BY <2>1, <2>2, PTL DEF FairSpec, Fairness, TestGoesOn
<1>8. FairSpec => []TypeInv /\ []Shape /\ []OverIsAnswered /\ [][Next]_vars
  BY FairIsSpec
<1> HIDE DEF S, M, R, X, D, A
<1>9. FairSpec /\ []NothingStuck => (S ~> D)
  BY <1>2, <1>3, <1>4, <1>5, <1>6, <1>7, <1>8, PTL
<1> QED
  BY <1>9 DEF S, D, Answered

(* Every request for a test is answered, for any number of tests and        *)
(* batches that run into each other.                                        *)
THEOREM TestsAreAnswered == FairSpec /\ []NothingStuck => RequestsAnswered
BY EachAnswered DEF RequestsAnswered
=============================================================================
