---------------------------- MODULE MCNodeProbe ----------------------------
(***************************************************************************)
(* Two instances of NodeProbe for TLC in one run, with fairness.  "batch": *)
(* a batch of any of the nodes and no single test.  "tests": single tests  *)
(* of one node and no batch.  They differ in what is asked for only; what  *)
(* Fairness says of the others is left out, for they have no steps.        *)
(***************************************************************************)
EXTENDS NodeProbe

VARIABLE instance
mcVars == <<vars, instance>>

MCInit == Init /\ instance \in {"batch", "tests"} /\ \A t \in Tests : node[t] = 1

Asked ==
  IF instance = "batch" THEN \A t \in Tests : pc'[t] = "none"
  ELSE UNCHANGED bpc

MCNext == Next /\ Asked /\ UNCHANGED instance
MCFairness ==
  /\ \A b \in Batches : WF_vars(instance = "batch" /\ Batch(b))
  /\ \A b \in Batches : \A p \in JobsOf(b) : WF_vars(instance = "batch" /\ Probe(p))
  /\ \A t \in Tests : WF_vars(instance = "tests" /\ Probe(t)) /\ TestGoesOn(t)
MCFairSpec == MCInit /\ [][MCNext]_mcVars /\ MCFairness
=============================================================================
