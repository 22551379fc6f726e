-------------------------- MODULE NodeCatalogProofs --------------------------
(***************************************************************************)
(* Theorems about NodeCatalog, for every set of nodes.                     *)
(***************************************************************************)
EXTENDS NodeCatalogBind, TLAPS

USE DEF Verdicts, Results, Unlisted, Listed, vars, listVars, sessionVars, useVars

Statuses == Results \cup Unlisted \cup {"not_checked"}

(* What a refresh leaves has the types of what it found.                    *)
LEMMA ReplaceType ==
  ASSUME TypeOK, NEW fresh \in SUBSET Nodes, NEW kept \in SUBSET Nodes,
         NEW previousFailed, NEW gone \in Unlisted,
         Replace(fresh, kept, previousFailed, gone)
  PROVE  status' \in [Nodes -> Statuses] /\ failed' \subseteq Nodes /\ active' \subseteq Nodes
<1>1. \A n \in Nodes : Preserve(n, previousFailed) \in Statuses
  BY DEF Preserve, Statuses
<1>2. status \in [Nodes -> Statuses]
  BY DEF TypeOK, Statuses
<1>3. gone \in Statuses
  BY DEF Statuses
<1>4. status' \in [Nodes -> Statuses]
  BY <1>1, <1>2, <1>3 DEF Replace, NewList
<1> QED
  BY <1>4 DEF TypeOK, Replace, Flags, FailedOf, ActiveNodes

(* Every reachable state has its type.                                      *)
THEOREM TypeCorrect == Spec => []TypeOK
<1>1. Init => TypeOK
  BY DEF Init, TypeOK
<1>2. TypeOK /\ [Next]_vars => TypeOK'
  <2> SUFFICES ASSUME TypeOK, [Next]_vars PROVE TypeOK'
    OBVIOUS
  <2>1. CASE RefreshNodes
    <3>1. PICK fresh \in Fetched : Replace(fresh, {}, {}, "removed")
      BY <2>1 DEF RefreshNodes
    <3>2. fresh \in SUBSET Nodes
      BY DEF Fetched
    <3> QED
      BY <2>1, <3>1, <3>2, ReplaceType DEF RefreshNodes, TypeOK, Statuses
  <2>2. CASE RefreshNodesInBackground
    <3>1. PICK fresh \in Fetched :
            Replace(fresh, (Listed \cap Retained) \ fresh, failed, "dropped")
      BY <2>2 DEF RefreshNodesInBackground
    <3>2. fresh \in SUBSET Nodes /\ (Listed \cap Retained) \ fresh \in SUBSET Nodes
      BY DEF Fetched
    <3> QED
      BY <2>2, <3>1, <3>2, ReplaceType DEF RefreshNodesInBackground, TypeOK, Statuses
  <2>3. ASSUME NEW n \in Nodes \cup {NoNode}, Connect(n) PROVE TypeOK'
    BY <2>3 DEF TypeOK, Connect
  <2>4. CASE FinishStopped \/ FinishError
    BY <2>4 DEF TypeOK, FinishStopped, FinishError, EndSession
  <2>5. ASSUME NEW n \in Nodes,
               ConnectBound(n) \/ BackendRuns(n) \/ BackendStops(n)
        PROVE TypeOK'
    BY <2>5 DEF TypeOK, ConnectBound, BackendRuns, BackendStops, SetRunning
  <2>6. ASSUME NEW n \in Nodes,
               ReserveProxy(n) \/ CommitProxy(n) \/ StartFails(n) \/ EndLease(n)
        PROVE TypeOK'
    BY <2>6 DEF TypeOK, ReserveProxy, CommitProxy, StartFails, EndLease, MarkFailed
  <2>7. ASSUME NEW n \in Nodes, StartTest(n) \/ EndTest(n) PROVE TypeOK'
    BY <2>7 DEF TypeOK, StartTest, EndTest, Mark, MarkFailed
  <2>8. ASSUME NEW n \in Nodes, StoreCache(n) \/ ExpireCache(n) PROVE TypeOK'
    BY <2>8 DEF TypeOK, StoreCache, ExpireCache
  <2>9. CASE UNCHANGED vars
    BY <2>9 DEF TypeOK
  <2> QED
    BY <2>1, <2>2, <2>3, <2>4, <2>5, <2>6, <2>7, <2>8, <2>9 DEF Next, Refresh
<1> QED
  BY <1>1, <1>2, PTL DEF Spec

(* The marks of tests and leases leave the set of listed nodes as it is.    *)
LEMMA MarksKeepList ==
  ASSUME TypeOK, NEW n \in Nodes, NEW st \in Results, Mark(n, st) \/ MarkFailed(n)
  PROVE  Listed' = Listed
BY DEF TypeOK, Mark, MarkFailed

(* A refresh lists the downloaded nodes and the kept ones, no others.       *)
LEMMA ReplaceLists ==
  ASSUME TypeOK, NEW fresh \in SUBSET Nodes, NEW kept \in SUBSET Listed,
         NEW previousFailed, NEW gone \in Unlisted,
         Replace(fresh, kept, previousFailed, gone)
  PROVE  Listed' = fresh \cup kept
<1>1. \A n \in Nodes : Preserve(n, previousFailed) \in Results \cup {"not_checked"}
  BY DEF Preserve
<1> QED
  BY <1>1 DEF TypeOK, Replace, NewList

(* The flags of the list say which nodes the session's backends run on:     *)
(* inductive, for a refresh only copies flags that are right already.       *)
THEOREM ActiveShown == Spec => []ActiveIsRunning
<1>1. Init => ActiveIsRunning
  BY DEF Init, ActiveIsRunning
<1>2. TypeOK /\ ActiveIsRunning /\ [Next]_vars => ActiveIsRunning'
  <2> SUFFICES ASSUME TypeOK, ActiveIsRunning, [Next]_vars PROVE ActiveIsRunning'
    OBVIOUS
  <2>1. ASSUME NEW fresh \in Fetched, NEW kept \in SUBSET Listed, kept \cap fresh = {},
               NEW previousFailed, NEW gone \in Unlisted,
               Replace(fresh, kept, previousFailed, gone), UNCHANGED running
        PROVE  ActiveIsRunning'
    <3>1. Listed' = fresh \cup kept
      BY <2>1, ReplaceLists DEF Fetched
    <3> QED
      BY <2>1, <3>1 DEF ActiveIsRunning, Replace, Flags, ActiveNodes
  <2>2. CASE RefreshNodes
    BY <2>1, <2>2 DEF RefreshNodes
  <2>3. CASE RefreshNodesInBackground
    BY <2>1, <2>3 DEF RefreshNodesInBackground
  <2>4. CASE FinishStopped \/ FinishError
    BY <2>4 DEF ActiveIsRunning, FinishStopped, FinishError, EndSession
  <2>5. ASSUME NEW n \in Nodes \cup {NoNode}, Connect(n) PROVE ActiveIsRunning'
    BY <2>5 DEF ActiveIsRunning, Connect
  <2>6. ASSUME NEW n \in Nodes,
               ConnectBound(n) \/ BackendRuns(n) \/ BackendStops(n)
        PROVE  ActiveIsRunning'
    BY <2>6 DEF ActiveIsRunning, ConnectBound, BackendRuns, BackendStops, SetRunning
  <2>7. ASSUME NEW n \in Nodes, StartFails(n) \/ StartTest(n) \/ EndTest(n)
        PROVE  ActiveIsRunning'
    <3>1. Listed' = Listed
      BY <2>7, MarksKeepList DEF StartFails, StartTest, EndTest
    <3> QED
      BY <2>7, <3>1 DEF ActiveIsRunning, StartFails, StartTest, EndTest
  <2>8. ASSUME NEW n \in Nodes,
               \/ ReserveProxy(n) \/ CommitProxy(n) \/ EndLease(n)
               \/ StoreCache(n) \/ ExpireCache(n)
        PROVE  ActiveIsRunning'
    BY <2>8 DEF ActiveIsRunning, ReserveProxy, CommitProxy, EndLease, StoreCache, ExpireCache
  <2>9. CASE UNCHANGED vars
    BY <2>9 DEF ActiveIsRunning
  <2> QED
    BY <2>2, <2>3, <2>4, <2>5, <2>6, <2>7, <2>8, <2>9 DEF Next, Refresh
<1> QED
  BY <1>1, <1>2, TypeCorrect, PTL DEF Spec

(* The list and s.failed come apart only by a bound node and by the end of  *)
(* a session, never in a refresh.                                           *)
THEOREM ShownIsAvoided == Spec => ShownMatchesAvoided
<1> DEFINE Excused(n) == Apart(n) \/ ConnectBound(n) \/ (FinishError /\ session = n)
           Step == \A n \in Nodes : Apart(n)' => Excused(n) /\ ~Refresh
<1>1. TypeOK /\ [Next]_vars => [Step]_vars
  <2> SUFFICES ASSUME TypeOK, Next, NEW m \in Nodes, Apart(m)'
               PROVE  Excused(m) /\ ~Refresh
    BY DEF Excused, Step
  <2>1. ~Refresh
    <3>1. ASSUME NEW fresh, NEW kept, NEW previousFailed, NEW gone,
                 Replace(fresh, kept, previousFailed, gone)
          PROVE  FALSE
      BY <3>1 DEF Replace, FailedOf, Apart
    <3> QED
      BY <3>1 DEF Refresh, RefreshNodes, RefreshNodesInBackground
  <2>2. CASE FinishStopped \/ FinishError
    BY <2>1, <2>2 DEF Apart, Excused, FinishStopped, FinishError, EndSession
  <2>3. ASSUME NEW n \in Nodes \cup {NoNode}, Connect(n) PROVE Excused(m)
    BY <2>3 DEF Apart, Excused, Connect
  <2>4. ASSUME NEW n \in Nodes,
               ConnectBound(n) \/ BackendRuns(n) \/ BackendStops(n)
        PROVE  Excused(m)
    BY <2>4 DEF Apart, Excused, ConnectBound, BackendRuns, BackendStops, SetRunning
  <2>5. ASSUME NEW n \in Nodes, StartFails(n) \/ StartTest(n) \/ EndTest(n)
        PROVE  Excused(m)
    BY <2>5 DEF Apart, Excused, StartFails, StartTest, EndTest, Mark, MarkFailed, TypeOK
  <2>6. ASSUME NEW n \in Nodes,
               \/ ReserveProxy(n) \/ CommitProxy(n) \/ EndLease(n)
               \/ StoreCache(n) \/ ExpireCache(n)
        PROVE  Excused(m)
    BY <2>6 DEF Apart, Excused, ReserveProxy, CommitProxy, EndLease, StoreCache, ExpireCache
  <2> QED
    BY <2>1, <2>2, <2>3, <2>4, <2>5, <2>6 DEF Next
<1> QED
  BY <1>1, TypeCorrect, PTL DEF Spec, ShownMatchesAvoided, Excused, Step

(* A background refresh keeps every node that is in use.                    *)
THEOREM InUseKept == Spec => InUseStaysListed
<1> DEFINE Step == \A n \in Listed :
             status'[n] = "dropped" => n \notin running \cup cached /\ lease[n] # "granted"
<1>1. TypeOK /\ [Next]_vars => [Step]_vars
  <2> SUFFICES ASSUME TypeOK, Next, NEW m \in Listed, status'[m] = "dropped"
               PROVE  m \notin running \cup cached /\ lease[m] # "granted"
    BY DEF Step
  <2>1. CASE RefreshNodes
    BY <2>1 DEF RefreshNodes, Replace, NewList, Preserve, TypeOK
  <2>2. CASE RefreshNodesInBackground
    BY <2>2 DEF RefreshNodesInBackground, Replace, NewList, Preserve, Retained, ActiveNodes, TypeOK
  <2>3. ASSUME NEW n \in Nodes, StartFails(n) \/ StartTest(n) \/ EndTest(n) PROVE FALSE
    BY <2>3 DEF StartFails, StartTest, EndTest, Mark, MarkFailed, TypeOK
  <2>4. CASE UNCHANGED status
    BY <2>4
  <2> QED
    BY <2>1, <2>2, <2>3, <2>4 DEF Next, Refresh, Connect, FinishStopped, FinishError,
       EndSession, ConnectBound, BackendRuns, BackendStops, SetRunning, ReserveProxy,
       CommitProxy, EndLease, StoreCache, ExpireCache
<1> QED
  BY <1>1, TypeCorrect, PTL DEF Spec, InUseStaysListed, Step

(* Neither refresh takes the result of a listed node away.                  *)
THEOREM ResultsKept == Spec => ResultKept
<1> DEFINE Step == \A n \in Nodes : status[n] \in Results => status'[n] # "not_checked"
<1>1. TypeOK /\ [Next]_vars => [Step]_vars
  <2> SUFFICES ASSUME TypeOK, Next, NEW m \in Nodes, status[m] \in Results
               PROVE  status'[m] # "not_checked"
    BY DEF Step
  <2>1. ASSUME NEW fresh, NEW kept, NEW previousFailed, NEW gone \in Unlisted,
               Replace(fresh, kept, previousFailed, gone)
        PROVE  status'[m] # "not_checked"
    <3>1. m \in Listed /\ Preserve(m, previousFailed) # "not_checked"
      BY DEF Preserve
    <3> QED
      BY <2>1, <3>1 DEF Replace, NewList
  <2>2. CASE Refresh
    BY <2>1, <2>2 DEF Refresh, RefreshNodes, RefreshNodesInBackground
  <2>3. ASSUME NEW n \in Nodes, StartFails(n) \/ StartTest(n) \/ EndTest(n)
        PROVE  status'[m] # "not_checked"
    BY <2>3 DEF StartFails, StartTest, EndTest, Mark, MarkFailed, TypeOK
  <2>4. CASE UNCHANGED status
    BY <2>4
  <2> QED
    BY <2>2, <2>3, <2>4 DEF Next, Connect, FinishStopped, FinishError,
       EndSession, ConnectBound, BackendRuns, BackendStops, SetRunning, ReserveProxy,
       CommitProxy, EndLease, StoreCache, ExpireCache
<1> QED
  BY <1>1, TypeCorrect, PTL DEF Spec, ResultKept, Step

-----------------------------------------------------------------------------
(* How far a binding sticks                                                 *)

(* A bound node is failed again only with the status that the binding left. *)
ShownFailed == \A n \in cleared \cap failed : status[n] = "unavailable"

LEMMA RefreshFails ==
  ASSUME TypeOK, Refresh, NEW n \in failed' \ failed
  PROVE  status[n] = "unavailable" /\ status'[n] = "unavailable"
<1>1. ASSUME NEW fresh, NEW kept, NEW previousFailed \in {{}, failed}, NEW gone \in Unlisted,
             Replace(fresh, kept, previousFailed, gone)
      PROVE  status[n] = "unavailable" /\ status'[n] = "unavailable"
  <2>1. n \in Nodes /\ status'[n] = "unavailable" /\ n \notin previousFailed
    BY <1>1 DEF Replace, FailedOf
  <2> QED
    BY <1>1, <2>1 DEF Replace, NewList, Preserve
<1> QED
  BY <1>1 DEF Refresh, RefreshNodes, RefreshNodesInBackground

(* Apart from refreshes and from what is said of it, a bound node keeps its *)
(* status and its place.                                                    *)
LEMMA BoundStep ==
  ASSUME TypeOK, Next, NEW n \in Nodes, ~Refresh, ~SaidOf(n)
  PROVE  status'[n] = status[n] /\ (n \in failed' => n \in failed)
<1>1. CASE FinishStopped \/ FinishError
  BY <1>1 DEF SaidOf, FinishStopped, FinishError
<1>2. ASSUME NEW m \in Nodes \cup {NoNode}, Connect(m)
      PROVE  status'[n] = status[n] /\ (n \in failed' => n \in failed)
  BY <1>2 DEF Connect
<1>3. ASSUME NEW m \in Nodes, StartFails(m) \/ StartTest(m) \/ EndTest(m)
      PROVE  status'[n] = status[n] /\ (n \in failed' => n \in failed)
  <2>1. m # n
    BY <1>3 DEF SaidOf
  <2> QED
    BY <1>3, <2>1 DEF StartFails, StartTest, EndTest, Mark, MarkFailed, TypeOK
<1>4. ASSUME NEW m \in Nodes,
             \/ ConnectBound(m) \/ BackendRuns(m) \/ BackendStops(m)
             \/ ReserveProxy(m) \/ CommitProxy(m) \/ EndLease(m)
             \/ StoreCache(m) \/ ExpireCache(m)
      PROVE  status'[n] = status[n] /\ (n \in failed' => n \in failed)
  BY <1>4 DEF ConnectBound, BackendRuns, BackendStops, SetRunning, ReserveProxy, CommitProxy,
     EndLease, StoreCache, ExpireCache
<1> QED
  BY <1>1, <1>2, <1>3, <1>4 DEF Next

LEMMA BindTyped == BindSpec => Spec /\ []TypeOK
<1>1. BindInit => Init
  BY DEF BindInit
<1>2. [BindNext]_bindVars => [Next]_vars
  BY DEF BindNext, bindVars
<1> QED
  BY <1>1, <1>2, TypeCorrect, PTL DEF BindSpec, Spec

(* BindSticks fails in one way only: between two findings against it, a     *)
(* bound node enters s.failed again by a refresh that finds it still shown  *)
(* as unavailable, and by nothing a session, a lease or another test does.  *)
THEOREM OnlyARefreshUnbinds ==
  BindSpec => /\ []ShownFailed
              /\ [][\A n \in cleared \cap cleared' :
                      n \in failed' \ failed => Refresh /\ status[n] = "unavailable"]_bindVars
<1> DEFINE Step == \A n \in cleared \cap cleared' :
             n \in failed' \ failed => Refresh /\ status[n] = "unavailable"
<1>1. BindInit => ShownFailed
  BY DEF BindInit, ShownFailed
<1>2. TypeOK /\ BindNext => Step
  <2> SUFFICES ASSUME TypeOK, BindNext, NEW n \in cleared \cap cleared', n \in failed' \ failed
               PROVE  Refresh /\ status[n] = "unavailable"
    OBVIOUS
  <2>1. n \in Nodes /\ (ConnectBound(n) \/ ~SaidOf(n))
    BY DEF BindNext
  <2>2. ~ConnectBound(n)
    BY DEF ConnectBound
  <2>3. Refresh
    BY <2>1, <2>2, BoundStep DEF BindNext
  <2> QED
    BY <2>3, RefreshFails
<1>3. TypeOK /\ ShownFailed /\ [BindNext]_bindVars => ShownFailed'
  <2> SUFFICES ASSUME TypeOK, ShownFailed, BindNext, NEW n \in cleared' \cap failed'
               PROVE  status'[n] = "unavailable"
    BY DEF ShownFailed, bindVars
  <2>1. n \in Nodes /\ ~ConnectBound(n) /\ n \in cleared /\ ~SaidOf(n)
    BY DEF BindNext, ConnectBound
  <2>2. CASE Refresh
    BY <2>1, <2>2 DEF Refresh, RefreshNodes, RefreshNodesInBackground, Replace, FailedOf
  <2>3. CASE ~Refresh
    BY <2>1, <2>3, BoundStep DEF BindNext, ShownFailed
  <2> QED
    BY <2>2, <2>3
<1> HIDE DEF Step
<1>4. BindSpec => []ShownFailed
  BY <1>1, <1>3, BindTyped, PTL DEF BindSpec
<1>5. BindSpec => [][Step]_bindVars
  BY <1>2, BindTyped, PTL DEF BindSpec
<1> QED
  BY <1>4, <1>5, PTL DEF Step
=============================================================================
