---------------------------- MODULE NodeCatalog ----------------------------
(***************************************************************************)
(* The list of VPNGate nodes of the management server                      *)
(* (src/userspace-gateway/internal/manager/server.go) and what refers to   *)
(* its nodes: the session's backends, leases, the quality cache, tests and *)
(* the failed nodes.  A refresh, by hand (GET /api/nodes?refresh) or in    *)
(* the background, replaces the list while all of those go on.             *)
(*                                                                         *)
(* The download of the list reads nothing of the server, so a refresh is   *)
(* its locked section.  One test at a time per node: NodeProbe has more.   *)
(***************************************************************************)
EXTENDS Integers, FiniteSets

CONSTANT Nodes

NoNode == "no node"
ASSUME NodeCatalogAssumption == Nodes \cap {NoNode, "off"} = {}

VARIABLES
  status,    \* ProbeStatus of a listed node; or Unlisted
  failed,    \* s.failed
  active,    \* nodes with the flag Active
  session,   \* s.session: its nodeID, NoNode without one, "off"
  running,   \* nodes of its listener backends in state "running"
  lease,     \* dynamic proxies: "starting" from the choice of the node to the commit
  cached,    \* unexpired entries of s.proxyCache
  test       \* the node's test: "done" when its result is to go to the cache

listVars    == <<status, failed, active>>
sessionVars == <<session, running>>
useVars     == <<lease, cached, test>>
vars == <<listVars, sessionVars, useVars>>

-----------------------------------------------------------------------------
Verdicts == {"available", "unavailable", "cancelled"}
Results  == Verdicts \cup {"testing"}   \* hasNodeProbeResult

Unlisted == {"unknown", "dropped", "removed"}   \* never listed; gone in the background, by hand
Listed == {n \in Nodes : status[n] \notin Unlisted}

Init ==
  /\ status = [n \in Nodes |-> "unknown"] /\ failed = {} /\ active = {}
  /\ session = "off" /\ running = {}
  /\ lease = [n \in Nodes |-> "none"] /\ cached = {} /\ test = [n \in Nodes |-> "none"]

-----------------------------------------------------------------------------
(* The two refreshes *)

(* activeNodeIDsLocked *)
ActiveNodes == running \cup active

(* preserveNodeProbeResults for one node of the new list *)
PreserveNone(n, previousFailed) ==   \* mutant: only failures are carried over
  IF n \in previousFailed THEN "unavailable" ELSE "not_checked"
Preserve(n, previousFailed) ==
  CASE n \in previousFailed -> "unavailable"
    [] n \notin previousFailed /\ n \in Listed /\ status[n] \in Results -> status[n]
    [] OTHER -> "not_checked"

(* retainedNodeIDsLocked *)
RetainedNoLease == ActiveNodes \cup cached   \* mutant: allocations are forgotten
Retained == ActiveNodes \cup {n \in Nodes : lease[n] = "granted"} \cup cached

(* the list, the flags and failedNodesFromProbeResults                      *)
NewList(fresh, kept, previousFailed, gone) ==
  [n \in Nodes |-> CASE n \in fresh -> Preserve(n, previousFailed)
                     [] n \in Listed \ (fresh \cup kept) -> gone
                     [] OTHER -> status[n]]
FlagsOfOld(fresh, kept) == kept \cap active   \* mutant: downloaded nodes get no flag
Flags(fresh, kept) == (fresh \cap ActiveNodes) \cup (kept \cap active)
FailedAsBefore(st) == failed   \* mutant: s.failed is left as it is
FailedOf(st) == {n \in Nodes : st[n] = "unavailable"}

Replace(fresh, kept, previousFailed, gone) ==
  /\ status' = NewList(fresh, kept, previousFailed, gone)
  /\ active' = Flags(fresh, kept)
  /\ failed' = FailedOf(status')

Fetched == (SUBSET Nodes) \ {{}}   \* an empty list is an error of the client

RefreshNodes ==
  /\ \E fresh \in Fetched : Replace(fresh, {}, {}, "removed")
  /\ UNCHANGED <<sessionVars, useVars>>

RefreshNodesInBackground ==
  /\ \E fresh \in Fetched : Replace(fresh, (Listed \cap Retained) \ fresh, failed, "dropped")
  /\ UNCHANGED <<sessionVars, useVars>>

-----------------------------------------------------------------------------
(* Marks: nodes that are not listed only enter s.failed *)

MarkFailed(n) ==
  /\ status' = IF n \in Listed THEN [status EXCEPT ![n] = "unavailable"] ELSE status
  /\ failed' = failed \cup {n}
Mark(n, st) ==
  /\ n \in Listed
  /\ status' = [status EXCEPT ![n] = st] /\ failed' = failed \ {n}

-----------------------------------------------------------------------------
(* Sessions *)

(* connect with a node's own file or with a policy, and the replacement of  *)
(* a session; tryAutoConnect is the case of no node and no session          *)
Connect(n) ==
  /\ n = NoNode \/ n \in Listed
  /\ session' = n /\ running' = {} /\ active' = {}
  /\ UNCHANGED <<status, failed, useVars>>

(* connect with a listener: the node is bound to it, its failure forgotten  *)
ConnectBound(n) ==
  /\ n \in Listed
  /\ session' = n /\ running' = {} /\ active' = {}
  /\ failed' = failed \ {n}
  /\ UNCHANGED <<status, useVars>>

(* updateListenerBackendState: a worker chose the node from an earlier list *)
SetRunning(ns) ==
  /\ session # "off"
  /\ running' = ns /\ active' = ns \cap Listed
  /\ UNCHANGED <<status, failed, session, useVars>>
BackendRuns(n) == status[n] # "unknown" /\ n \notin running /\ SetRunning(running \cup {n})
BackendStops(n) == n \in running /\ SetRunning(running \ {n})

(* finishSession: stopped, or with an error, which counts against its node  *)
EndSession == session # "off" /\ session' = "off" /\ running' = {} /\ active' = {}
FinishStopped == EndSession /\ UNCHANGED <<status, failed, useVars>>
FinishError ==
  /\ EndSession
  /\ failed' = failed \cup ({session} \cap Nodes)
  /\ UNCHANGED <<status, useVars>>

-----------------------------------------------------------------------------
(* Leases *)

ReserveProxy(n) ==
  /\ lease[n] = "none" /\ n \in Listed \cap cached
  /\ lease' = [lease EXCEPT ![n] = "starting"]
  /\ UNCHANGED <<listVars, sessionVars, cached, test>>
CommitProxy(n) ==
  /\ lease[n] = "starting" /\ lease' = [lease EXCEPT ![n] = "granted"]
  /\ UNCHANGED <<listVars, sessionVars, cached, test>>
StartFails(n) ==
  /\ lease[n] = "starting" /\ lease' = [lease EXCEPT ![n] = "none"]
  /\ MarkFailed(n)
  /\ UNCHANGED <<active, sessionVars, cached, test>>
EndLease(n) ==   \* released, expired, or given up before the start
  /\ lease[n] # "none" /\ lease' = [lease EXCEPT ![n] = "none"]
  /\ UNCHANGED <<listVars, sessionVars, cached, test>>

-----------------------------------------------------------------------------
(* Tests and the quality cache *)

StartTest(n) ==
  /\ test[n] = "none"
  /\ \/ test' = [test EXCEPT ![n] = "api"]
     \/ test' = [test EXCEPT ![n] = "cache"] /\ n \notin failed \cup cached
  /\ Mark(n, "testing")
  /\ UNCHANGED <<active, sessionVars, lease, cached>>

(* probeNodeWithTimeout: a node that is not listed any more is an error     *)
EndTest(n) ==
  /\ test[n] \in {"api", "cache"}
  /\ test' = [test EXCEPT ![n] = IF @ = "cache" THEN "done" ELSE "none"]
  /\ \/ \E st \in Verdicts \ {"unavailable"} : Mark(n, st)
     \/ MarkFailed(n)
     \/ n \notin Listed /\ UNCHANGED <<status, failed>>   \* cancelled
  /\ UNCHANGED <<active, sessionVars, lease, cached>>

(* updateProxyCacheFromProbeResults *)
StoreCache(n) ==
  /\ test[n] = "done" /\ test' = [test EXCEPT ![n] = "none"]
  /\ cached' = cached \cup {n}
  /\ UNCHANGED <<listVars, sessionVars, lease>>
ExpireCache(n) ==
  /\ n \in cached /\ cached' = cached \ {n}
  /\ UNCHANGED <<listVars, sessionVars, lease, test>>

-----------------------------------------------------------------------------
Refresh == RefreshNodes \/ RefreshNodesInBackground

Next ==
  \/ Refresh
  \/ \E n \in Nodes \cup {NoNode} : Connect(n)
  \/ FinishStopped \/ FinishError
  \/ \E n \in Nodes :
       \/ ConnectBound(n) \/ BackendRuns(n) \/ BackendStops(n)
       \/ ReserveProxy(n) \/ CommitProxy(n) \/ StartFails(n) \/ EndLease(n)
       \/ StartTest(n) \/ EndTest(n) \/ StoreCache(n) \/ ExpireCache(n)

Spec == Init /\ [][Next]_vars

-----------------------------------------------------------------------------
(* Every variable has its type. *)
TypeOK ==
  /\ status \in [Nodes -> Results \cup Unlisted \cup {"not_checked"}]
  /\ failed \subseteq Nodes /\ active \subseteq Nodes
  /\ session \in Nodes \cup {NoNode, "off"} /\ running \subseteq Nodes
  /\ lease \in [Nodes -> {"none", "starting", "granted"}]
  /\ cached \subseteq Nodes /\ test \in [Nodes -> {"none", "api", "cache", "done"}]

(* The flag Active of the listed nodes is what the session's backends say,  *)
(* though refreshes copy it from list to list and take the old flags for    *)
(* granted: a stale flag would never go away again.                         *)
ActiveIsRunning == active = running \cap Listed

(* The list and s.failed say the same of a listed node, so that the choice  *)
(* of backends avoids what the page shows as unavailable.  Whatever is      *)
(* tested, refreshed, dropped and fetched again, they come apart only where *)
(* the code writes one without the other: a node bound to a listener, and   *)
(* one whose session ends with an error; and every refresh mends it.        *)
Apart(n) == n \in Listed /\ ~(n \in failed <=> status[n] = "unavailable")
ShownMatchesAvoided ==
  [][\A n \in Nodes : Apart(n)' =>
       (Apart(n) \/ ConnectBound(n) \/ (FinishError /\ session = n)) /\ ~Refresh]_vars

(* The result of a test stays on show until the next test of the node or    *)
(* until the node leaves the list: no refresh turns it into not_checked.    *)
ResultKept ==
  [][\A n \in Nodes : status[n] \in Results => status'[n] # "not_checked"]_vars

(* No background refresh takes a node off the list while a backend of the  *)
(* session or a lease uses it or the cache offers it.                       *)
InUseStaysListed ==
  [][\A n \in Listed :
       status'[n] = "dropped" => n \notin running \cup cached /\ lease[n] # "granted"]_vars
=============================================================================
