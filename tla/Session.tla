------------------------------ MODULE Session ------------------------------
(***************************************************************************)
(* Gateway sessions of the management server                               *)
(* (src/userspace-gateway/internal/manager/server.go): connect, disconnect *)
(* and the auto-connect attempts install and drop s.session; runSession    *)
(* registers one backend per SOCKS5 listener and starts one worker each;   *)
(* a worker selects a node, starts OpenVPN, listens, checks its exit, and  *)
(* fails over with backoff; cancelled sessions unwind while a new one runs.*)
(*                                                                         *)
(* Sessions are numbered in the order they are made.  The fields of a      *)
(* session object that only the current session's readers see              *)
(* (session.status, session.listenerBackends) are one variable each.       *)
(***************************************************************************)
EXTENDS Integers, FiniteSets

CONSTANTS
  Listeners,     \* indexes of config.SocksListeners
  Nodes,         \* VPNGate nodes, by position in s.nodes
  Nets,          \* networks an EntryCIDRs may name
  CountryOf,     \* CountryShort of a node
  NetsOf,        \* networks its entry address is in
  Configs,       \* what s.config may hold: see SessionAssumption
  Autos,         \* concurrent calls of tryAutoConnect
  MaxSessions    \* bound on the sessions of a run

Sessions == 1 .. MaxSessions
NoSession == 0
NoNode == 0

Anywhere == "anywhere"
Countries == {CountryOf[n] : n \in Nodes} \cup {Anywhere}

(* A listener's backend policy: FixedNodeID, CountryCode, EntryCIDRs; one   *)
(* that is switched off says nothing.                                       *)
PolicyType == [fixed : Nodes \cup {NoNode}, country : Countries, nets : SUBSET Nets]
NoPolicy == [fixed |-> NoNode, country |-> Anywhere, nets |-> {}]

(* static: OpenVPNConfig is set (an unreadable file starts no session);     *)
(* fixed, country: what the routing mode says for every listener            *)
ConfigType == [static : BOOLEAN, enabled : SUBSET Listeners, fixed : Nodes \cup {NoNode},
               country : Countries, policy : [Listeners -> PolicyType]]

(* ValidateListeners refuses a configuration with no enabled listener       *)
ASSUME SessionAssumption ==
  /\ Listeners \subseteq Nat /\ Listeners # {} /\ IsFiniteSet(Listeners)
  /\ Nodes \subseteq Nat \ {NoNode} /\ IsFiniteSet(Nodes)
  /\ Configs \subseteq ConfigType /\ \A c \in Configs : c.enabled # {}
  /\ MaxSessions \in Nat

VARIABLES
  session,    \* s.session
  created,    \* sessions made so far
  nodeID,     \* session.nodeID: the node connect was called with, or NoNode
  config,     \* session.config: the snapshot its workers use
  cancelled,  \* sessions whose context is cancelled
  status,     \* session.status of the current session
  backends,   \* session.listenerBackends of the current session
  active,     \* nodes with Active set
  failed,     \* s.failed
  runner,     \* runSession / consumeListenerResults of each session
  errored,    \* sessions with an error in resultCh
  worker,     \* runListenerWorker of each session and listener
  plan,       \* its plan.NodeID
  forced,     \* listeners whose worker has forceVPNGate set, by session
  port,       \* the session whose socks.Server listens on the address
  auto        \* tryAutoConnect calls

sessionVars == <<session, created, nodeID, config, status, backends, active>>
workerVars  == <<worker, plan, forced, port>>
vars == <<sessionVars, cancelled, failed, runner, errored, workerVars, auto>>

-----------------------------------------------------------------------------
NoBackend == [status |-> "none", node |-> NoNode]
BackendStatuses == {"none", "starting", "switching", "error", "running"}
RunnerStates == {"none", "starting", "consuming", "erring", "done"}
WorkerStates == {"off", "top", "select", "unplanned", "planned", "checking", "serving",
                 "unwindNil", "unwindErr", "unwindListen", "failing", "failed",
                 "refreshing", "backoff", "done"}
NoConfig == [static |-> FALSE, enabled |-> {}, fixed |-> NoNode, country |-> Anywhere,
             policy |-> [l \in Listeners |-> NoPolicy]]

Init ==
  /\ session = NoSession /\ created = 0
  /\ nodeID = [s \in Sessions |-> NoNode]
  /\ config = [s \in Sessions |-> NoConfig]
  /\ cancelled = {} /\ status = "none"
  /\ backends = [l \in Listeners |-> NoBackend]
  /\ active = {} /\ failed = {}
  /\ runner = [s \in Sessions |-> "none"] /\ errored = {}
  /\ worker = [s \in Sessions |-> [l \in Listeners |-> "off"]]
  /\ plan = [s \in Sessions |-> [l \in Listeners |-> NoNode]]
  /\ forced = [s \in Sessions |-> {}]
  /\ port = [l \in Listeners |-> NoSession]
  /\ auto = [a \in Autos |-> "idle"]

-----------------------------------------------------------------------------
(* Locked helpers *)

(* aggregateBackendStatus over the backends registered so far *)
Registered(b) == {l \in Listeners : b[l].status # "none"}
With(b, st) == {l \in Listeners : b[l].status = st}
Aggregate(b) ==
  IF Registered(b) = {} THEN "starting"
  ELSE IF With(b, "running") = Registered(b) THEN "running"
  ELSE IF With(b, "error") = Registered(b) THEN "error"
  ELSE IF With(b, "switching") \cup With(b, "error") # {} THEN "switching"
  ELSE "starting"

(* recomputeActiveNodesLocked *)
RunningNodes(b) == {b[l].node : l \in With(b, "running")} \ {NoNode}

IsCurrent(s) == session = s

(* updateListenerBackendState: only the current session is written *)
UpdateAlways(s, l, st, n) ==   \* mutant: no comparison with s.session
  LET b == [backends EXCEPT ![l] = [status |-> st, node |-> n]] IN
    /\ backends' = b
    /\ active' = RunningNodes(b)
    /\ status' = Aggregate(b)
    /\ UNCHANGED <<session, created, nodeID, config>>
Update(s, l, st, n) ==
  IF ~IsCurrent(s) THEN UNCHANGED sessionVars
  ELSE LET b == [backends EXCEPT ![l] = [status |-> st, node |-> n]] IN
    /\ backends' = b
    /\ active' = RunningNodes(b)
    /\ status' = Aggregate(b)
    /\ UNCHANGED <<session, created, nodeID, config>>

(* listenerHasBackendPolicy *)
Bound(c) == {l \in Listeners : c.policy[l] # NoPolicy}

(* selectListenerNodeIDs without the failed nodes: a fixed node excludes    *)
(* the rest, the policy's own node and country come before the mode's       *)
FixedNode(c, l) == IF c.policy[l].fixed # NoNode THEN c.policy[l].fixed ELSE c.fixed
CountryFor(c, l) == IF c.policy[l].country # Anywhere THEN c.policy[l].country ELSE c.country
Allowed(c, l) ==
  IF FixedNode(c, l) # NoNode THEN {FixedNode(c, l)}
  ELSE {n \in Nodes :
          /\ CountryFor(c, l) \in {Anywhere, CountryOf[n]}
          /\ c.policy[l].nets # {} => c.policy[l].nets \cap NetsOf[n] # {}}

(* A new session object becomes s.session and its goroutine starts *)
NewSession(n, c) ==
  /\ created < MaxSessions
  /\ created' = created + 1 /\ session' = created'
  /\ nodeID' = [nodeID EXCEPT ![created'] = n]
  /\ config' = [config EXCEPT ![created'] = c]
  /\ forced' = [forced EXCEPT ![created'] = IF c.static THEN Bound(c) ELSE Listeners]
  /\ status' = "starting"
  /\ backends' = [l \in Listeners |-> NoBackend]
  /\ runner' = [runner EXCEPT ![created'] = "starting"]

NoCurrentKeepsFlags ==   \* mutant: finishSession without recomputeActiveNodesLocked
  /\ session' = NoSession /\ status' = "none"
  /\ backends' = [l \in Listeners |-> NoBackend]
  /\ UNCHANGED <<created, nodeID, config, active>>
NoCurrent ==
  /\ session' = NoSession /\ status' = "none"
  /\ backends' = [l \in Listeners |-> NoBackend]
  /\ active' = {}
  /\ UNCHANGED <<created, nodeID, config>>

-----------------------------------------------------------------------------
(* The API and the auto-connect attempts *)

Connectable(c) == c.static \/ Bound(c) # {}

(* connect: the configuration as it is, or a node's own OpenVPN file, or    *)
(* the node bound to one listener, which also clears its failure            *)
ConnectPlain == \E c \in Configs : Connectable(c) /\ NewSession(NoNode, c) /\ UNCHANGED failed
ConnectNode ==
  /\ \E c \in Configs, n \in Nodes : NewSession(n, [c EXCEPT !.static = TRUE])
  /\ UNCHANGED failed
ConnectBind ==
  \E c \in Configs, n \in Nodes : \E l \in c.enabled :
    /\ NewSession(n, [c EXCEPT !.policy[l].fixed = n])
    /\ failed' = failed \ {n}

(* ... and a session there already is cancelled and replaced *)
Connect ==
  /\ ConnectPlain \/ ConnectNode \/ ConnectBind
  /\ cancelled' = cancelled \cup ({session} \ {NoSession})
  /\ active' = IF session = NoSession THEN active ELSE {}
  /\ UNCHANGED <<errored, worker, plan, port, auto>>

Disconnect ==
  /\ session # NoSession
  /\ cancelled' = cancelled \cup {session}
  /\ NoCurrent
  /\ UNCHANGED <<failed, runner, errored, workerVars, auto>>

(* tryAutoConnect, from the maintenance loop or after a failed session:     *)
(* the check is made in one locked section ...                              *)
AutoCheck(a) ==
  /\ auto[a] = "idle" /\ session = NoSession
  /\ \E c \in Configs : Connectable(c)
  /\ auto' = [auto EXCEPT ![a] = "checked"]
  /\ UNCHANGED <<sessionVars, cancelled, failed, runner, errored, workerVars>>

(* ... and startConfiguredSession repeats it in another *)
AutoStartUnchecked(a) ==   \* mutant: the check is not repeated
  /\ auto[a] = "checked"
  /\ auto' = [auto EXCEPT ![a] = "idle"]
  /\ \E c \in Configs : Connectable(c) /\ NewSession(NoNode, c)
  /\ active' = {}
  /\ UNCHANGED <<cancelled, failed, errored, worker, plan, port>>
AutoStart(a) ==
  /\ auto[a] = "checked"
  /\ auto' = [auto EXCEPT ![a] = "idle"]
  /\ \/ /\ session = NoSession
        /\ \E c \in Configs : Connectable(c) /\ NewSession(NoNode, c)
        /\ active' = {}
     \/ session # NoSession /\ UNCHANGED <<sessionVars, runner, forced>>
  /\ UNCHANGED <<cancelled, failed, errored, worker, plan, port>>

-----------------------------------------------------------------------------
(* runSession and consumeListenerResults *)

(* the next listener gets a backend entry and a worker *)
RegisterListener(s, l) ==
  /\ runner[s] = "starting"
  /\ worker[s][l] = "off" /\ \A m \in config[s].enabled : worker[s][m] = "off" => l <= m
  /\ Update(s, l, "starting", NoNode)
  /\ worker' = [worker EXCEPT ![s][l] = "top"]
  /\ runner' = [runner EXCEPT ![s] =
                  IF \A m \in config[s].enabled \ {l} : worker[s][m] # "off" THEN "consuming" ELSE @]
  /\ UNCHANGED <<cancelled, failed, errored, plan, forced, port, auto>>

(* a result with an error ends the session, unless it is cancelled already *)
ConsumeError(s) ==
  /\ runner[s] = "consuming" /\ s \in errored
  /\ errored' = errored \ {s}
  /\ IF s \in cancelled THEN UNCHANGED <<cancelled, runner>>
     ELSE /\ cancelled' = cancelled \cup {s}
          /\ runner' = [runner EXCEPT ![s] = "erring"]
  /\ UNCHANGED <<sessionVars, failed, workerVars, auto>>

(* finishSession *)
FinishErrorQuiet(s) ==   \* mutant: s.session is left as it is
  /\ runner[s] = "erring"
  /\ runner' = [runner EXCEPT ![s] = "done"]
  /\ failed' = failed \cup ({nodeID[s]} \ {NoNode})
  /\ UNCHANGED <<sessionVars, cancelled, errored, workerVars, auto>>
FinishError(s) ==
  /\ runner[s] = "erring"
  /\ runner' = [runner EXCEPT ![s] = "done"]
  /\ IF IsCurrent(s) THEN NoCurrent /\ failed' = failed \cup ({nodeID[s]} \ {NoNode})
                     ELSE UNCHANGED <<sessionVars, failed>>
  /\ UNCHANGED <<cancelled, errored, workerVars, auto>>
FinishStopped(s) ==
  /\ runner[s] = "consuming" /\ s \in cancelled
  /\ runner' = [runner EXCEPT ![s] = "done"]
  /\ IF IsCurrent(s) THEN NoCurrent ELSE UNCHANGED sessionVars
  /\ UNCHANGED <<cancelled, failed, errored, workerVars, auto>>

Runner(s) ==
  \/ \E l \in config[s].enabled : RegisterListener(s, l)
  \/ ConsumeError(s) \/ FinishError(s) \/ FinishStopped(s)

-----------------------------------------------------------------------------
(* runListenerWorker; local steps are part of the locked step they precede *)

WGoto(s, l, from, to) ==
  worker[s][l] = from /\ worker' = [worker EXCEPT ![s][l] = to]

WorkerExit(s, l) ==
  /\ s \in cancelled
  /\ WGoto(s, l, "top", "done") \/ WGoto(s, l, "backoff", "done")
  /\ UNCHANGED <<sessionVars, cancelled, failed, runner, errored, plan, forced, port, auto>>

WorkerTopQuiet(s, l) ==   \* mutant: "switching" is not written
  /\ s \notin cancelled
  /\ WGoto(s, l, "top", "select")
  /\ UNCHANGED <<sessionVars, cancelled, failed, runner, errored, plan, forced, port, auto>>
WorkerTop(s, l) ==
  /\ s \notin cancelled
  /\ WGoto(s, l, "top", "select")
  /\ Update(s, l, "switching", NoNode)
  /\ UNCHANGED <<cancelled, failed, runner, errored, plan, forced, port, auto>>

(* resolveListenerBackend: the static file of the session *)
ResolveStatic(s, l) ==
  /\ l \notin forced[s]
  /\ WGoto(s, l, "select", "planned")
  /\ plan' = [plan EXCEPT ![s][l] = nodeID[s]]
  /\ UNCHANGED <<sessionVars, cancelled, failed, runner, errored, forced, port, auto>>

(* selectAndProbeListenerNode: the first candidate whose probe succeeds;    *)
(* the ones before it have failed theirs                                    *)
Candidates(s, l) == Allowed(config[s], l) \ failed
ResolveNode(s, l) ==
  /\ l \in forced[s]
  /\ WGoto(s, l, "select", "planned")
  /\ \E n \in Candidates(s, l) :
       /\ plan' = [plan EXCEPT ![s][l] = n]
       /\ failed' = failed \cup {m \in Candidates(s, l) : m < n}
  /\ UNCHANGED <<sessionVars, cancelled, runner, errored, forced, port, auto>>

(* without a candidate the nodes are refreshed first *)
RefreshActive == active' = active \cup RunningNodes(backends)
SelectRefresh(s, l) ==
  /\ l \in forced[s] /\ Candidates(s, l) = {}
  /\ WGoto(s, l, "select", "select")
  /\ RefreshActive
  /\ UNCHANGED <<session, created, nodeID, config, status, backends, cancelled, failed,
                 runner, errored, plan, forced, port, auto>>

(* an unreadable file, no candidate, all probes failed, or the context      *)
(* ended during a probe, which does not count against its node              *)
ResolveFails(s, l) ==
  /\ WGoto(s, l, "select", "unplanned")
  /\ \/ failed' = IF l \in forced[s] THEN failed \cup Candidates(s, l) ELSE failed
     \/ /\ s \in cancelled /\ l \in forced[s]
        /\ \E n \in Candidates(s, l) : failed' = failed \cup {m \in Candidates(s, l) : m < n}
  /\ UNCHANGED <<sessionVars, cancelled, runner, errored, plan, forced, port, auto>>

WorkerUnplanned(s, l) ==
  /\ WGoto(s, l, "unplanned", "backoff")
  /\ Update(s, l, "error", NoNode)
  /\ UNCHANGED <<cancelled, failed, runner, errored, plan, forced, port, auto>>

(* serveListenerBackend: OpenVPN and the TCP/IP stack start, the listener   *)
(* binds its address, unless another session still has it                   *)
StartOk(s, l) ==
  /\ WGoto(s, l, "planned", "checking")
  /\ port[l] = NoSession
  /\ port' = [port EXCEPT ![l] = s]
  /\ UNCHANGED <<sessionVars, cancelled, failed, runner, errored, plan, forced, auto>>
PortBusy(s, l) ==
  /\ WGoto(s, l, "planned", "unwindListen")
  /\ port[l] # NoSession
  /\ UNCHANGED <<sessionVars, cancelled, failed, runner, errored, plan, forced, port, auto>>

(* an error; isSocksListenFailure may recognise its text ("permission       *)
(* denied") as one of the listener                                          *)
StartFails(s, l) ==
  /\ WGoto(s, l, "planned", "unwindErr") \/ WGoto(s, l, "planned", "unwindListen")
  /\ UNCHANGED <<sessionVars, cancelled, failed, runner, errored, plan, forced, port, auto>>

(* the first checkProxy, which does not watch the context, and the later    *)
(* ones: a tick may be taken though the context is done                     *)
CheckOk(s, l) ==
  /\ WGoto(s, l, "checking", "serving") \/ WGoto(s, l, "serving", "serving")
  /\ Update(s, l, "running", plan[s][l])
  /\ UNCHANGED <<cancelled, failed, runner, errored, plan, forced, port, auto>>
CheckFails(s, l) ==
  /\ WGoto(s, l, "checking", "unwindErr") \/ WGoto(s, l, "serving", "unwindErr")
  /\ UNCHANGED <<sessionVars, cancelled, failed, runner, errored, plan, forced, port, auto>>

(* case <-ctx.Done() *)
ServeStopped(s, l) ==
  /\ s \in cancelled
  /\ WGoto(s, l, "serving", "unwindNil")
  /\ UNCHANGED <<sessionVars, cancelled, failed, runner, errored, plan, forced, port, auto>>

(* the deferred closes, then what runListenerWorker makes of the result     *)
UnwindKeepsPort(s, l) ==   \* mutant: server.Close is not deferred
  /\ port' = port
  /\ \/ WGoto(s, l, "unwindNil", "done")
     \/ s \in cancelled /\ (WGoto(s, l, "unwindErr", "done") \/ WGoto(s, l, "unwindListen", "done"))
     \/ s \notin cancelled /\ WGoto(s, l, "unwindErr", "failing")
  /\ UNCHANGED <<sessionVars, cancelled, failed, runner, errored, plan, forced, auto>>
UnwindQuiet(s, l) ==   \* mutant: a listen failure is answered with a nil result
  /\ port' = [port EXCEPT ![l] = IF @ = s THEN NoSession ELSE @]
  /\ \/ WGoto(s, l, "unwindNil", "done") \/ WGoto(s, l, "unwindListen", "done")
     \/ s \in cancelled /\ WGoto(s, l, "unwindErr", "done")
     \/ s \notin cancelled /\ WGoto(s, l, "unwindErr", "failing")
  /\ UNCHANGED <<sessionVars, cancelled, failed, runner, errored, plan, forced, auto>>
UnwindBlocks(s, l) ==   \* mutant: the error of a listener is sent though nobody receives
  /\ port' = [port EXCEPT ![l] = IF @ = s THEN NoSession ELSE @]
  /\ \/ /\ WGoto(s, l, "unwindNil", "done")
        /\ UNCHANGED errored
     \/ /\ s \in cancelled /\ WGoto(s, l, "unwindErr", "done")
        /\ UNCHANGED errored
     \/ /\ s \notin cancelled /\ WGoto(s, l, "unwindListen", "done")
        /\ errored' = errored \cup {s}
     \/ /\ s \notin cancelled /\ WGoto(s, l, "unwindErr", "failing")
        /\ UNCHANGED errored
  /\ UNCHANGED <<sessionVars, cancelled, failed, runner, plan, forced, auto>>
Unwind(s, l) ==
  /\ port' = [port EXCEPT ![l] = IF @ = s THEN NoSession ELSE @]
  /\ \/ /\ WGoto(s, l, "unwindNil", "done")
        /\ UNCHANGED errored
     \/ /\ s \in cancelled
        /\ WGoto(s, l, "unwindErr", "done") \/ WGoto(s, l, "unwindListen", "done")
        /\ UNCHANGED errored
     \/ /\ s \notin cancelled
        /\ WGoto(s, l, "unwindListen", "done")
        /\ errored' = errored \cup {s}
     \/ /\ s \notin cancelled
        /\ WGoto(s, l, "unwindErr", "failing")
        /\ UNCHANGED errored
  /\ UNCHANGED <<sessionVars, cancelled, failed, runner, plan, forced, auto>>

(* markNodeProbeFailed, the "switching" state, the refresh of the nodes *)
WorkerMarkFailed(s, l) ==
  /\ WGoto(s, l, "failing", "failed")
  /\ failed' = failed \cup ({plan[s][l]} \ {NoNode})
  /\ UNCHANGED <<sessionVars, cancelled, runner, errored, plan, forced, port, auto>>
WorkerSwitchingQuiet(s, l) ==   \* mutant: the state is not written on a failover
  /\ WGoto(s, l, "failed", "refreshing")
  /\ UNCHANGED <<sessionVars, cancelled, failed, runner, errored, plan, forced, port, auto>>
WorkerSwitching(s, l) ==
  /\ WGoto(s, l, "failed", "refreshing")
  /\ Update(s, l, "switching", plan[s][l])
  /\ UNCHANGED <<cancelled, failed, runner, errored, plan, forced, port, auto>>
WorkerRefresh(s, l) ==
  /\ WGoto(s, l, "refreshing", "backoff")
  /\ RefreshActive
  /\ forced' = [forced EXCEPT ![s] = @ \cup {l}]
  /\ plan' = [plan EXCEPT ![s][l] = NoNode]
  /\ UNCHANGED <<session, created, nodeID, config, status, backends, cancelled, failed,
                 runner, errored, port, auto>>

(* sleepWithContext: the timer fires, whether or not the context is done *)
BackoffOver(s, l) ==
  /\ WGoto(s, l, "backoff", "top")
  /\ UNCHANGED <<sessionVars, cancelled, failed, runner, errored, plan, forced, port, auto>>

(* A worker's step that needs no luck *)
WorkerStep(s, l) ==
  \/ WorkerExit(s, l) \/ WorkerTop(s, l)
  \/ ResolveStatic(s, l) \/ SelectRefresh(s, l) \/ ResolveNode(s, l) \/ ResolveFails(s, l)
  \/ WorkerUnplanned(s, l)
  \/ StartOk(s, l) \/ PortBusy(s, l) \/ StartFails(s, l)
  \/ CheckFails(s, l) \/ ServeStopped(s, l) \/ Unwind(s, l)
  \/ WorkerMarkFailed(s, l) \/ WorkerSwitching(s, l) \/ WorkerRefresh(s, l) \/ BackoffOver(s, l)
Worker(s, l) == WorkerStep(s, l) \/ CheckOk(s, l)

-----------------------------------------------------------------------------
AutoConnect(a) == AutoCheck(a) \/ AutoStart(a)

Next ==
  \/ Connect \/ Disconnect
  \/ \E a \in Autos : AutoConnect(a)
  \/ \E s \in Sessions : Runner(s)
  \/ \E s \in Sessions, l \in Listeners : Worker(s, l)

Spec == Init /\ [][Next]_vars

(* Goroutines keep running; a probe, a start or a check ends, one way or    *)
(* the other.  A serving worker may go on for as long as its checks succeed *)
(* (no fairness there), but a select whose ctx.Done() stays ready takes it. *)
(* With auto_connect on, every tick of maintenanceLoop and every session    *)
(* that ends in an error tries to connect.                                  *)
WorkerMustStep(s, l) ==
  IF worker[s][l] = "serving" THEN ServeStopped(s, l) ELSE Worker(s, l)
RunnerGoesOn(s) == WF_vars(Runner(s))
WorkerGoesOn(s, l) == WF_vars(WorkerMustStep(s, l))
AutoGoesOn(a) == WF_vars(AutoConnect(a))
RunnersGoOn == \A s \in Sessions : RunnerGoesOn(s)
WorkersGoOn == \A s \in Sessions, l \in Listeners : WorkerGoesOn(s, l)
AutosGoOn == \A a \in Autos : AutoGoesOn(a)
Fairness == RunnersGoOn /\ WorkersGoOn /\ AutosGoOn
FairSpec == Spec /\ Fairness

-----------------------------------------------------------------------------
(* Every variable has its type. *)
TypeOK ==
  /\ session \in Sessions \cup {NoSession} /\ created \in 0 .. MaxSessions
  /\ nodeID \in [Sessions -> Nodes \cup {NoNode}]
  /\ config \in [Sessions -> ConfigType]
  /\ cancelled \subseteq Sessions /\ errored \subseteq Sessions
  /\ status \in BackendStatuses
  /\ backends \in [Listeners -> [status : BackendStatuses, node : Nodes \cup {NoNode}]]
  /\ active \subseteq Nodes /\ failed \subseteq Nodes
  /\ runner \in [Sessions -> RunnerStates]
  /\ worker \in [Sessions -> [Listeners -> WorkerStates]]
  /\ plan \in [Sessions -> [Listeners -> Nodes \cup {NoNode}]]
  /\ forced \in [Sessions -> SUBSET Listeners]
  /\ port \in [Listeners -> Sessions \cup {NoSession}]
  /\ auto \in [Autos -> {"idle", "checked"}]

(* A node is shown active exactly while a backend of the session in place   *)
(* runs on it: no switch, late update of an old session or end of a session *)
(* leaves a flag behind or takes one away.                                  *)
ActiveExact ==
  active = IF session = NoSession THEN {} ELSE RunningNodes(backends)

(* Whatever is still uncancelled is the session in place, so no backend     *)
(* runs that disconnect cannot reach: the two checks of an auto-connect     *)
(* attempt, a connect in between and the end of a session never leave a     *)
(* second one behind.                                                       *)
NoOrphanSession ==
  \A s \in Sessions : runner[s] \in {"starting", "consuming"} /\ s \notin cancelled => session = s

(* A backend shown running has a worker that serves on its address or has   *)
(* just seen the error and is about to say so.                              *)
RunningIsServed ==
  session # NoSession /\ session \notin cancelled =>
    \A l \in With(backends, "running") :
      \/ worker[session][l] \in {"serving", "unwindErr"} /\ port[l] = session
      \/ worker[session][l] \in {"failing", "failed"}

(* A listener is never abandoned in silence: while its session is up, a     *)
(* worker is gone only if the error that ends the session is on its way.    *)
NoListenerAbandoned ==
  \A s \in Sessions \ cancelled, l \in Listeners : worker[s][l] = "done" => s \in errored

(* A session that was replaced or disconnected no longer touches what the   *)
(* state API shows, whichever of its goroutines is late; and its end blames *)
(* no node, even when it was about to end in an error.                      *)
StaleSessionIsMute ==
  [][\A s \in Sessions \ {session} :
       /\ worker'[s] # worker[s] => UNCHANGED <<session, status, backends, active>>
       /\ s <= created /\ runner'[s] # runner[s] =>
            UNCHANGED <<session, status, backends, active, failed>>]_vars

(* Once cancelled, a session's workers all stop and give up their ports, in *)
(* whatever phase of registration, selection, start or failover they were.  *)
CancelledDrains ==
  \A s \in Sessions : s \in cancelled ~>
    \A l \in config[s].enabled : worker[s][l] = "done" /\ port[l] # s

(* The gateway does not stay down: where no session is in place, or the one *)
(* in place has failed and is about to end, one that is not cancelled will  *)
(* be, however the two checks of the attempts to connect fall between the   *)
(* end of the old session, clients' calls and each other.                   *)
AutoReconnects ==
  \A s \in Sessions :
    session \in ({s} \cap cancelled) \cup {NoSession} ~>
      session \notin cancelled \cup {NoSession} \/ created = MaxSessions

(* No goroutine waits for something that does not come: runSession has a    *)
(* step to take until it waits for results, and then once there is an error *)
(* or the context is done; a worker has one until it serves, and then once  *)
(* the context is done; an attempt to connect has one while there is no     *)
(* session.  (What the fairness above needs to mean anything.)              *)
RunnerMustGo(s) ==
  \/ runner[s] \in {"starting", "erring"}
  \/ runner[s] = "consuming" /\ s \in cancelled \cup errored
WorkerMustGo(s, l) ==
  /\ worker[s][l] \notin {"off", "done"}
  /\ worker[s][l] = "serving" => s \in cancelled
AutoMustGo(a) ==
  session = NoSession /\ created < MaxSessions /\ \E c \in Configs : Connectable(c)
NothingStuck ==
  /\ \A s \in Sessions : RunnerMustGo(s) => ENABLED <<Runner(s)>>_vars
  /\ \A s \in Sessions, l \in Listeners :
       WorkerMustGo(s, l) => ENABLED <<WorkerMustStep(s, l)>>_vars
  /\ \A a \in Autos : AutoMustGo(a) => ENABLED <<AutoConnect(a)>>_vars

(* What the state API shows of a session is SessionView's.                  *)
View == INSTANCE SessionView WITH current <- session, made <- created, shown <- backends
ImplementsView == View!Spec
=============================================================================
