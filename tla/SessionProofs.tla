--------------------------- MODULE SessionProofs ---------------------------
(***************************************************************************)
(* Theorems about Session, for every number of listeners, nodes, sessions  *)
(* and concurrent attempts to connect, and every set of configurations.    *)
(***************************************************************************)
EXTENDS Session, TLAPS

USE DEF Sessions, NoSession, NoNode, sessionVars, workerVars

LEMMA Constants ==
  /\ MaxSessions \in Nat /\ Configs \subseteq ConfigType
  /\ NoSession \notin Sessions /\ NoNode \notin Nodes
BY SessionAssumption DEF SessionAssumption

BackendType == [status : BackendStatuses, node : Nodes \cup {NoNode}]

-----------------------------------------------------------------------------
(* The invariant *)

(* A session that is not made yet has done nothing.                         *)
Numbered ==
  /\ session <= created
  /\ \A s \in Sessions : s > created =>
       runner[s] = "none" /\ \A l \in Listeners : worker[s][l] = "off"

(* What a listener may be shown as, by the state of its worker.             *)
Fits(w) ==
  CASE w = "off" -> {"none"}
    [] w = "top" -> {"starting", "switching", "error"}
    [] w \in {"select", "unplanned", "planned", "checking", "unwindListen", "refreshing"}
         -> {"switching"}
    [] w \in {"serving", "unwindNil"} -> {"running"}
    [] w \in {"unwindErr", "failing", "failed"} -> {"switching", "running"}
    [] w = "backoff" -> {"switching", "error"}
    [] w = "done" -> BackendStatuses \ {"none"}
ShownFits ==
  IF session = NoSession THEN \A l \in Listeners : backends[l].status = "none"
  ELSE \A l \in Listeners :
         /\ backends[l].status \in Fits(worker[session][l])
         /\ worker[session][l] = "serving" => backends[l].node = plan[session][l]

PortHeld ==
  \A s \in Sessions, l \in Listeners : worker[s][l] \in {"checking", "serving"} => port[l] = s
NilIsCancelled ==
  \A s \in Sessions, l \in Listeners : worker[s][l] = "unwindNil" => s \in cancelled

Inv ==
  /\ TypeOK /\ Numbered /\ ShownFits /\ PortHeld /\ NilIsCancelled
  /\ ActiveExact /\ NoOrphanSession /\ RunningIsServed /\ NoListenerAbandoned

LEMMA InitInv == Init => Inv
<1> SUFFICES ASSUME Init PROVE Inv
  OBVIOUS
<1>1. TypeOK
  <2>1. NoConfig \in ConfigType
    BY DEF NoConfig, ConfigType, NoPolicy, PolicyType, Countries
  <2>2. NoBackend \in BackendType
    BY DEF NoBackend, BackendType, BackendStatuses
  <2> QED
    BY <2>1, <2>2, Constants DEF Init, TypeOK, BackendType, BackendStatuses, RunnerStates, WorkerStates
<1>2. Numbered /\ PortHeld /\ NilIsCancelled /\ NoOrphanSession /\ NoListenerAbandoned
  BY DEF Init, Numbered, PortHeld, NilIsCancelled, NoOrphanSession, NoListenerAbandoned
<1>3. ShownFits /\ ActiveExact /\ RunningIsServed
  BY DEF Init, ShownFits, ActiveExact, RunningIsServed, NoBackend
<1> QED
  BY <1>1, <1>2, <1>3 DEF Inv

-----------------------------------------------------------------------------
(* What the helpers do *)

LEMMA RunningTyped == TypeOK => RunningNodes(backends) \subseteq Nodes
BY DEF TypeOK, RunningNodes, With

LEMMA NothingRuns ==
  ASSUME \A l \in Listeners : backends[l].status = "none" PROVE RunningNodes(backends) = {}
BY DEF RunningNodes, With

LEMMA UpdateShows ==
  ASSUME TypeOK, NEW s \in Sessions, NEW l \in Listeners, NEW st \in BackendStatuses,
         NEW n \in Nodes \cup {NoNode}, Update(s, l, st, n)
  PROVE  /\ UNCHANGED <<session, created, nodeID, config>>
         /\ session # s => UNCHANGED sessionVars
         /\ session = s =>
              /\ backends' = [backends EXCEPT ![l] = [status |-> st, node |-> n]]
              /\ backends'[l].status = st /\ backends'[l].node = n
              /\ active' = RunningNodes(backends')
         /\ \A k \in Listeners : k # l => backends'[k] = backends[k]
         /\ backends' \in [Listeners -> BackendType]
         /\ status' \in BackendStatuses /\ active' \subseteq Nodes
<1>1. CASE session # s
  BY <1>1 DEF Update, IsCurrent, TypeOK, BackendType
<1>2. CASE session = s
  <2> DEFINE b == [backends EXCEPT ![l] = [status |-> st, node |-> n]]
  <2>1. backends' = b /\ active' = RunningNodes(b) /\ status' = Aggregate(b)
    BY <1>2 DEF Update, IsCurrent
  <2>2. b \in [Listeners -> BackendType] /\ b[l] = [status |-> st, node |-> n]
    BY DEF TypeOK, BackendType
  <2>3. RunningNodes(b) \subseteq Nodes
    BY <2>2 DEF RunningNodes, With, BackendType
  <2>4. Aggregate(b) \in BackendStatuses
    BY DEF Aggregate, BackendStatuses
  <2>5. \A k \in Listeners : k # l => b[k] = backends[k]
    BY DEF TypeOK
  <2>6. UNCHANGED <<session, created, nodeID, config>>
    BY <1>2 DEF Update, IsCurrent
  <2> QED
    BY <1>2, <2>1, <2>2, <2>3, <2>4, <2>5, <2>6
<1> QED
  BY <1>1, <1>2

LEMMA CandidatesTyped ==
  ASSUME TypeOK, NEW s \in Sessions, NEW l \in Listeners PROVE Candidates(s, l) \subseteq Nodes
<1>1. config[s] \in ConfigType /\ config[s].policy[l] \in PolicyType
  BY DEF TypeOK, ConfigType
<1>2. config[s].fixed \in Nodes \cup {NoNode} /\ config[s].policy[l].fixed \in Nodes \cup {NoNode}
  BY <1>1 DEF ConfigType, PolicyType
<1> QED
  BY <1>2 DEF Candidates, Allowed, FixedNode

-----------------------------------------------------------------------------
(* A worker's step, as the rest of the system sees it: its listener is      *)
(* moved on, and shown, if it is the current session's, as fits.            *)
Moved(s, l, to) ==
  /\ worker' = [worker EXCEPT ![s][l] = to] /\ to \in WorkerStates \ {"off"}
  /\ worker[s][l] # "off" \/ runner[s] = "starting"
  /\ session = s => /\ backends'[l].status \in Fits(to)
                    /\ to = "serving" => backends'[l].node = plan'[s][l]
  /\ to \in {"checking", "serving"} => port'[l] = s
  /\ to = "unwindNil" => s \in cancelled
  /\ to = "done" /\ s \notin cancelled => s \in errored'
  /\ session = s /\ s \notin cancelled /\ backends'[l].status = "running" =>
       \/ to \in {"serving", "unwindErr"} /\ port'[l] = s
       \/ to \in {"failing", "failed"}
Frame(s, l) ==
  /\ UNCHANGED <<session, created, nodeID, config, cancelled, auto>>
  /\ session # s => UNCHANGED <<status, backends, active>>
  /\ session = s => active' = RunningNodes(backends')
  /\ \A k \in Listeners : k # l => backends'[k] = backends[k] /\ port'[k] = port[k]
  /\ \A t \in Sessions, k \in Listeners : k # l \/ t # s => plan'[t][k] = plan[t][k]
  /\ \A t \in Sessions : t # s /\ port[l] = t => port'[l] = t
  /\ errored \subseteq errored'
  /\ \A t \in Sessions : t # s => runner'[t] = runner[t]
  /\ runner[s] = runner'[s] \/ (runner[s] = "starting" /\ runner'[s] = "consuming")

LEMMA MovedInv ==
  ASSUME Inv, NEW s \in Sessions, NEW l \in Listeners, NEW to,
         Moved(s, l, to), Frame(s, l), TypeOK'
  PROVE  Inv'
<1> USE DEF Inv
<1>1. to \in WorkerStates /\ session \in Sessions \cup {NoSession} /\ created \in Nat
  BY Constants DEF Moved, TypeOK
<1>2. /\ worker'[s][l] = to
      /\ \A t \in Sessions, k \in Listeners : t # s \/ k # l => worker'[t][k] = worker[t][k]
  <2>1. worker' = [worker EXCEPT ![s][l] = to]
    BY DEF Moved
  <2>2. worker \in [Sessions -> [Listeners -> WorkerStates]]
    BY DEF TypeOK
  <2> HIDE DEF Sessions, Inv
  <2> QED
    BY ONLY <2>1, <2>2
<1>3. Numbered'
  <2>1. ~(s > created)
    BY DEF Numbered, Moved
  <2> QED
    BY <1>2, <2>1 DEF Numbered, Frame
<1>4. ShownFits'
  <2>1. CASE session = NoSession
    BY <2>1, Constants DEF ShownFits, Frame
  <2>2. CASE session = s
    BY <1>2, <2>2, Constants DEF ShownFits, Frame, Moved
  <2>3. CASE session \notin {s, NoSession}
    BY <1>1, <1>2, <2>3 DEF ShownFits, Frame
  <2> QED
    BY <2>1, <2>2, <2>3
<1>5. PortHeld' /\ NilIsCancelled'
  <2>1. ASSUME NEW t \in Sessions, NEW k \in Listeners, worker'[t][k] \in {"checking", "serving"}
        PROVE  port'[k] = t
    <3>1. CASE t = s /\ k = l
      BY <1>2, <2>1, <3>1 DEF Moved
    <3>2. CASE ~(t = s /\ k = l)
      BY <1>2, <2>1, <3>2 DEF PortHeld, Frame
    <3> QED
      BY <3>1, <3>2
  <2>2. NilIsCancelled'
    BY <1>2 DEF NilIsCancelled, Frame, Moved
  <2> QED
    BY <2>1, <2>2 DEF PortHeld
<1>6. ActiveExact'
  BY <1>1, Constants DEF ActiveExact, Frame
<1>7. NoOrphanSession'
  BY DEF NoOrphanSession, Frame
<1>8. RunningIsServed'
  <2> SUFFICES ASSUME session # NoSession, session \notin cancelled,
                      NEW k \in Listeners, backends'[k].status = "running"
               PROVE  \/ worker'[session][k] \in {"serving", "unwindErr"} /\ port'[k] = session
                      \/ worker'[session][k] \in {"failing", "failed"}
    BY DEF RunningIsServed, Frame, With
  <2>1. CASE session = s /\ k = l
    BY <1>2, <2>1 DEF Moved
  <2>2. CASE ~(session = s /\ k = l)
    <3>1. backends'[k] = backends[k] /\ worker'[session][k] = worker[session][k]
      BY <1>1, <1>2, <2>2 DEF Frame
    <3>2. port[k] = session => port'[k] = session
      BY <1>1, <2>2 DEF Frame
    <3> QED
      BY <3>1, <3>2 DEF RunningIsServed, With
  <2> QED
    BY <2>1, <2>2
<1>9. NoListenerAbandoned'
  BY <1>2 DEF NoListenerAbandoned, Frame, Moved
<1> QED
  BY <1>3, <1>4, <1>5, <1>6, <1>7, <1>8, <1>9

(* The steps that show nothing.                                             *)
LEMMA QuietStep ==
  ASSUME Inv, NEW s \in Sessions, NEW l \in Listeners,
         \/ WorkerExit(s, l) \/ ResolveStatic(s, l) \/ ResolveNode(s, l) \/ ResolveFails(s, l)
         \/ StartOk(s, l) \/ PortBusy(s, l) \/ StartFails(s, l) \/ CheckFails(s, l)
         \/ ServeStopped(s, l) \/ Unwind(s, l) \/ WorkerMarkFailed(s, l) \/ BackoffOver(s, l)
  PROVE  \E to : Moved(s, l, to) /\ Frame(s, l) /\ TypeOK'
<1> USE DEF Inv, WGoto
<1>1. UNCHANGED <<sessionVars, cancelled, runner, auto>>
  BY DEF WorkerExit, ResolveStatic, ResolveNode, ResolveFails, StartOk, PortBusy, StartFails,
         CheckFails, ServeStopped, Unwind, WorkerMarkFailed, BackoffOver
<1>2. session = s => active' = RunningNodes(backends')
  BY <1>1, Constants DEF ActiveExact
<1>3. session = s => backends[l].status \in Fits(worker[s][l])
                     /\ (worker[s][l] = "serving" => backends[l].node = plan[s][l])
  BY Constants DEF ShownFits
<1>4. session = s /\ s \notin cancelled /\ backends[l].status = "running" =>
        \/ worker[s][l] \in {"serving", "unwindErr"} /\ port[l] = s
        \/ worker[s][l] \in {"failing", "failed"}
  BY Constants DEF RunningIsServed, With
<1>5. PICK to \in WorkerStates \ {"off"} :
        /\ worker' = [worker EXCEPT ![s][l] = to] /\ worker[s][l] # "off"
        /\ session = s => backends[l].status \in Fits(to) /\ to # "serving"
        /\ to \in {"checking", "serving"} => port'[l] = s
        /\ to = "unwindNil" => s \in cancelled
        /\ to = "done" /\ s \notin cancelled => s \in errored'
        /\ session = s /\ s \notin cancelled /\ backends[l].status = "running" =>
             \/ to \in {"serving", "unwindErr"} /\ port'[l] = s
             \/ to \in {"failing", "failed"}
  <2> USE DEF WorkerStates, Fits, BackendStatuses
  <2>1. CASE WorkerExit(s, l)
    BY <1>3, <2>1 DEF WorkerExit
  <2>2. CASE ResolveStatic(s, l) \/ ResolveNode(s, l) \/ ResolveFails(s, l)
    BY <1>3, <2>2 DEF ResolveStatic, ResolveNode, ResolveFails
  <2>3. CASE StartOk(s, l)
    <3>1. port'[l] = s
      BY <2>3 DEF StartOk, TypeOK
    <3>2. worker' = [worker EXCEPT ![s][l] = "checking"] /\ worker[s][l] = "planned"
      BY <2>3 DEF StartOk
    <3>3. session = s => backends[l].status = "switching"
      BY <1>3, <3>2
    <3>4. "checking" \in WorkerStates \ {"off"} /\ "switching" \in Fits("checking")
      OBVIOUS
    <3> QED
      BY <3>1, <3>2, <3>3, <3>4 DEF Fits
  <2>4. CASE PortBusy(s, l) \/ StartFails(s, l)
    BY <1>3, <2>4 DEF PortBusy, StartFails
  <2>5. CASE CheckFails(s, l)
    BY <1>3, <1>4, <2>5 DEF CheckFails
  <2>6. CASE ServeStopped(s, l)
    BY <1>3, <2>6 DEF ServeStopped
  <2>7. CASE Unwind(s, l)
    BY <1>3, <1>4, <2>7 DEF Unwind, NilIsCancelled
  <2>8. CASE WorkerMarkFailed(s, l) \/ BackoffOver(s, l)
    BY <1>3, <1>4, <2>8 DEF WorkerMarkFailed, BackoffOver
  <2> QED
    BY <2>1, <2>2, <2>3, <2>4, <2>5, <2>6, <2>7, <2>8
<1>6. Moved(s, l, to)
  BY <1>1, <1>5 DEF Moved
<1>7. \E n \in Nodes \cup {NoNode} : plan' = plan \/ plan' = [plan EXCEPT ![s][l] = n]
  <2>1. CASE ResolveStatic(s, l)
    BY <2>1 DEF TypeOK, ResolveStatic
  <2>2. CASE ResolveNode(s, l)
    BY <2>2, CandidatesTyped DEF ResolveNode
  <2>3. CASE plan' = plan
    BY <2>3
  <2> QED
    BY <2>1, <2>2, <2>3 DEF WorkerExit, ResolveFails, StartOk, PortBusy, StartFails, CheckFails,
       ServeStopped, Unwind, WorkerMarkFailed, BackoffOver
<1>8. port' = port \/ (port' = [port EXCEPT ![l] = s] /\ port[l] = NoSession)
        \/ port' = [port EXCEPT ![l] = IF @ = s THEN NoSession ELSE @]
  BY DEF WorkerExit, ResolveStatic, ResolveNode, ResolveFails, StartOk, PortBusy, StartFails,
     CheckFails, ServeStopped, Unwind, WorkerMarkFailed, BackoffOver
<1>9. errored' \in {errored, errored \cup {s}} /\ forced' = forced
  BY DEF WorkerExit, ResolveStatic, ResolveNode, ResolveFails, StartOk, PortBusy, StartFails,
     CheckFails, ServeStopped, Unwind, WorkerMarkFailed, BackoffOver
<1>10. failed' \subseteq Nodes
  <2>1. CASE ResolveNode(s, l)
    BY <2>1, CandidatesTyped DEF TypeOK, ResolveNode
  <2>2. CASE ResolveFails(s, l)
    BY <2>2, CandidatesTyped DEF TypeOK, ResolveFails
  <2>3. CASE WorkerMarkFailed(s, l)
    BY <2>3 DEF TypeOK, WorkerMarkFailed
  <2>4. CASE failed' = failed
    BY <2>4 DEF TypeOK
  <2> QED
    BY <2>1, <2>2, <2>3, <2>4 DEF WorkerExit, ResolveStatic, StartOk, PortBusy, StartFails,
       CheckFails, ServeStopped, Unwind, BackoffOver
<1>11. Frame(s, l)
  <2>1. \A k \in Listeners : k # l => port'[k] = port[k]
    BY <1>8 DEF TypeOK
  <2>2. \A t \in Sessions : t # s /\ port[l] = t => port'[l] = t
    BY <1>8, Constants DEF TypeOK
  <2>3. \A t \in Sessions, k \in Listeners : k # l \/ t # s => plan'[t][k] = plan[t][k]
    <3>1. CASE plan' = plan
      BY <3>1
    <3>2. ASSUME NEW n, plan' = [plan EXCEPT ![s][l] = n]
          PROVE  \A t \in Sessions, k \in Listeners : k # l \/ t # s => plan'[t][k] = plan[t][k]
      BY <3>2 DEF TypeOK
    <3> QED
      BY <1>7, <3>1, <3>2
  <2> QED
    BY <1>1, <1>2, <1>9, <2>1, <2>2, <2>3 DEF Frame
<1>12. TypeOK'
  <2>1. worker' \in [Sessions -> [Listeners -> WorkerStates]]
    BY <1>5 DEF TypeOK
  <2>2. plan' \in [Sessions -> [Listeners -> Nodes \cup {NoNode}]]
    BY <1>7 DEF TypeOK
  <2>3. port' \in [Listeners -> Sessions \cup {NoSession}]
    BY <1>8 DEF TypeOK
  <2> QED
    BY <1>1, <1>9, <1>10, <2>1, <2>2, <2>3 DEF TypeOK
<1> QED
  BY <1>6, <1>11, <1>12

(* The steps that show the listener in another state.                       *)
LEMMA ShowingStep ==
  ASSUME Inv, NEW s \in Sessions, NEW l \in Listeners,
         \/ WorkerTop(s, l) \/ WorkerUnplanned(s, l) \/ CheckOk(s, l) \/ WorkerSwitching(s, l)
         \/ RegisterListener(s, l)
  PROVE  \E to : Moved(s, l, to) /\ Frame(s, l) /\ TypeOK'
<1> USE DEF Inv, WGoto
<1>1. UNCHANGED <<cancelled, failed, errored, plan, forced, port, auto>>
  BY DEF WorkerTop, WorkerUnplanned, CheckOk, WorkerSwitching, RegisterListener
<1>2. plan[s][l] \in Nodes \cup {NoNode}
  BY DEF TypeOK
<1> DEFINE Shows(to, st, n) ==
      /\ to \in WorkerStates \ {"off"} /\ st \in BackendStatuses /\ n \in Nodes \cup {NoNode}
      /\ worker' = [worker EXCEPT ![s][l] = to] /\ Update(s, l, st, n)
      /\ worker[s][l] # "off" \/ runner[s] = "starting"
      /\ st \in Fits(to) /\ to \notin {"unwindNil", "done", "checking"}
      /\ to = "serving" => n = plan[s][l] /\ worker[s][l] \in {"checking", "serving"}
      /\ st = "running" => to = "serving"
<1>3. PICK to, st, n : Shows(to, st, n)
  <2>1. CASE WorkerTop(s, l)
    <3>1. Shows("select", "switching", NoNode)
      BY <2>1 DEF WorkerTop, WorkerStates, Fits, BackendStatuses
    <3> QED
      BY <3>1
  <2>2. CASE WorkerUnplanned(s, l)
    <3>1. Shows("backoff", "error", NoNode)
      BY <2>2 DEF WorkerUnplanned, WorkerStates, Fits, BackendStatuses
    <3> QED
      BY <3>1
  <2>3. CASE CheckOk(s, l)
    <3>1. Shows("serving", "running", plan[s][l])
      BY <1>2, <2>3 DEF CheckOk, WorkerStates, Fits, BackendStatuses
    <3> QED
      BY <3>1
  <2>4. CASE WorkerSwitching(s, l)
    <3>1. Shows("refreshing", "switching", plan[s][l])
      BY <1>2, <2>4 DEF WorkerSwitching, WorkerStates, Fits, BackendStatuses
    <3> QED
      BY <3>1
  <2>5. CASE RegisterListener(s, l)
    <3>1. Shows("top", "starting", NoNode)
      BY <2>5 DEF RegisterListener, WorkerStates, Fits, BackendStatuses
    <3> QED
      BY <3>1
  <2> QED
    BY <2>1, <2>2, <2>3, <2>4, <2>5
<1>4. /\ UNCHANGED <<session, created, nodeID, config>>
      /\ session # s => UNCHANGED sessionVars
      /\ session = s => /\ backends'[l].status = st /\ backends'[l].node = n
                        /\ active' = RunningNodes(backends')
      /\ \A k \in Listeners : k # l => backends'[k] = backends[k]
      /\ backends' \in [Listeners -> BackendType]
      /\ status' \in BackendStatuses /\ active' \subseteq Nodes
  BY <1>3, UpdateShows
<1>5. to = "serving" => port[l] = s
  BY <1>3 DEF PortHeld
<1>6. Moved(s, l, to)
  BY <1>1, <1>3, <1>4, <1>5 DEF Moved
<1>7. /\ \A t \in Sessions : t # s => runner'[t] = runner[t]
      /\ runner[s] = runner'[s] \/ (runner[s] = "starting" /\ runner'[s] = "consuming")
      /\ runner' \in [Sessions -> RunnerStates]
  BY DEF TypeOK, RunnerStates, WorkerTop, WorkerUnplanned, CheckOk, WorkerSwitching, RegisterListener
<1>8. Frame(s, l)
  BY <1>1, <1>4, <1>7 DEF Frame
<1>9. TypeOK'
  <2>1. worker' \in [Sessions -> [Listeners -> WorkerStates]]
    BY <1>3 DEF TypeOK
  <2> QED
    BY <1>1, <1>4, <1>7, <2>1 DEF TypeOK, BackendType
<1> QED
  BY <1>6, <1>8, <1>9

(* A refresh of the nodes adds no flag that is not there.                   *)
LEMMA RefreshStep ==
  ASSUME Inv, NEW s \in Sessions, NEW l \in Listeners, SelectRefresh(s, l) \/ WorkerRefresh(s, l)
  PROVE  \E to : Moved(s, l, to) /\ Frame(s, l) /\ TypeOK'
<1> USE DEF Inv, WGoto, SelectRefresh, WorkerRefresh
<1>1. active' = active
  <2>1. CASE session = NoSession
    BY <2>1, NothingRuns DEF ActiveExact, ShownFits, RefreshActive
  <2>2. CASE session # NoSession
    BY <2>2 DEF ActiveExact, RefreshActive
  <2> QED
    BY <2>1, <2>2
<1>2. session = s => backends[l].status = "switching"
  BY Constants DEF ShownFits, Fits
<1>3. CASE SelectRefresh(s, l)
  <2>1. Moved(s, l, "select")
    BY <1>2, <1>3 DEF Moved, Fits, WorkerStates
  <2>2. Frame(s, l)
    BY <1>1, <1>3, Constants DEF Frame, ActiveExact
  <2>3. TypeOK'
    BY <1>1, <1>3 DEF TypeOK, WorkerStates
  <2> QED
    BY <2>1, <2>2, <2>3
<1>4. CASE WorkerRefresh(s, l)
  <2>1. Moved(s, l, "backoff")
    BY <1>2, <1>4 DEF Moved, Fits, WorkerStates
  <2>2. \A t \in Sessions, k \in Listeners : k # l \/ t # s => plan'[t][k] = plan[t][k]
    BY <1>4 DEF TypeOK
  <2>3. Frame(s, l)
    BY <1>1, <1>4, <2>2, Constants DEF Frame, ActiveExact
  <2>4. TypeOK'
    BY <1>1, <1>4 DEF TypeOK, WorkerStates
  <2> QED
    BY <2>1, <2>3, <2>4
<1> QED
  BY <1>3, <1>4

-----------------------------------------------------------------------------
(* Sessions are made and ended *)

(* A new session finds the one before it cancelled, or none in place.       *)
LEMMA NewSessionInv ==
  ASSUME Inv, NEW n \in Nodes \cup {NoNode}, NEW c \in ConfigType, NewSession(n, c),
         cancelled' = cancelled \cup ({session} \ {NoSession}), active' = {},
         UNCHANGED <<errored, worker, plan, port>>, TypeOK'
  PROVE  Inv'
<1> USE DEF Inv, NewSession
<1>1. created' = created + 1 /\ session' = created' /\ created' \in Sessions /\ created \in Nat
  BY Constants DEF TypeOK
<1>2. session' # NoSession /\ \A l \in Listeners : backends'[l].status = "none"
  BY <1>1, Constants DEF NoBackend
<1>3. runner' \in [Sessions -> RunnerStates]
      /\ \A s \in Sessions : s # created' => runner'[s] = runner[s]
  BY <1>1 DEF TypeOK
<1>4. Numbered'
  BY <1>1, <1>3 DEF Numbered, TypeOK
<1>5. ShownFits'
  <2>1. \A l \in Listeners : worker[created'][l] = "off"
    BY <1>1 DEF Numbered
  <2> QED
    BY <1>1, <1>2, <2>1 DEF ShownFits, Fits
<1>6. PortHeld' /\ NilIsCancelled'
  BY DEF PortHeld, NilIsCancelled
<1>7. ActiveExact'
  <2>1. RunningNodes(backends') = {}
    BY <1>2 DEF RunningNodes, With
  <2> QED
    BY <2>1 DEF ActiveExact
<1>8. NoOrphanSession'
  BY <1>1, <1>3 DEF NoOrphanSession, TypeOK
<1>9. RunningIsServed'
  BY <1>2 DEF RunningIsServed, With
<1>10. NoListenerAbandoned'
  BY DEF NoListenerAbandoned
<1> QED
  BY <1>4, <1>5, <1>6, <1>7, <1>8, <1>9, <1>10

LEMMA NewSessionTyped ==
  ASSUME Inv, NEW n \in Nodes \cup {NoNode}, NEW c \in ConfigType, NewSession(n, c),
         cancelled' = cancelled \cup ({session} \ {NoSession}), active' = {},
         failed' \subseteq failed, auto' \in [Autos -> {"idle", "checked"}],
         UNCHANGED <<errored, worker, plan, port>>
  PROVE  TypeOK'
<1> USE DEF Inv, NewSession, TypeOK
<1>1. created' \in 0 .. MaxSessions /\ session' \in Sessions
  BY Constants
<1>2. nodeID' \in [Sessions -> Nodes \cup {NoNode}] /\ config' \in [Sessions -> ConfigType]
  BY <1>1
<1>3. forced' \in [Sessions -> SUBSET Listeners]
  BY <1>1 DEF Bound
<1>4. backends' \in [Listeners -> BackendType] /\ status' \in BackendStatuses
  BY DEF NoBackend, BackendType, BackendStatuses
<1>5. runner' \in [Sessions -> RunnerStates]
  BY <1>1 DEF RunnerStates
<1>6. cancelled' \subseteq Sessions /\ active' \subseteq Nodes /\ failed' \subseteq Nodes
  OBVIOUS
<1> QED
  BY <1>1, <1>2, <1>3, <1>4, <1>5, <1>6 DEF BackendType

LEMMA ConnectInv == ASSUME Inv, Connect PROVE Inv'
<1> USE DEF Inv, Connect
<1>1. active' = {}
  BY DEF ActiveExact
<1>2. auto' \in [Autos -> {"idle", "checked"}]
  BY DEF TypeOK
<1>3. PICK n \in Nodes \cup {NoNode}, c \in ConfigType : NewSession(n, c) /\ failed' \subseteq failed
  <2>1. CASE ConnectPlain
    BY <2>1, Constants DEF ConnectPlain
  <2>2. CASE ConnectNode
    <3>1. PICK c \in Configs, n \in Nodes : NewSession(n, [c EXCEPT !.static = TRUE])
      BY <2>2 DEF ConnectNode
    <3>2. [c EXCEPT !.static = TRUE] \in ConfigType
      BY Constants DEF ConfigType
    <3> QED
      BY <2>2, <3>1, <3>2 DEF ConnectNode
  <2>3. CASE ConnectBind
    <3>1. PICK c \in Configs, n \in Nodes : \E l \in c.enabled :
            NewSession(n, [c EXCEPT !.policy[l].fixed = n]) /\ failed' = failed \ {n}
      BY <2>3 DEF ConnectBind
    <3>2. PICK l \in c.enabled :
            NewSession(n, [c EXCEPT !.policy[l].fixed = n]) /\ failed' = failed \ {n}
      BY <3>1
    <3>3. c \in ConfigType /\ l \in Listeners /\ c.policy[l] \in PolicyType
      BY Constants DEF ConfigType
    <3>4. [c.policy[l] EXCEPT !.fixed = n] \in PolicyType
      BY <3>3 DEF PolicyType
    <3>5. [c EXCEPT !.policy[l].fixed = n] \in ConfigType
      BY <3>3, <3>4 DEF ConfigType
    <3> QED
      BY <3>2, <3>5
  <2> QED
    BY <2>1, <2>2, <2>3
<1>4. TypeOK'
  BY <1>1, <1>2, <1>3, NewSessionTyped
<1> QED
  BY <1>1, <1>3, <1>4, NewSessionInv

LEMMA AutoInv == ASSUME Inv, NEW a \in Autos, AutoConnect(a) PROVE Inv'
<1> USE DEF Inv
<1>1. auto' \in [Autos -> {"idle", "checked"}]
  BY DEF TypeOK, AutoConnect, AutoCheck, AutoStart
<1>2. CASE UNCHANGED <<sessionVars, cancelled, failed, runner, errored, workerVars>>
  <2>1. TypeOK'
    BY <1>1, <1>2 DEF TypeOK
  <2> QED
    BY <1>2, <2>1 DEF Numbered, ShownFits, PortHeld, NilIsCancelled, ActiveExact,
       NoOrphanSession, RunningIsServed, NoListenerAbandoned, RunningNodes, With
<1>3. CASE AutoStart(a) /\ session = NoSession
  <2>1. PICK c \in Configs : NewSession(NoNode, c)
    BY <1>3 DEF AutoStart
  <2>2. active' = {} /\ cancelled' = cancelled \cup ({session} \ {NoSession}) /\ failed' = failed
        /\ UNCHANGED <<errored, worker, plan, port>>
    BY <1>3 DEF AutoStart
  <2>3. c \in ConfigType
    BY Constants
  <2>4. TypeOK'
    BY <1>1, <2>1, <2>2, <2>3, NewSessionTyped
  <2> QED
    BY <2>1, <2>2, <2>3, <2>4, NewSessionInv
<1> QED
  BY <1>2, <1>3 DEF AutoConnect, AutoCheck, AutoStart

(* The session in place is taken away, once it is cancelled, and runners    *)
(* end that are done or cancelled.                                          *)
Ended(s) ==
  /\ \A t \in Sessions : t # s => runner'[t] = runner[t]
  /\ runner'[s] \notin {"starting", "consuming"} \/ runner'[s] = runner[s]
  /\ runner[s] = "none" => runner'[s] = "none"
  /\ runner' \in [Sessions -> RunnerStates]
  /\ cancelled \subseteq cancelled' /\ cancelled' \subseteq Sessions
  /\ errored' \subseteq errored /\ errored \subseteq errored' \cup cancelled'
  /\ failed' \subseteq Nodes
  /\ UNCHANGED <<workerVars, auto>>

LEMMA EndedInv ==
  ASSUME Inv, NEW s \in Sessions, Ended(s),
         UNCHANGED sessionVars \/ (NoCurrent /\ (session \in cancelled' \/ (session = s
            /\ runner'[s] \notin {"starting", "consuming"})))
  PROVE  Inv'
<1> USE DEF Inv, Ended
<1>1. CASE UNCHANGED sessionVars
  <2>1. TypeOK'
    BY <1>1 DEF TypeOK
  <2>2. Numbered' /\ ShownFits' /\ ActiveExact'
    BY <1>1 DEF Numbered, ShownFits, ActiveExact, RunningNodes, With
  <2>3. PortHeld' /\ NilIsCancelled' /\ NoListenerAbandoned'
    BY DEF PortHeld, NilIsCancelled, NoListenerAbandoned
  <2>4. NoOrphanSession' /\ RunningIsServed'
    BY <1>1 DEF NoOrphanSession, RunningIsServed, With
  <2> QED
    BY <2>1, <2>2, <2>3, <2>4
<1>2. CASE NoCurrent /\ (session \in cancelled' \/ (session = s
            /\ runner'[s] \notin {"starting", "consuming"}))
  <2>1. session' = NoSession /\ created' = created /\ active' = {}
        /\ \A l \in Listeners : backends'[l].status = "none"
    BY <1>2 DEF NoCurrent, NoBackend
  <2>2. TypeOK'
    <3>1. backends' \in [Listeners -> BackendType] /\ status' \in BackendStatuses
      BY <1>2 DEF NoCurrent, NoBackend, BackendType, BackendStatuses
    <3> QED
      BY <1>2, <3>1 DEF TypeOK, NoCurrent, BackendType
  <2>3. Numbered' /\ ShownFits' /\ ActiveExact'
    BY <2>1, Constants DEF Numbered, ShownFits, ActiveExact, TypeOK
  <2>4. PortHeld' /\ NilIsCancelled' /\ NoListenerAbandoned'
    BY DEF PortHeld, NilIsCancelled, NoListenerAbandoned
  <2>5. NoOrphanSession'
    BY <1>2 DEF NoOrphanSession
  <2>6. RunningIsServed'
    BY <2>1 DEF RunningIsServed
  <2> QED
    BY <2>2, <2>3, <2>4, <2>5, <2>6
<1> QED
  BY <1>1, <1>2

LEMMA EndingInv ==
  ASSUME Inv, Disconnect \/ \E s \in Sessions : ConsumeError(s) \/ FinishError(s) \/ FinishStopped(s)
  PROVE  Inv'
<1> USE DEF Inv
<1>1. CASE Disconnect
  <2>1. session \in Sessions /\ NoCurrent /\ cancelled' = cancelled \cup {session}
    BY <1>1 DEF Disconnect, TypeOK
  <2>2. Ended(session)
    BY <1>1, <2>1 DEF Disconnect, Ended, TypeOK
  <2> QED
    BY <2>1, <2>2, EndedInv
<1>2. ASSUME NEW s \in Sessions, ConsumeError(s) PROVE Inv'
  <2>1. errored' = errored \ {s} /\ runner[s] = "consuming"
        /\ UNCHANGED <<sessionVars, failed, workerVars, auto>>
    BY <1>2 DEF ConsumeError
  <2> DEFINE Late  == cancelled' = cancelled /\ runner' = runner
             First == cancelled' = cancelled \cup {s} /\ runner' = [runner EXCEPT ![s] = "erring"]
  <2>2. (s \in cancelled /\ Late) \/ (s \notin cancelled /\ First)
    BY <1>2 DEF ConsumeError
  <2>3. s \in cancelled' /\ cancelled \subseteq cancelled' /\ cancelled' \subseteq Sessions
        /\ (runner' = runner \/ runner' = [runner EXCEPT ![s] = "erring"])
    <3>1. cancelled \subseteq Sessions
      BY DEF TypeOK
    <3> QED
      BY ONLY <2>2, <3>1, s \in Sessions
  <2>4. runner' \in [Sessions -> RunnerStates] /\ runner'[s] \in {"consuming", "erring"}
        /\ (runner'[s] = "consuming" => runner' = runner)
        /\ \A t \in Sessions : t # s => runner'[t] = runner[t]
    BY <2>1, <2>3 DEF TypeOK, RunnerStates
  <2>5. Ended(s)
    BY <2>1, <2>3, <2>4 DEF Ended, TypeOK
  <2> QED
    BY <2>1, <2>5, EndedInv
<1>3. ASSUME NEW s \in Sessions, FinishError(s) \/ FinishStopped(s) PROVE Inv'
  <2>1. runner' = [runner EXCEPT ![s] = "done"] /\ runner[s] # "none"
    BY <1>3 DEF FinishError, FinishStopped
  <2>2. runner' \in [Sessions -> RunnerStates] /\ runner'[s] = "done"
        /\ \A t \in Sessions : t # s => runner'[t] = runner[t]
    BY <2>1 DEF TypeOK, RunnerStates
  <2>3. failed' \subseteq Nodes
    BY <1>3 DEF FinishError, FinishStopped, TypeOK
  <2>4. UNCHANGED <<cancelled, errored, workerVars, auto>>
    BY <1>3 DEF FinishError, FinishStopped
  <2>5. Ended(s)
    BY <2>1, <2>2, <2>3, <2>4 DEF Ended, TypeOK
  <2> QED
    BY <1>3, <2>2, <2>5, EndedInv DEF FinishError, FinishStopped, IsCurrent
<1> QED
  BY <1>1, <1>2, <1>3

LEMMA NextInv == Inv /\ [Next]_vars => Inv'
<1> SUFFICES ASSUME Inv, [Next]_vars PROVE Inv'
  OBVIOUS
<1>1. CASE UNCHANGED vars
  <2>1. TypeOK'
    BY <1>1 DEF Inv, vars, TypeOK
  <2> QED
    BY <1>1, <2>1 DEF vars, Inv, Numbered, ShownFits, PortHeld, NilIsCancelled, ActiveExact,
       NoOrphanSession, RunningIsServed, NoListenerAbandoned, RunningNodes, With
<1>2. ASSUME NEW s \in Sessions, NEW l \in config[s].enabled, RegisterListener(s, l) PROVE Inv'
  <2>1. l \in Listeners
    BY DEF Inv, TypeOK, ConfigType
  <2> QED
    BY <1>2, <2>1, ShowingStep, MovedInv
<1>3. ASSUME NEW s \in Sessions, NEW l \in Listeners, Worker(s, l) PROVE Inv'
  BY <1>3, QuietStep, ShowingStep, RefreshStep, MovedInv DEF Worker, WorkerStep
<1> QED
  BY <1>1, <1>2, <1>3, ConnectInv, AutoInv, EndingInv DEF Next, Runner

(* The invariant, of which the properties of the runs are parts, holds.     *)
THEOREM InvHolds == Spec => []Inv
BY InitInv, NextInv, PTL DEF Spec

-----------------------------------------------------------------------------
(* Every variable has its type in every reachable state.                    *)
THEOREM TypeCorrect == Spec => []TypeOK
<1>1. Inv => TypeOK
  BY DEF Inv
<1> QED
  BY <1>1, InvHolds, PTL

(* The nodes shown active are those the backends of the session in place    *)
(* run on, whatever was replaced, switched or refreshed.                    *)
THEOREM ActiveShown == Spec => []ActiveExact
<1>1. Inv => ActiveExact
  BY DEF Inv
<1> QED
  BY <1>1, InvHolds, PTL

(* Every session that runs and is not cancelled can be disconnected.        *)
THEOREM NoOrphan == Spec => []NoOrphanSession
<1>1. Inv => NoOrphanSession
  BY DEF Inv
<1> QED
  BY <1>1, InvHolds, PTL

(* What is shown running is served, or its failure is about to be shown.    *)
THEOREM RunningServed == Spec => []RunningIsServed
<1>1. Inv => RunningIsServed
  BY DEF Inv
<1> QED
  BY <1>1, InvHolds, PTL

(* A worker that is gone has left an error or was cancelled.                *)
THEOREM NoneAbandoned == Spec => []NoListenerAbandoned
<1>1. Inv => NoListenerAbandoned
  BY DEF Inv
<1> QED
  BY <1>1, InvHolds, PTL

-----------------------------------------------------------------------------
(* What is not the current session's                                        *)

LEMMA WorkerFrames ==
  ASSUME Inv, NEW s \in Sessions, NEW l \in Listeners, Worker(s, l) \/ RegisterListener(s, l)
  PROVE  /\ \A t \in Sessions : t # s => worker'[t] = worker[t]
         /\ Frame(s, l)
<1>1. PICK to : Moved(s, l, to) /\ Frame(s, l)
  BY QuietStep, ShowingStep, RefreshStep DEF Worker, WorkerStep
<1>2. worker' = [worker EXCEPT ![s][l] = to]
  BY <1>1 DEF Moved
<1> QED
  BY <1>1, <1>2 DEF Inv, TypeOK

Mute(s) ==
  /\ worker'[s] # worker[s] => UNCHANGED <<session, status, backends, active>>
  /\ s <= created /\ runner'[s] # runner[s] =>
       UNCHANGED <<session, status, backends, active, failed>>

LEMMA OthersAreMute ==
  ASSUME Inv, [Next]_vars, NEW s \in Sessions \ {session} PROVE Mute(s)
<1> USE DEF Inv, Mute
<1>1. CASE UNCHANGED vars
  BY <1>1 DEF vars
<1>2. CASE Connect \/ \E a \in Autos : AutoConnect(a)
  <2>1. UNCHANGED worker
    BY <1>2 DEF Connect, AutoConnect, AutoCheck, AutoStart
  <2>2. runner' = runner \/ runner' = [runner EXCEPT ![created + 1] = "starting"]
    BY <1>2 DEF Connect, ConnectPlain, ConnectNode, ConnectBind, AutoConnect, AutoCheck, AutoStart,
       NewSession
  <2>3. s <= created => runner'[s] = runner[s]
    <3>1. s <= created => s # created + 1
      BY Constants DEF TypeOK
    <3>2. runner \in [Sessions -> RunnerStates] /\ s \in Sessions
      BY DEF TypeOK
    <3> QED
      BY ONLY <2>2, <3>1, <3>2
  <2> QED
    BY <2>1, <2>3
<1>3. CASE Disconnect
  BY <1>3 DEF Disconnect
<1>4. ASSUME NEW t \in Sessions, ConsumeError(t) \/ FinishError(t) \/ FinishStopped(t) PROVE Mute(s)
  <2>1. UNCHANGED worker
    BY <1>4 DEF ConsumeError, FinishError, FinishStopped
  <2>2. CASE s = t
    BY <1>4, <2>1, <2>2 DEF ConsumeError, FinishError, FinishStopped, IsCurrent
  <2>3. CASE s # t
    <3>1. \E r : runner' = runner \/ runner' = [runner EXCEPT ![t] = r]
      BY <1>4 DEF ConsumeError, FinishError, FinishStopped
    <3> QED
      BY <2>1, <2>3, <3>1 DEF TypeOK
  <2> QED
    BY <2>2, <2>3
<1>5. ASSUME NEW t \in Sessions, NEW l \in Listeners, Worker(t, l) \/ RegisterListener(t, l)
      PROVE  Mute(s)
  <2>1. \A u \in Sessions : u # t => worker'[u] = worker[u]
    BY <1>5, WorkerFrames
  <2>2. Frame(t, l)
    BY <1>5, WorkerFrames
  <2>3. CASE s # t
    BY <2>1, <2>2, <2>3 DEF Frame
  <2>4. CASE s = t
    <3>1. UNCHANGED <<session, status, backends, active>>
      BY <2>2, <2>4 DEF Frame, TypeOK
    <3>2. runner'[s] # runner[s] => RegisterListener(t, l)
      BY <1>5, <2>4 DEF Worker, WorkerStep, WorkerExit, WorkerTop, ResolveStatic, ResolveNode,
         ResolveFails, WorkerUnplanned, StartOk, PortBusy, StartFails, CheckOk, CheckFails,
         ServeStopped, Unwind, WorkerMarkFailed, WorkerSwitching, WorkerRefresh, BackoffOver,
         SelectRefresh
    <3> QED
      BY <3>1, <3>2 DEF RegisterListener
  <2> QED
    BY <2>3, <2>4
<1>6. ASSUME NEW t \in Sessions, NEW l \in config[t].enabled, RegisterListener(t, l) PROVE Mute(s)
  <2>1. l \in Listeners
    BY DEF TypeOK, ConfigType
  <2> QED
    BY <1>5, <1>6, <2>1
<1> QED
  BY <1>1, <1>2, <1>3, <1>4, <1>5, <1>6 DEF Next, Runner

(* A session that was replaced or disconnected changes nothing of what is   *)
(* shown and blames no node.                                                *)
THEOREM StaleIsMute == Spec => StaleSessionIsMute
<1>1. Inv /\ [Next]_vars => [\A s \in Sessions \ {session} : Mute(s)]_vars
  BY OthersAreMute
<1>2. [\A s \in Sessions \ {session} : Mute(s)]_vars =>
        [\A s \in Sessions \ {session} :
           /\ worker'[s] # worker[s] => UNCHANGED <<session, status, backends, active>>
           /\ s <= created /\ runner'[s] # runner[s] =>
                UNCHANGED <<session, status, backends, active, failed>>]_vars
  BY DEF Mute
<1> QED
  BY <1>1, <1>2, InvHolds, PTL DEF Spec, StaleSessionIsMute

-----------------------------------------------------------------------------
(* The refinement                                                           *)

LEMMA NewSessionViewed ==
  ASSUME NEW n, NEW c, NewSession(n, c) PROVE View!Begin
BY DEF NewSession, View!Begin, View!Nothing, NoBackend

LEMMA NoCurrentViewed ==
  ASSUME session # NoSession, NoCurrent PROVE View!End
BY DEF NoCurrent, View!End, View!Nothing, NoBackend

LEMMA ShownViewed ==
  ASSUME Inv, NEW s \in Sessions, NEW l \in Listeners,
         NEW st \in BackendStatuses, NEW n \in Nodes \cup {NoNode}, Update(s, l, st, n),
         session = s => /\ st \in View!After(backends[l].status)
                        /\ st = "running" /\ backends[l].status = "running" => n = backends[l].node
                        /\ st \in {"starting", "error"} => n = NoNode
  PROVE  View!Show(l) \/ UNCHANGED View!viewVars
<1>1. CASE session # s
  BY <1>1 DEF Update, IsCurrent, View!viewVars
<1>2. CASE session = s
  <2>1. TypeOK
    BY DEF Inv
  <2>2. session # 0 /\ UNCHANGED <<session, created>>
        /\ backends' = [backends EXCEPT ![l] = [status |-> st, node |-> n]]
    BY <1>2, Constants DEF Update, IsCurrent
  <2> QED
    BY <1>2, <2>2 DEF View!Show
<1> QED
  BY <1>1, <1>2

LEMMA StepViewed == Inv /\ [Next]_vars => [View!Next]_View!viewVars
<1> SUFFICES ASSUME Inv, [Next]_vars PROVE View!Next \/ UNCHANGED View!viewVars
  OBVIOUS
<1> USE DEF Inv, View!viewVars
<1>1. CASE UNCHANGED vars
  BY <1>1 DEF vars
<1>2. CASE Connect \/ \E a \in Autos : AutoConnect(a)
  <2>1. UNCHANGED sessionVars \/ \E n, c : NewSession(n, c)
    BY <1>2 DEF Connect, ConnectPlain, ConnectNode, ConnectBind, AutoConnect, AutoCheck, AutoStart
  <2> QED
    BY <2>1, NewSessionViewed DEF View!Next
<1>3. CASE Disconnect \/ \E s \in Sessions : ConsumeError(s) \/ FinishError(s) \/ FinishStopped(s)
  <2>1. UNCHANGED sessionVars \/ (session # NoSession /\ NoCurrent)
    BY <1>3, Constants DEF Disconnect, ConsumeError, FinishError, FinishStopped, IsCurrent
  <2> QED
    BY <2>1, NoCurrentViewed DEF View!Next
<1>4. ASSUME NEW s \in Sessions, NEW l \in Listeners, Worker(s, l) \/ RegisterListener(s, l)
      PROVE  View!Next \/ UNCHANGED View!viewVars
  <2> USE DEF WGoto, BackendStatuses
  <2>1. session = s => backends[l].status \in Fits(worker[s][l])
                       /\ (worker[s][l] = "serving" => backends[l].node = plan[s][l])
    BY Constants DEF ShownFits
  <2>2. plan[s][l] \in Nodes \cup {NoNode}
    BY DEF TypeOK
  <2>3. CASE RegisterListener(s, l)
    <3>1. Update(s, l, "starting", NoNode) /\ worker[s][l] = "off"
      BY <2>3 DEF RegisterListener
    <3>2. session = s => "starting" \in View!After(backends[l].status)
      BY <2>1, <3>1 DEF Fits, View!After
    <3> QED
      BY <3>1, <3>2, ShownViewed DEF View!Next
  <2>4. CASE WorkerTop(s, l)
    <3>1. Update(s, l, "switching", NoNode) /\ worker[s][l] = "top"
      BY <2>4 DEF WorkerTop
    <3>2. session = s => "switching" \in View!After(backends[l].status)
      BY <2>1, <3>1 DEF Fits, View!After
    <3> QED
      BY <3>1, <3>2, ShownViewed DEF View!Next
  <2>5. CASE WorkerUnplanned(s, l)
    <3>1. Update(s, l, "error", NoNode) /\ worker[s][l] = "unplanned"
      BY <2>5 DEF WorkerUnplanned
    <3>2. session = s => "error" \in View!After(backends[l].status)
      BY <2>1, <3>1 DEF Fits, View!After
    <3> QED
      BY <3>1, <3>2, ShownViewed DEF View!Next
  <2>6. CASE CheckOk(s, l)
    <3>1. Update(s, l, "running", plan[s][l]) /\ worker[s][l] \in {"checking", "serving"}
      BY <2>6 DEF CheckOk
    <3>2. session = s => /\ "running" \in View!After(backends[l].status)
                         /\ backends[l].status = "running" => plan[s][l] = backends[l].node
      BY <2>1, <3>1 DEF Fits, View!After
    <3> QED
      BY <2>2, <3>1, <3>2, ShownViewed DEF View!Next
  <2>7. CASE WorkerSwitching(s, l)
    <3>1. Update(s, l, "switching", plan[s][l]) /\ worker[s][l] = "failed"
      BY <2>7 DEF WorkerSwitching
    <3>2. session = s => "switching" \in View!After(backends[l].status)
      BY <2>1, <3>1 DEF Fits, View!After
    <3> QED
      BY <2>2, <3>1, <3>2, ShownViewed DEF View!Next
  <2>8. ASSUME ~(RegisterListener(s, l) \/ WorkerTop(s, l) \/ WorkerUnplanned(s, l)
                 \/ CheckOk(s, l) \/ WorkerSwitching(s, l))
        PROVE  UNCHANGED <<session, created, backends>>
    BY <1>4, <2>8 DEF Worker, WorkerStep, WorkerExit, ResolveStatic, ResolveNode, ResolveFails,
       StartOk, PortBusy, StartFails, CheckFails, ServeStopped, Unwind, WorkerMarkFailed,
       WorkerRefresh, BackoffOver, SelectRefresh
  <2> QED
    BY <2>3, <2>4, <2>5, <2>6, <2>7, <2>8
<1>5. ASSUME NEW s \in Sessions, NEW l \in config[s].enabled, RegisterListener(s, l)
      PROVE  View!Next \/ UNCHANGED View!viewVars
  <2>1. l \in Listeners
    BY DEF TypeOK, ConfigType
  <2> QED
    BY <1>4, <1>5, <2>1
<1> QED
  BY <1>1, <1>2, <1>3, <1>4, <1>5 DEF Next, Runner

(* What clients see of the sessions is what SessionView says: no session    *)
(* comes back and no listener skips a status or changes its node unseen.    *)
THEOREM ViewImplemented == Spec => ImplementsView
<1>1. Init => View!Init
  BY DEF Init, View!Init, View!Nothing, NoBackend
<1> QED
  BY <1>1, StepViewed, InvHolds, PTL DEF Spec, ImplementsView, View!Spec
-----------------------------------------------------------------------------
(* What a finished context brings about.  The steps themselves, and the      *)
(* order in which they come, are proved here; that a goroutine which has a   *)
(* step to take may take it is NothingStuck, which is a hypothesis below.    *)

(* What else is invariant: a cancelled session has been made, one that is in *)
(* place is about to end, and an address belongs to a worker that got it.    *)
Holding == {"checking", "serving", "unwindNil", "unwindErr", "unwindListen"}
Late ==
  /\ \A s \in cancelled : s <= created
  /\ session # NoSession /\ session \in cancelled => runner[session] = "erring"
  /\ \A s \in Sessions, l \in Listeners : port[l] = s => worker[s][l] \in Holding

(* A worker's step leaves other sessions, and its session's other listeners. *)
LEMMA WorkerTouches ==
  ASSUME Inv, NEW s \in Sessions, NEW l \in Listeners, Worker(s, l) \/ RegisterListener(s, l)
  PROVE  /\ \A t \in Sessions, k \in Listeners : t # s \/ k # l => worker'[t][k] = worker[t][k]
         /\ Frame(s, l)
<1>1. PICK to : Moved(s, l, to) /\ Frame(s, l)
  BY QuietStep, ShowingStep, RefreshStep DEF Worker, WorkerStep
<1>2. worker' = [worker EXCEPT ![s][l] = to]
  BY <1>1 DEF Moved
<1>3. worker \in [Sessions -> [Listeners -> WorkerStates]]
  BY DEF Inv, TypeOK
<1> HIDE DEF Sessions
<1>4. \A t \in Sessions, k \in Listeners : t # s \/ k # l => worker'[t][k] = worker[t][k]
  BY ONLY <1>2, <1>3
<1> QED
  BY <1>1, <1>4

(* A worker binds its address once it has planned, and holds it until it     *)
(* unwinds.                                                                  *)
LEMMA PortFollows ==
  ASSUME Inv, Late, NEW s \in Sessions, NEW l \in Listeners, Worker(s, l) \/ RegisterListener(s, l)
  PROVE  port'[l] = s => worker'[s][l] \in Holding
<1> USE DEF Holding, WGoto, Inv, TypeOK
<1>1. port[l] = s => worker[s][l] \in Holding
  BY DEF Late
<1>2. CASE StartOk(s, l)
  BY <1>2 DEF StartOk
<1>3. CASE Unwind(s, l)
  BY <1>3, Constants DEF Unwind
<1>4. CASE CheckOk(s, l) \/ CheckFails(s, l) \/ ServeStopped(s, l)
  <2>1. \E to \in Holding : worker' = [worker EXCEPT ![s][l] = to]
    BY <1>4 DEF CheckOk, CheckFails, ServeStopped
  <2> QED
    BY <2>1
<1>5. CASE port' = port /\ worker[s][l] \notin Holding
  BY <1>1, <1>5
<1> QED
  BY <1>2, <1>3, <1>4, <1>5
     DEF Worker, WorkerStep, RegisterListener, WorkerExit, WorkerTop, ResolveStatic, ResolveNode,
         ResolveFails, WorkerUnplanned, PortBusy, StartFails, WorkerMarkFailed, WorkerSwitching,
         WorkerRefresh, BackoffOver, SelectRefresh

LEMMA LateStep == Inv /\ Late /\ [Next]_vars => Late'
<1> SUFFICES ASSUME Inv, Late, [Next]_vars PROVE Late'
  OBVIOUS
<1> USE DEF Late
<1>0. TypeOK /\ created \in Nat /\ session \in Sessions \cup {NoSession}
  BY Constants DEF Inv, TypeOK
<1>1. CASE UNCHANGED vars
  BY <1>1 DEF vars
<1>2. CASE UNCHANGED <<session, created, cancelled, runner, worker, port>>
  BY <1>2
<1>3. ASSUME NEW n, NEW c, NewSession(n, c), UNCHANGED <<worker, port>>,
             cancelled' \subseteq cancelled \cup ({session} \ {NoSession})
      PROVE  Late'
  <2>1. session' = created + 1 /\ created' = created + 1
    BY <1>3 DEF NewSession
  <2>2. \A s \in cancelled' : s <= created
    BY <1>0, <1>3 DEF Inv, Numbered
  <2>3. session' \notin cancelled'
    BY <1>0, <2>1, <2>2
  <2> QED
    BY <1>0, <1>3, <2>1, <2>2, <2>3 DEF TypeOK
<1>4. CASE Connect
  <2>1. PICK n, c : NewSession(n, c)
    BY <1>4 DEF Connect, ConnectPlain, ConnectNode, ConnectBind
  <2> QED
    BY <1>3, <1>4, <2>1 DEF Connect
<1>5. ASSUME NEW a \in Autos, AutoConnect(a) PROVE Late'
  <2>1. CASE UNCHANGED <<sessionVars, runner>>
    BY <1>2, <1>5, <2>1 DEF AutoConnect, AutoCheck, AutoStart
  <2>2. CASE ~UNCHANGED <<sessionVars, runner>>
    <3>1. PICK c : NewSession(NoNode, c)
      BY <1>5, <2>2 DEF AutoConnect, AutoCheck, AutoStart
    <3> QED
      BY <1>3, <1>5, <2>2, <3>1 DEF AutoConnect, AutoCheck, AutoStart
  <2> QED
    BY <2>1, <2>2
<1>6. CASE Disconnect
  BY <1>0, <1>6 DEF Disconnect, NoCurrent, Inv, Numbered
<1>7. ASSUME NEW s \in Sessions, ConsumeError(s) PROVE Late'
  <2>1. runner[s] = "consuming" /\ UNCHANGED <<session, created, worker, port>>
    BY <1>7 DEF ConsumeError
  <2>2. s <= created
    BY <1>0, <2>1 DEF Inv, Numbered
  <2>3. (UNCHANGED <<cancelled, runner>>)
        \/ (cancelled' = cancelled \cup {s} /\ runner' = [runner EXCEPT ![s] = "erring"])
    BY <1>7 DEF ConsumeError
  <2>4. runner' \in [Sessions -> RunnerStates] /\ \A t \in Sessions : t # s => runner'[t] = runner[t]
    BY <1>0, <2>3 DEF TypeOK, RunnerStates
  <2>5. s \in cancelled' /\ (cancelled' # cancelled => runner'[s] = "erring")
    BY <1>0, <1>7, <2>3 DEF TypeOK, ConsumeError
  <2> QED
    BY <1>0, <2>1, <2>2, <2>3, <2>4, <2>5
<1>8. ASSUME NEW s \in Sessions, FinishError(s) \/ FinishStopped(s) PROVE Late'
  <2>1. UNCHANGED <<created, cancelled, worker, port>> /\ runner' = [runner EXCEPT ![s] = "done"]
    BY <1>8 DEF FinishError, FinishStopped, NoCurrent
  <2>2. session' = NoSession \/ (session # s /\ session' = session)
    BY <1>8 DEF FinishError, FinishStopped, NoCurrent, IsCurrent
  <2> QED
    BY <1>0, <2>1, <2>2 DEF TypeOK
<1>9. ASSUME NEW s \in Sessions, NEW l \in Listeners, Worker(s, l) \/ RegisterListener(s, l)
      PROVE  Late'
  <2>1. Frame(s, l) /\ \A t \in Sessions, k \in Listeners : t # s \/ k # l => worker'[t][k] = worker[t][k]
    BY <1>9, WorkerTouches
  <2>2. ASSUME NEW t \in Sessions, NEW k \in Listeners, port'[k] = t PROVE worker'[t][k] \in Holding
    <3>1. CASE t = s /\ k = l
      BY <1>9, <2>2, <3>1, PortFollows
    <3>2. CASE k # l
      BY <2>1, <2>2, <3>2 DEF Frame
    <3>3. CASE k = l /\ t # s
      <4>1. port'[l] = port[l]
        BY <1>0, <1>9, <2>2, <3>3, Constants
           DEF Worker, WorkerStep, RegisterListener, WorkerExit, WorkerTop, ResolveStatic, ResolveNode,
               ResolveFails, WorkerUnplanned, PortBusy, StartFails, WorkerMarkFailed, WorkerSwitching,
               WorkerRefresh, BackoffOver, SelectRefresh, StartOk, CheckOk, CheckFails, ServeStopped,
               Unwind, TypeOK
      <4> QED
        BY <2>1, <2>2, <3>3, <4>1
    <3> QED
      BY <3>1, <3>2, <3>3
  <2>3. session' = session /\ created' = created /\ cancelled' = cancelled
        /\ \A t \in Sessions : runner[t] = "erring" => runner'[t] = "erring"
    BY <2>1 DEF Frame
  <2> QED
    BY <1>0, <2>2, <2>3
<1>10. ASSUME NEW s \in Sessions, NEW l \in config[s].enabled, RegisterListener(s, l) PROVE Late'
  <2>1. l \in Listeners
    BY <1>0 DEF TypeOK, ConfigType
  <2> QED
    BY <1>9, <1>10, <2>1
<1> QED
  BY <1>1, <1>4, <1>5, <1>6, <1>7, <1>8, <1>9, <1>10 DEF Next, Runner

(* A session in place that is cancelled is about to end in an error, and     *)
(* who has an address has asked for it and not given it back yet.            *)
THEOREM LateHolds == Spec => []Late
<1>1. Init => Late
  BY Constants DEF Init, Late
<1> QED
  BY <1>1, LateStep, InvHolds, PTL DEF Spec

LEMMA FairIsSpec == FairSpec => Spec /\ []Inv /\ []Late /\ [][Next]_vars
BY InvHolds, LateHolds, PTL DEF FairSpec, Spec
-----------------------------------------------------------------------------
(* How far the worker of a cancelled session is from its end *)
Rank(w) ==
  CASE w = "select" -> 10
    [] w = "planned" -> 9
    [] w = "checking" -> 8
    [] w = "serving" -> 7
    [] w \in {"unwindNil", "unwindErr", "unwindListen"} -> 6
    [] w = "failing" -> 5
    [] w = "failed" -> 4
    [] w \in {"refreshing", "unplanned"} -> 3
    [] w = "backoff" -> 2
    [] w = "top" -> 1
    [] w = "done" -> 0
Left(s, l) == Rank(worker[s][l])
Stopping(s, l) == s \in cancelled /\ worker[s][l] # "off"
Within(s, l, r) == Stopping(s, l) /\ Left(s, l) \in 0 .. r

LEMMA RankTyped ==
  ASSUME NEW w \in WorkerStates \ {"off"}
  PROVE  Rank(w) \in 0 .. 10 /\ (Rank(w) = 0 <=> w = "done")
<1>1. w \in {"top", "select", "unplanned", "planned", "checking", "serving", "unwindNil",
             "unwindErr", "unwindListen", "failing", "failed", "refreshing", "backoff", "done"}
  BY DEF WorkerStates
<1>2. /\ Rank("select") = 10 /\ Rank("planned") = 9 /\ Rank("checking") = 8 /\ Rank("serving") = 7
      /\ Rank("unwindNil") = 6 /\ Rank("unwindErr") = 6 /\ Rank("unwindListen") = 6
      /\ Rank("failing") = 5 /\ Rank("failed") = 4 /\ Rank("refreshing") = 3
      /\ Rank("unplanned") = 3 /\ Rank("backoff") = 2 /\ Rank("top") = 1 /\ Rank("done") = 0
  BY DEF Rank
<1> QED
  BY <1>1, <1>2

(* Its own steps lead down, with the exception of two which leave it where   *)
(* it is: a check of a backend that serves, and a refresh for candidates,    *)
(* which finds nothing to do when the session is gone.                       *)
LEMMA OwnStepSinks ==
  ASSUME Inv, NEW s \in Sessions, NEW l \in Listeners, Stopping(s, l),
         Worker(s, l) \/ RegisterListener(s, l)
  PROVE  /\ worker'[s][l] # "off"
         /\ \/ Left(s, l)' < Left(s, l)
            \/ worker'[s][l] = worker[s][l] /\ (SelectRefresh(s, l) \/ worker[s][l] = "serving")
<1> DEFINE v == worker[s][l]
           Goto(to) == worker' = [worker EXCEPT ![s][l] = to]
<1>0. worker \in [Sessions -> [Listeners -> WorkerStates]] /\ worker[s][l] # "off"
  BY DEF Inv, TypeOK, Stopping
<1>1. \A to : Goto(to) => worker'[s][l] = to
  BY <1>0
<1>2. s \in cancelled /\ ~RegisterListener(s, l)
  BY DEF Stopping, RegisterListener
<1> USE DEF WGoto
<1>3. \/ v \in {"top", "backoff"} /\ Goto("done")
      \/ v = "select" /\ (Goto("planned") \/ Goto("unplanned"))
      \/ v = "unplanned" /\ Goto("backoff")
      \/ v = "planned" /\ (Goto("checking") \/ Goto("unwindListen") \/ Goto("unwindErr"))
      \/ v = "checking" /\ (Goto("serving") \/ Goto("unwindErr"))
      \/ v = "serving" /\ (Goto("unwindErr") \/ Goto("unwindNil") \/ Goto("serving"))
      \/ v \in {"unwindNil", "unwindErr", "unwindListen"} /\ Goto("done")
      \/ v = "failing" /\ Goto("failed")
      \/ v = "failed" /\ Goto("refreshing")
      \/ v = "refreshing" /\ Goto("backoff")
      \/ v = "backoff" /\ Goto("top")
      \/ v = "select" /\ Goto("select") /\ SelectRefresh(s, l)
  BY <1>2 DEF Worker, WorkerStep, WorkerExit, WorkerTop, ResolveStatic, ResolveNode,
         ResolveFails, WorkerUnplanned, PortBusy, StartFails, WorkerMarkFailed, WorkerSwitching,
         WorkerRefresh, BackoffOver, SelectRefresh, StartOk, CheckOk, CheckFails, ServeStopped, Unwind
<1> DEFINE w == worker'[s][l]
<1>4. \/ v \in {"top", "backoff"} /\ w = "done"
      \/ v = "select" /\ w \in {"planned", "unplanned"}
      \/ v = "unplanned" /\ w = "backoff"
      \/ v = "planned" /\ w \in {"checking", "unwindListen", "unwindErr"}
      \/ v = "checking" /\ w \in {"serving", "unwindErr"}
      \/ v = "serving" /\ w \in {"unwindErr", "unwindNil", "serving"}
      \/ v \in {"unwindNil", "unwindErr", "unwindListen"} /\ w = "done"
      \/ v = "failing" /\ w = "failed"
      \/ v = "failed" /\ w = "refreshing"
      \/ v = "refreshing" /\ w = "backoff"
      \/ v = "backoff" /\ w = "top"
      \/ v = "select" /\ w = "select" /\ SelectRefresh(s, l)
  BY <1>1, <1>3
<1>5. Left(s, l) = Rank(v) /\ Left(s, l)' = Rank(w)
  BY DEF Left
<1> HIDE DEF v, w, Goto
<1>6. w # "off" /\ (Rank(w) < Rank(v) \/ (w = v /\ (v = "serving" \/ (v = "select" /\ SelectRefresh(s, l)))))
  BY <1>4 DEF Rank
<1> QED
  BY <1>5, <1>6 DEF v, w

LEMMA CancelledStays == [Next]_vars => cancelled \subseteq cancelled'
BY DEF Next, vars, Connect, Disconnect, AutoConnect, AutoCheck, AutoStart, Runner, RegisterListener,
       ConsumeError, FinishError, FinishStopped, Worker, WorkerStep, WorkerExit, WorkerTop,
       ResolveStatic, ResolveNode, ResolveFails, WorkerUnplanned, PortBusy, StartFails,
       WorkerMarkFailed, WorkerSwitching, WorkerRefresh, BackoffOver, SelectRefresh, StartOk, CheckOk,
       CheckFails, ServeStopped, Unwind

LEMMA WorkerSinks ==
  ASSUME Inv, [Next]_vars, NEW s \in Sessions, NEW l \in Listeners, Stopping(s, l)
  PROVE  Stopping(s, l)' /\ (Left(s, l)' < Left(s, l) \/ worker'[s][l] = worker[s][l])
<1>1. CASE worker'[s][l] = worker[s][l]
  BY <1>1, CancelledStays DEF Stopping
<1>2. CASE worker'[s][l] # worker[s][l]
  <2>1. PICK t \in Sessions, k \in Listeners : Worker(t, k) \/ RegisterListener(t, k)
    <3>1. ~(UNCHANGED vars \/ Connect \/ Disconnect \/ \E a \in Autos : AutoConnect(a))
      BY <1>2 DEF vars, Connect, Disconnect, AutoConnect, AutoCheck, AutoStart
    <3>2. \A t \in Sessions : ~(ConsumeError(t) \/ FinishError(t) \/ FinishStopped(t))
      BY <1>2 DEF ConsumeError, FinishError, FinishStopped
    <3>3. \A t \in Sessions : config[t].enabled \subseteq Listeners
      BY DEF Inv, TypeOK, ConfigType
    <3> QED
      BY <3>1, <3>2, <3>3 DEF Next, Runner
  <2>2. t = s /\ k = l
    BY <1>2, <2>1, WorkerTouches
  <2> QED
    BY <1>2, <2>1, <2>2, OwnStepSinks, CancelledStays DEF Stopping
<1> QED
  BY <1>1, <1>2

LEMMA MustStepSinks ==
  ASSUME Inv, NEW s \in Sessions, NEW l \in Listeners, Stopping(s, l), <<WorkerMustStep(s, l)>>_vars
  PROVE  Left(s, l)' < Left(s, l)
<1>1. ~SelectRefresh(s, l)
  <2> SUFFICES ASSUME SelectRefresh(s, l) PROVE UNCHANGED vars
    OBVIOUS
  <2>1. active' = active
    <3>1. CASE session = NoSession
      BY <3>1, NothingRuns DEF Inv, ActiveExact, ShownFits, RefreshActive, SelectRefresh
    <3>2. CASE session # NoSession
      BY <3>2 DEF Inv, ActiveExact, RefreshActive, SelectRefresh
    <3> QED
      BY <3>1, <3>2
  <2>2. worker' = worker
    BY DEF SelectRefresh, WGoto, Inv, TypeOK
  <2> QED
    BY <2>1, <2>2 DEF SelectRefresh, vars
<1>2. CASE worker[s][l] = "serving"
  <2>1. ServeStopped(s, l)
    BY <1>2 DEF WorkerMustStep
  <2>2. worker'[s][l] = "unwindNil"
    BY <2>1 DEF ServeStopped, WGoto, Inv, TypeOK
  <2> QED
    BY <1>2, <2>1, <2>2, OwnStepSinks DEF Worker, WorkerStep
<1>3. CASE worker[s][l] # "serving"
  <2>1. Worker(s, l)
    BY <1>3 DEF WorkerMustStep
  <2> QED
    BY <1>1, <1>3, <2>1, OwnStepSinks
<1> QED
  BY <1>2, <1>3

LEMMA WorkerGoes ==
  ASSUME NEW s \in Sessions, NEW l \in Listeners
  PROVE  FairSpec /\ []NothingStuck =>
           []<>~WorkerMustGo(s, l) \/ []<><<WorkerMustStep(s, l)>>_vars
<1>1. WorkersGoOn => WorkerGoesOn(s, l)
  BY DEF WorkersGoOn
<1>2. NothingStuck => (WorkerMustGo(s, l) => ENABLED <<WorkerMustStep(s, l)>>_vars)
  BY DEF NothingStuck
<1> QED
  BY <1>1, <1>2, PTL DEF FairSpec, Fairness, WorkerGoesOn

(* From each rank, the worker's next step leads further down.                *)
LEMMA RankSinks ==
  ASSUME NEW s \in Sessions, NEW l \in Listeners, NEW q \in 0 .. 9, NEW r \in 1 .. 10, r = q + 1
  PROVE  /\ Inv /\ Inv' /\ Within(s, l, r) /\ [Next]_vars => Within(s, l, r)'
         /\ Inv /\ Inv' /\ Within(s, l, r) /\ [Next]_vars /\ <<WorkerMustStep(s, l)>>_vars =>
              Within(s, l, q)'
         /\ Inv /\ Within(s, l, r) => Within(s, l, q) \/ WorkerMustGo(s, l)
<1> USE DEF Within
<1>1. Inv /\ Stopping(s, l) => /\ worker[s][l] \in WorkerStates \ {"off"}
                               /\ Left(s, l) \in 0 .. 10 /\ (Left(s, l) = 0 <=> worker[s][l] = "done")
  <2>1. Inv /\ Stopping(s, l) => worker[s][l] \in WorkerStates \ {"off"}
    BY DEF Inv, TypeOK, Stopping
  <2> QED
    BY <2>1, RankTyped DEF Left
<1>2. ASSUME Inv, Inv', Within(s, l, r), [Next]_vars
      PROVE  Within(s, l, r)' /\ (<<WorkerMustStep(s, l)>>_vars => Within(s, l, q)')
  <2>1. Stopping(s, l)' /\ (Left(s, l)' < Left(s, l) \/ worker'[s][l] = worker[s][l])
    BY <1>2, WorkerSinks
  <2>2. worker'[s][l] = worker[s][l] => Left(s, l)' = Left(s, l)
    BY DEF Left
  <2>3. worker'[s][l] \in WorkerStates \ {"off"}
    BY <1>2, <2>1 DEF Inv, TypeOK, Stopping
  <2>4. Left(s, l)' \in 0 .. 10
    BY <2>3, RankTyped DEF Left
  <2>5. <<WorkerMustStep(s, l)>>_vars => Left(s, l)' < Left(s, l)
    BY <1>2, MustStepSinks
  <2> QED
    BY <1>1, <1>2, <2>1, <2>2, <2>4, <2>5
<1>3. ASSUME Inv, Within(s, l, r), ~Within(s, l, q) PROVE WorkerMustGo(s, l)
  <2>1. Left(s, l) # 0
    BY <1>3
  <2>2. worker[s][l] \notin {"off", "done"} /\ s \in cancelled
    BY <1>1, <1>3, <2>1 DEF Stopping
  <2> QED
    BY <2>2 DEF WorkerMustGo
<1> QED
  BY <1>2, <1>3

(* A worker of a cancelled session ends and gives its address up, in         *)
(* whatever phase it was and whatever other sessions do meanwhile.           *)
THEOREM WorkerDrains ==
  ASSUME NEW s \in Sessions, NEW l \in Listeners
  PROVE  FairSpec /\ []NothingStuck =>
           (s \in cancelled /\ worker[s][l] # "off" ~> worker[s][l] = "done" /\ port[l] # s)
<1> DEFINE S == s \in cancelled /\ worker[s][l] # "off"
           R == worker[s][l] = "done" /\ port[l] # s
           Goes == WorkerMustGo(s, l)
           W0 == Within(s, l, 0)
           W1 == Within(s, l, 1)
           W2 == Within(s, l, 2)
           W3 == Within(s, l, 3)
           W4 == Within(s, l, 4)
           W5 == Within(s, l, 5)
           W6 == Within(s, l, 6)
           W7 == Within(s, l, 7)
           W8 == Within(s, l, 8)
           W9 == Within(s, l, 9)
           W10 == Within(s, l, 10)
<1>10. /\ Inv /\ Inv' /\ W10 /\ [Next]_vars => W10'
       /\ Inv /\ Inv' /\ W10 /\ [Next]_vars /\ <<WorkerMustStep(s, l)>>_vars => W9'
       /\ Inv /\ W10 => W9 \/ Goes
  BY RankSinks
<1>9. /\ Inv /\ Inv' /\ W9 /\ [Next]_vars => W9'
      /\ Inv /\ Inv' /\ W9 /\ [Next]_vars /\ <<WorkerMustStep(s, l)>>_vars => W8'
      /\ Inv /\ W9 => W8 \/ Goes
  BY RankSinks
<1>8. /\ Inv /\ Inv' /\ W8 /\ [Next]_vars => W8'
      /\ Inv /\ Inv' /\ W8 /\ [Next]_vars /\ <<WorkerMustStep(s, l)>>_vars => W7'
      /\ Inv /\ W8 => W7 \/ Goes
  BY RankSinks
<1>7. /\ Inv /\ Inv' /\ W7 /\ [Next]_vars => W7'
      /\ Inv /\ Inv' /\ W7 /\ [Next]_vars /\ <<WorkerMustStep(s, l)>>_vars => W6'
      /\ Inv /\ W7 => W6 \/ Goes
  BY RankSinks
<1>6. /\ Inv /\ Inv' /\ W6 /\ [Next]_vars => W6'
      /\ Inv /\ Inv' /\ W6 /\ [Next]_vars /\ <<WorkerMustStep(s, l)>>_vars => W5'
      /\ Inv /\ W6 => W5 \/ Goes
  BY RankSinks
<1>5. /\ Inv /\ Inv' /\ W5 /\ [Next]_vars => W5'
      /\ Inv /\ Inv' /\ W5 /\ [Next]_vars /\ <<WorkerMustStep(s, l)>>_vars => W4'
      /\ Inv /\ W5 => W4 \/ Goes
  BY RankSinks
<1>4. /\ Inv /\ Inv' /\ W4 /\ [Next]_vars => W4'
      /\ Inv /\ Inv' /\ W4 /\ [Next]_vars /\ <<WorkerMustStep(s, l)>>_vars => W3'
      /\ Inv /\ W4 => W3 \/ Goes
  BY RankSinks
<1>3. /\ Inv /\ Inv' /\ W3 /\ [Next]_vars => W3'
      /\ Inv /\ Inv' /\ W3 /\ [Next]_vars /\ <<WorkerMustStep(s, l)>>_vars => W2'
      /\ Inv /\ W3 => W2 \/ Goes
  BY RankSinks
<1>2. /\ Inv /\ Inv' /\ W2 /\ [Next]_vars => W2'
      /\ Inv /\ Inv' /\ W2 /\ [Next]_vars /\ <<WorkerMustStep(s, l)>>_vars => W1'
      /\ Inv /\ W2 => W1 \/ Goes
  BY RankSinks
<1>1. /\ Inv /\ Inv' /\ W1 /\ [Next]_vars => W1'
      /\ Inv /\ Inv' /\ W1 /\ [Next]_vars /\ <<WorkerMustStep(s, l)>>_vars => W0'
      /\ Inv /\ W1 => W0 \/ Goes
  BY RankSinks
<1>11. Inv /\ S => W10
  <2>1. Inv /\ S => worker[s][l] \in WorkerStates \ {"off"}
    BY DEF Inv, TypeOK
  <2> QED
    BY <2>1, RankTyped DEF Within, Stopping, Left
<1>12. Inv /\ Late /\ W0 => R
  <2> SUFFICES ASSUME Inv, Late, W0 PROVE R
    OBVIOUS
  <2>1. worker[s][l] \in WorkerStates \ {"off"} /\ Rank(worker[s][l]) = 0
    BY DEF Within, Stopping, Left, Inv, TypeOK
  <2>2. worker[s][l] = "done"
    BY <2>1, RankTyped
  <2> QED
    BY <2>2 DEF Late, Holding
<1>13. FairSpec /\ []NothingStuck => []<>~Goes \/ []<><<WorkerMustStep(s, l)>>_vars
  BY WorkerGoes
<1> HIDE DEF S, R, Goes, W0, W1, W2, W3, W4, W5, W6, W7, W8, W9, W10
<1>14. FairSpec /\ []NothingStuck => (S ~> R)
  BY <1>10, <1>9, <1>8, <1>7, <1>6, <1>5, <1>4, <1>3, <1>2, <1>1, <1>11, <1>12, <1>13,
     FairIsSpec, PTL
<1> QED
  BY <1>14 DEF S, R

(* ... and on its way there it never goes back a phase: a session that is    *)
(* cancelled starts no backend anew and leaves no failover half done.        *)
THEOREM CancelledNeverRises ==
  ASSUME NEW s \in Sessions, NEW l \in Listeners
  PROVE  Spec => [][Stopping(s, l) => Left(s, l)' <= Left(s, l)]_vars
<1>1. Inv /\ [Next]_vars => [Stopping(s, l) => Left(s, l)' <= Left(s, l)]_vars
  <2> SUFFICES ASSUME Inv, [Next]_vars, Stopping(s, l) PROVE Left(s, l)' <= Left(s, l)
    OBVIOUS
  <2>1. Left(s, l) \in 0 .. 10
    BY RankTyped DEF Stopping, Left, Inv, TypeOK
  <2>2. Inv' /\ Stopping(s, l)' /\ (Left(s, l)' < Left(s, l) \/ worker'[s][l] = worker[s][l])
    BY NextInv, WorkerSinks
  <2>3. Left(s, l)' \in 0 .. 10
    BY <2>2, RankTyped DEF Stopping, Left, Inv, TypeOK
  <2> QED
    BY <2>1, <2>2, <2>3 DEF Left
<1> QED
  BY <1>1, InvHolds, PTL DEF Spec

-----------------------------------------------------------------------------
(* The end of runSession *)

LEMMA RunnerGoes ==
  ASSUME NEW s \in Sessions
  PROVE  FairSpec /\ []NothingStuck => []<>~RunnerMustGo(s) \/ []<><<Runner(s)>>_vars
<1>1. RunnersGoOn => RunnerGoesOn(s)
  BY DEF RunnersGoOn
<1>2. NothingStuck => (RunnerMustGo(s) => ENABLED <<Runner(s)>>_vars)
  BY DEF NothingStuck
<1> QED
  BY <1>1, <1>2, PTL DEF FairSpec, Fairness, RunnerGoesOn

(* What others do leaves a runner alone, and a cancelled session gets no     *)
(* further error.                                                            *)
RunnerKept(s) == runner'[s] = runner[s] /\ (s \in cancelled => errored' \cap {s} \subseteq errored)
LEMMA OthersKeepRunner ==
  ASSUME Inv, [Next]_vars, NEW s \in Sessions, runner[s] \in {"consuming", "erring"}
  PROVE  RunnerKept(s) \/ Runner(s)
<1> USE DEF RunnerKept
<1>0. runner \in [Sessions -> RunnerStates] /\ s <= created
  BY Constants DEF Inv, TypeOK, Numbered
<1>1. CASE UNCHANGED vars
  BY <1>1 DEF vars
<1>2. CASE Connect \/ \E a \in Autos : AutoConnect(a)
  <2>1. errored' = errored /\ (runner' = runner \/ runner' = [runner EXCEPT ![created + 1] = "starting"])
    BY <1>2 DEF Connect, ConnectPlain, ConnectNode, ConnectBind, AutoConnect, AutoCheck, AutoStart,
       NewSession
  <2>2. s # created + 1
    BY <1>0, Constants DEF Inv, TypeOK
  <2> QED
    BY <1>0, <2>1, <2>2
<1>3. CASE Disconnect
  BY <1>3 DEF Disconnect
<1>4. ASSUME NEW t \in Sessions, t # s, ConsumeError(t) \/ FinishError(t) \/ FinishStopped(t)
      PROVE  RunnerKept(s)
  <2>1. errored' \subseteq errored /\ \E to : runner' = runner \/ runner' = [runner EXCEPT ![t] = to]
    BY <1>4 DEF ConsumeError, FinishError, FinishStopped
  <2> QED
    BY <1>0, <1>4, <2>1
<1>5. ASSUME NEW t \in Sessions, NEW l \in Listeners, Worker(t, l) \/ RegisterListener(t, l)
      PROVE  RunnerKept(s)
  <2>1. runner'[s] = runner[s]
    BY <1>5, WorkerTouches DEF Frame
  <2>2. errored' = errored \/ (errored' = errored \cup {t} /\ t \notin cancelled)
    BY <1>5 DEF Worker, WorkerStep, RegisterListener, WorkerExit, WorkerTop, ResolveStatic, ResolveNode,
       ResolveFails, WorkerUnplanned, PortBusy, StartFails, WorkerMarkFailed, WorkerSwitching,
       WorkerRefresh, BackoffOver, SelectRefresh, StartOk, CheckOk, CheckFails, ServeStopped, Unwind
  <2> QED
    BY <2>1, <2>2
<1>6. \A t \in Sessions : config[t].enabled \subseteq Listeners
  BY DEF Inv, TypeOK, ConfigType
<1> QED
  BY <1>1, <1>2, <1>3, <1>4, <1>5, <1>6 DEF Next, Runner

(* What the runner itself does, once it may end *)
LEMMA RunnerMoves ==
  ASSUME Inv, NEW s \in Sessions, Runner(s), s \in cancelled, runner[s] \in {"consuming", "erring"}
  PROVE  \/ runner'[s] = "done"
         \/ runner[s] = "consuming" /\ runner'[s] = "consuming" /\ s \in errored /\ s \notin errored'
BY DEF Runner, RegisterListener, ConsumeError, FinishError, FinishStopped, Inv, TypeOK

(* runSession of a cancelled session returns once all workers are started,   *)
(* whatever errors they have still sent.                                     *)
THEOREM RunnerEnds ==
  ASSUME NEW s \in Sessions
  PROVE  FairSpec /\ []NothingStuck =>
           (s \in cancelled /\ runner[s] \in {"consuming", "erring"} ~> runner[s] = "done")
<1> DEFINE Z == s \in cancelled /\ runner[s] \in {"consuming", "erring"}
           A == s \in cancelled /\ runner[s] \in {"consuming", "erring"} /\ s \in errored
           B == s \in cancelled /\ runner[s] \in {"consuming", "erring"} /\ s \notin errored
           D == runner[s] = "done"
           Goes == RunnerMustGo(s)
<1>1. Z => A \/ B
  OBVIOUS
<1>2. A \/ B => Goes
  BY DEF RunnerMustGo
<1>3. Inv /\ A /\ [Next]_vars => A' \/ B' \/ D'
  BY OthersKeepRunner, RunnerMoves, CancelledStays DEF RunnerKept
<1>4. Inv /\ A /\ <<Runner(s)>>_vars /\ [Next]_vars => B' \/ D'
  BY RunnerMoves, CancelledStays
<1>5. Inv /\ B /\ [Next]_vars => B' \/ D'
  BY OthersKeepRunner, RunnerMoves, CancelledStays DEF RunnerKept
<1>6. Inv /\ B /\ <<Runner(s)>>_vars => D'
  BY RunnerMoves
<1>7. FairSpec /\ []NothingStuck => []<>~Goes \/ []<><<Runner(s)>>_vars
  BY RunnerGoes
<1> HIDE DEF Z, A, B, D, Goes
<1>8. FairSpec /\ []NothingStuck => (Z ~> D)
  BY <1>1, <1>2, <1>3, <1>4, <1>5, <1>6, <1>7, FairIsSpec, PTL
<1> QED
  BY <1>8 DEF Z, D
-----------------------------------------------------------------------------
(* The gateway comes up again *)

LEMMA AutoGoes ==
  ASSUME NEW a \in Autos
  PROVE  FairSpec /\ []NothingStuck => []<>~AutoMustGo(a) \/ []<><<AutoConnect(a)>>_vars
<1>1. AutosGoOn => AutoGoesOn(a)
  BY DEF AutosGoOn
<1>2. NothingStuck => (AutoMustGo(a) => ENABLED <<AutoConnect(a)>>_vars)
  BY DEF NothingStuck
<1> QED
  BY <1>1, <1>2, PTL DEF FairSpec, Fairness, AutoGoesOn

Up == session \notin cancelled \cup {NoSession}

(* Whatever comes into place is new, and not cancelled.                      *)
LEMMA NewIsUp ==
  ASSUME Inv, Late, NEW n, NEW c, NewSession(n, c),
         cancelled' \subseteq cancelled \cup ({session} \ {NoSession})
  PROVE  Up'
<1>1. session' = created + 1 /\ created \in Nat /\ session <= created /\ session \in Nat
  BY Constants DEF NewSession, Inv, TypeOK, Numbered
<1>2. \A s \in cancelled' : s <= created
  BY <1>1 DEF Late
<1> QED
  BY <1>1, <1>2 DEF Up

LEMMA PlaceMoves ==
  ASSUME Inv, Late, [Next]_vars
  PROVE  session' \in {session, NoSession} \/ Up'
<1>1. CASE UNCHANGED vars
  BY <1>1 DEF vars
<1>2. CASE Connect
  <2>1. PICK n, c : NewSession(n, c)
    BY <1>2 DEF Connect, ConnectPlain, ConnectNode, ConnectBind
  <2> QED
    BY <1>2, <2>1, NewIsUp DEF Connect
<1>3. ASSUME NEW a \in Autos, AutoConnect(a) PROVE session' \in {session, NoSession} \/ Up'
  <2>1. CASE \E c \in Configs : NewSession(NoNode, c)
    BY <1>3, <2>1, NewIsUp DEF AutoConnect, AutoCheck, AutoStart
  <2>2. CASE session' = session
    BY <2>2
  <2> QED
    BY <1>3, <2>1, <2>2 DEF AutoConnect, AutoCheck, AutoStart
<1>4. CASE Disconnect \/ \E s \in Sessions : ConsumeError(s) \/ FinishError(s) \/ FinishStopped(s)
  BY <1>4 DEF Disconnect, ConsumeError, FinishError, FinishStopped, NoCurrent
<1>5. ASSUME NEW s \in Sessions, NEW l \in Listeners, Worker(s, l) \/ RegisterListener(s, l)
      PROVE  session' = session
  BY <1>5, WorkerTouches DEF Frame
<1>6. \A s \in Sessions : config[s].enabled \subseteq Listeners
  BY DEF Inv, TypeOK, ConfigType
<1> QED
  BY <1>1, <1>2, <1>3, <1>4, <1>5, <1>6 DEF Next, Runner

(* While nothing is in place an attempt goes on from its check to its start. *)
LEMMA AutoKept ==
  ASSUME Inv, [Next]_vars, NEW a \in Autos
  PROVE  auto'[a] = auto[a] \/ AutoConnect(a)
<1>0. auto \in [Autos -> {"idle", "checked"}]
  BY DEF Inv, TypeOK
<1>1. ASSUME NEW b \in Autos, b # a, AutoConnect(b) PROVE auto'[a] = auto[a]
  BY <1>0, <1>1 DEF AutoConnect, AutoCheck, AutoStart
<1>2. CASE UNCHANGED auto
  BY <1>2
<1>3. ASSUME NEW s \in Sessions, NEW l \in Listeners, Worker(s, l) \/ RegisterListener(s, l)
      PROVE  UNCHANGED auto
  BY <1>3, WorkerTouches DEF Frame
<1>4. \A s \in Sessions : config[s].enabled \subseteq Listeners
  BY DEF Inv, TypeOK, ConfigType
<1> QED
  BY <1>1, <1>2, <1>3, <1>4 DEF Next, Runner, vars, Connect, Disconnect, ConsumeError, FinishError,
     FinishStopped

LEMMA AutoMoves ==
  ASSUME Inv, Late, NEW a \in Autos, AutoConnect(a), session = NoSession
  PROVE  \/ auto[a] = "idle" /\ auto'[a] = "checked" /\ session' = NoSession
         \/ auto[a] = "checked" /\ Up'
<1>0. auto \in [Autos -> {"idle", "checked"}]
  BY DEF Inv, TypeOK
<1>1. CASE AutoCheck(a)
  BY <1>0, <1>1 DEF AutoCheck
<1>2. CASE AutoStart(a)
  <2>1. PICK c \in Configs : NewSession(NoNode, c)
    BY <1>2 DEF AutoStart
  <2> QED
    BY <1>2, <2>1, NewIsUp DEF AutoStart
<1> QED
  BY <1>1, <1>2 DEF AutoConnect

(* With auto-connect on and a configuration to connect with, the gateway     *)
(* does not stay down, for any number of sessions, clients and attempts.     *)
THEOREM GatewayReconnects ==
  ASSUME Autos # {}, \E c \in Configs : Connectable(c)
  PROVE  FairSpec /\ []NothingStuck => AutoReconnects
<1>1. SUFFICES ASSUME NEW s \in Sessions
               PROVE  FairSpec /\ []NothingStuck =>
                        (session \in ({s} \cap cancelled) \cup {NoSession} ~>
                           session \notin cancelled \cup {NoSession} \/ created = MaxSessions)
  BY DEF AutoReconnects
<1>2. PICK a \in Autos : TRUE
  OBVIOUS
<1> DEFINE P == session \in ({s} \cap cancelled) \cup {NoSession}
           G == session \notin cancelled \cup {NoSession} \/ created = MaxSessions
           E == session = s /\ s \in cancelled /\ runner[s] = "erring"
           D == session = NoSession /\ auto[a] = "idle"
           F == session = NoSession /\ auto[a] = "checked"
           Goes == RunnerMustGo(s)
           Tries == AutoMustGo(a)
<1>3. Inv /\ Late /\ P => E \/ D \/ F
  BY DEF Late, Inv, TypeOK
<1>4. E => Goes
  BY DEF RunnerMustGo
<1>5. Inv /\ (D \/ F) => G \/ Tries
  <2>1. Inv => created \in 0 .. MaxSessions /\ MaxSessions \in Nat
    BY Constants DEF Inv, TypeOK
  <2> QED
    BY <2>1 DEF AutoMustGo
<1>6. Up' => G'
  BY DEF Up
<1>7. Inv /\ Late /\ E /\ [Next]_vars => E' \/ D' \/ F' \/ G'
  <2> SUFFICES ASSUME Inv, Late, E, [Next]_vars PROVE E' \/ D' \/ F' \/ G'
    OBVIOUS
  <2>1. CASE session' = NoSession
    <3>1. auto'[a] \in {"idle", "checked"}
      BY NextInv DEF Inv, TypeOK
    <3> QED
      BY <2>1, <3>1
  <2>2. CASE session' = session
    <3>1. CASE RunnerKept(s)
      BY <2>2, <3>1, CancelledStays DEF RunnerKept
    <3>2. CASE Runner(s)
      BY <2>2, <3>2, Constants DEF Runner, RegisterListener, ConsumeError, FinishError, FinishStopped,
         IsCurrent, NoCurrent
    <3> QED
      BY <3>1, <3>2, OthersKeepRunner
  <2> QED
    BY <1>6, <2>1, <2>2, PlaceMoves
<1>8. Inv /\ Late /\ E /\ <<Runner(s)>>_vars /\ [Next]_vars => D' \/ F'
  <2> SUFFICES ASSUME Inv, Late, E, Runner(s), [Next]_vars PROVE D' \/ F'
    OBVIOUS
  <2>1. session' = NoSession
    BY DEF Runner, RegisterListener, ConsumeError, FinishError, FinishStopped, IsCurrent, NoCurrent
  <2>2. auto'[a] \in {"idle", "checked"}
    BY NextInv DEF Inv, TypeOK
  <2> QED
    BY <2>1, <2>2
<1>9. Inv /\ Late /\ D /\ [Next]_vars => D' \/ F' \/ G'
  BY <1>6, PlaceMoves, AutoKept, AutoMoves
<1>10. Inv /\ Late /\ D /\ <<AutoConnect(a)>>_vars => F'
  BY AutoMoves
<1>11. Inv /\ Late /\ F /\ [Next]_vars => F' \/ G'
  BY <1>6, PlaceMoves, AutoKept, AutoMoves
<1>12. Inv /\ Late /\ F /\ <<AutoConnect(a)>>_vars => G'
  BY <1>6, AutoMoves
<1>13. FairSpec /\ []NothingStuck => []<>~Goes \/ []<><<Runner(s)>>_vars
  BY RunnerGoes
<1>14. FairSpec /\ []NothingStuck => []<>~Tries \/ []<><<AutoConnect(a)>>_vars
  BY AutoGoes
<1> HIDE DEF P, G, E, D, F, Goes, Tries
<1>15. FairSpec /\ []NothingStuck => (P ~> G)
  BY <1>3, <1>4, <1>5, <1>7, <1>8, <1>9, <1>10, <1>11, <1>12, <1>13, <1>14, FairIsSpec, PTL
<1> QED
  BY <1>15 DEF P, G

-----------------------------------------------------------------------------
(* Sessions that are not in place                                           *)

Placed(s) == s <= created => s = session \/ s \in cancelled
DroppedIsCancelled ==
  \A s \in Sessions : Placed(s) /\ (runner[s] = "erring" => s \in cancelled)

LEMMA DroppedStep == Inv /\ DroppedIsCancelled /\ [Next]_vars => DroppedIsCancelled'
<1> SUFFICES ASSUME Inv, DroppedIsCancelled, [Next]_vars PROVE DroppedIsCancelled'
  OBVIOUS
<1> USE DEF DroppedIsCancelled, Placed
<1>1. created \in Nat /\ runner \in [Sessions -> RunnerStates]
  BY Constants DEF Inv, TypeOK
<1>2. ASSUME UNCHANGED <<session, created, runner>>, cancelled \subseteq cancelled'
      PROVE  DroppedIsCancelled'
  BY <1>2
<1>3. ASSUME NEW n, NEW c, NewSession(n, c),
             cancelled' = cancelled \cup ({session} \ {NoSession})
      PROVE  DroppedIsCancelled'
  <2>1. created' = created + 1 /\ session' = created'
        /\ runner' = [runner EXCEPT ![created'] = "starting"]
    BY <1>3 DEF NewSession
  <2>2. ASSUME NEW s \in Sessions PROVE Placed(s)' /\ (runner'[s] = "erring" => s \in cancelled')
    <3>1. CASE s = created'
      BY <1>1, <2>1, <3>1
    <3>2. CASE s # created'
      <4>1. runner'[s] = runner[s] /\ (s <= created' => s <= created)
        BY <1>1, <2>1, <3>2 DEF Sessions
      <4>2. s # NoSession
        BY Constants
      <4> QED
        BY <1>3, <4>1, <4>2
    <3> QED
      BY <3>1, <3>2
  <2> QED
    BY <2>2
<1>4. CASE Connect
  BY <1>3, <1>4 DEF Connect, ConnectPlain, ConnectNode, ConnectBind
<1>5. CASE Disconnect
  BY <1>5 DEF Disconnect, NoCurrent
<1>6. ASSUME NEW a \in Autos, AutoConnect(a) PROVE DroppedIsCancelled'
  <2>1. CASE AutoStart(a) /\ session = NoSession
    BY <1>3, <2>1 DEF AutoStart
  <2>2. CASE UNCHANGED <<sessionVars, runner, cancelled>>
    BY <1>2, <2>2 DEF sessionVars
  <2> QED
    BY <1>6, <2>1, <2>2 DEF AutoConnect, AutoCheck, AutoStart, sessionVars
<1>7. ASSUME NEW s \in Sessions, NEW l \in config[s].enabled, RegisterListener(s, l)
      PROVE  DroppedIsCancelled'
  <2>1. UNCHANGED <<session, created, cancelled>>
    BY <1>7 DEF RegisterListener, Update, sessionVars
  <2>2. \A t \in Sessions : runner'[t] = "erring" => runner[t] = "erring"
    BY <1>1, <1>7 DEF RegisterListener
  <2> QED
    BY <2>1, <2>2
<1>8. ASSUME NEW s \in Sessions, ConsumeError(s) \/ FinishError(s) \/ FinishStopped(s)
      PROVE  DroppedIsCancelled'
  <2>1. CASE ConsumeError(s)
    <3>1. UNCHANGED <<session, created>> /\ cancelled \subseteq cancelled' /\ s \in cancelled'
      BY <2>1 DEF ConsumeError, sessionVars
    <3>2. \A t \in Sessions \ {s} : runner'[t] = runner[t]
      BY <1>1, <2>1 DEF ConsumeError
    <3> QED
      BY <3>1, <3>2
  <2>2. CASE FinishError(s) \/ FinishStopped(s)
    <3>1. s \in cancelled /\ cancelled' = cancelled /\ created' = created
          /\ (session' = session \/ s = session)
      BY <2>2 DEF FinishError, FinishStopped, NoCurrent, IsCurrent, sessionVars
    <3>2. \A t \in Sessions : runner'[t] = "erring" => runner[t] = "erring"
      BY <1>1, <2>2 DEF FinishError, FinishStopped
    <3> QED
      BY <3>1, <3>2
  <2> QED
    BY <1>8, <2>1, <2>2
<1>9. ASSUME NEW s \in Sessions, NEW l \in Listeners, Worker(s, l) PROVE DroppedIsCancelled'
  BY <1>2, <1>9, WorkerFrames DEF Frame
<1>10. CASE UNCHANGED vars
  BY <1>2, <1>10 DEF vars, sessionVars
<1> QED
  BY <1>4, <1>5, <1>6, <1>7, <1>8, <1>9, <1>10 DEF Next, Runner

(* Every session that was made and is not in place any more is cancelled:   *)
(* replaced, disconnected or failed, none leaves a live context behind that *)
(* no call could reach.                                                     *)
THEOREM DroppedAreCancelled == Spec => []DroppedIsCancelled
<1>1. Init => DroppedIsCancelled
  <2> SUFFICES ASSUME Init, NEW s \in Sessions
               PROVE  Placed(s) /\ (runner[s] = "erring" => s \in cancelled)
    BY DEF DroppedIsCancelled
  <2>1. ~(s <= created) /\ runner[s] = "none"
    BY SessionAssumption DEF Init, Sessions, SessionAssumption
  <2> QED
    BY <2>1 DEF Placed
<1> QED
  BY <1>1, DroppedStep, InvHolds, PTL DEF Spec

(* ... so that its workers end and give their addresses up.                 *)
THEOREM DroppedDrain ==
  ASSUME NEW s \in Sessions, NEW l \in Listeners
  PROVE  FairSpec /\ []NothingStuck =>
           (s <= created /\ s # session /\ worker[s][l] # "off"
              ~> worker[s][l] = "done" /\ port[l] # s)
<1> DEFINE D == s <= created /\ s # session /\ worker[s][l] # "off"
           S == s \in cancelled /\ worker[s][l] # "off"
           R == worker[s][l] = "done" /\ port[l] # s
<1>1. DroppedIsCancelled /\ D => S
  BY DEF DroppedIsCancelled, Placed
<1>2. FairSpec /\ []NothingStuck => (S ~> R)
  BY WorkerDrains
<1>3. FairSpec => []DroppedIsCancelled
  BY DroppedAreCancelled, FairIsSpec, PTL
<1> HIDE DEF D, S, R
<1>4. FairSpec /\ []NothingStuck => (D ~> R)
  BY <1>1, <1>2, <1>3, PTL
<1> QED
  BY <1>4 DEF D, R
=============================================================================
