-------------------------- MODULE ProxyLeaseProofs --------------------------
(***************************************************************************)
(* Theorems about ProxyLease, for every set of requests, releasers and     *)
(* addresses and every window, limit, lease and bound that satisfies       *)
(* ProxyLeaseAssumption.                                                   *)
(***************************************************************************)
EXTENDS ProxyLease, TLAPS

USE DEF Nodes, NoNode, Never, Times

(* The locals a goroutine relies on are set before it uses them.  TypeOK is *)
(* inductive only together with this.                                       *)
LocalsSet ==
  /\ \A r \in Requests : Holding(r) \/ pc[r] = "marking" =>
       node[r] \in Nodes /\ exitIP[r] \in ExitIPs
  /\ \A p \in Releasers : rpc[p] # "idle" => target[p] \in Requests
  /\ jpc = "reinsert" => current \in Requests
TypeInv == TypeOK /\ LocalsSet

LEMMA Numbers ==
  /\ ReuseWindow \in Nat /\ InFlightLimit \in Nat /\ InFlightLimit < ReuseWindow
  /\ MaxTime \in Nat /\ CacheTTL \in Nat /\ Leases \subseteq Nat
  /\ NoIP \notin ExitIPs /\ NoRequest \notin Requests
BY ProxyLeaseAssumption DEF ProxyLeaseAssumption

LEMMA InitType == Init => TypeInv
<1> SUFFICES ASSUME Init PROVE TypeInv
  OBVIOUS
<1> USE DEF Init
<1>1. clock \in Times /\ stamp \in [Requests -> Times]
  BY Numbers
<1>2. proxyCache \in [Nodes -> Entries] /\ recentExitIPs \in [ExitIPs -> Times \cup {Never}]
  BY DEF Entries, NoEntry
<1>3. pc \in [Requests -> PcStates]
  BY DEF PcStates
<1>4. /\ node \in [Requests -> Nodes \cup {NoNode}]
      /\ exitIP \in [Requests -> ExitIPs \cup {NoIP}]
      /\ lease \in [Requests -> Nat]
      /\ handle \in [Requests -> {"none", "open", "closed"}]
  OBVIOUS
<1>5. /\ rpc \in [Releasers -> ReleaseStates]
      /\ target \in [Releasers -> Requests \cup {NoRequest}]
      /\ jpc \in JanitorStates
  BY DEF ReleaseStates, JanitorStates
<1> QED
  BY <1>1, <1>2, <1>3, <1>4, <1>5 DEF TypeInv, TypeOK, LocalsSet, Holding

(* What cleanupProxyStateLocked leaves has the types of what it found.     *)
LEMMA CleanType ==
  ASSUME TypeOK, NEW now \in Times
  PROVE  /\ CleanCache(now) \in [Nodes -> Entries]
         /\ CleanRecent(now) \in [ExitIPs -> Times \cup {Never}]
<1>1. NoEntry \in Entries
  BY DEF NoEntry, Entries
<1> QED
  BY <1>1 DEF TypeOK, CleanCache, CleanRecent

LEMMA CloseType ==
  ASSUME TypeOK, NEW r \in Requests, CloseOk(r) \/ CloseFails(r)
  PROVE  handle' \in [Requests -> {"none", "open", "closed"}] /\ closeErr' \subseteq Requests
BY DEF TypeOK, CloseOk, CloseFails

LEMMA AllocateType ==
  ASSUME TypeOK, LocalsSet, NEW r \in Requests, Allocate(r)
  PROVE  TypeOK'
<1> USE DEF TypeOK, Goto, poolVars, requestVars, tableVars, handleVars, releaseVars,
            janitorVars, PcStates
<1>1. CASE Arrive(r)
  BY <1>1 DEF Arrive
<1>2. CASE \E country \in Countries : Reserve(r, country)
  <2>1. PICK country \in Countries : Reserve(r, country)
    BY <1>2
  <2>2. stamp[r] \in Times
    OBVIOUS
  <2>3. PICK n \in Nodes, d \in Leases :
          /\ FirstEligible(n, country, stamp[r])
          /\ recentExitIPs' = [CleanRecent(stamp[r]) EXCEPT ![proxyCache[n].exitIP] = stamp[r]]
          /\ node' = [node EXCEPT ![r] = n]
          /\ exitIP' = [exitIP EXCEPT ![r] = proxyCache[n].exitIP]
          /\ lease' = [lease EXCEPT ![r] = d]
    BY <2>1 DEF Reserve
  <2>4. proxyCache[n].exitIP \in ExitIPs
    BY <2>3 DEF FirstEligible, Eligible, Entries
  <2>5. /\ CleanRecent(stamp[r]) \in [ExitIPs -> Times \cup {Never}]
        /\ CleanCache(stamp[r]) \in [Nodes -> Entries]
    BY <2>2, CleanType
  <2>6. d \in Nat
    BY Numbers
  <2> HIDE DEF PcStates, Nodes, Times, Never
  <2>7. /\ recentExitIPs' \in [ExitIPs -> Times \cup {Never}]
        /\ proxyCache' \in [Nodes -> Entries]
        /\ node' \in [Requests -> Nodes \cup {NoNode}]
        /\ exitIP' \in [Requests -> ExitIPs \cup {NoIP}]
        /\ lease' \in [Requests -> Nat]
    BY <2>1, <2>2, <2>3, <2>4, <2>5, <2>6 DEF Reserve
  <2>8. pc' \in [Requests -> PcStates]
    BY <2>1 DEF Reserve, PcStates
  <2> QED
    BY <2>1, <2>7, <2>8 DEF Reserve
<1>3. CASE \E country \in Countries : Refuse(r, country)
  <2>1. stamp[r] \in Times
    OBVIOUS
  <2>2. /\ CleanRecent(stamp[r]) \in [ExitIPs -> Times \cup {Never}]
        /\ CleanCache(stamp[r]) \in [Nodes -> Entries]
    BY <2>1, CleanType
  <2> QED
    BY <1>3, <2>2 DEF Refuse
<1>4. CASE WriteFails(r) \/ StartOk(r) \/ StartFails(r) \/ Commit(r) \/ CommitFails(r)
  BY <1>4 DEF WriteFails, StartOk, StartFails, Commit, CommitFails
<1>5. CASE AbortClose(r)
  BY <1>5, CloseType DEF AbortClose
<1>6. CASE ReleaseReserved(r)
  BY <1>6 DEF ReleaseReserved
<1>7. CASE MarkFailed(r)
  BY <1>7 DEF MarkFailed, LocalsSet
<1> QED
  BY <1>1, <1>2, <1>3, <1>4, <1>5, <1>6, <1>7 DEF Allocate

LEMMA ReleaseType ==
  ASSUME TypeOK, LocalsSet, NEW p \in Releasers, Release(p)
  PROVE  TypeOK'
<1> USE DEF TypeOK, LocalsSet, RGoto, poolVars, requestVars, tableVars, handleVars,
            releaseVars, janitorVars, ReleaseStates
<1>1. CASE \E r \in Requests : ReleaseMark(p, r)
  <2>1. PICK r \in Requests : ReleaseMark(p, r)
    BY <1>1
  <2>2. rpc' \in [Releasers -> ReleaseStates] /\ target' \in [Releasers -> Requests \cup {NoRequest}]
    BY <2>1 DEF ReleaseMark
  <2> QED
    BY <2>1, <2>2 DEF ReleaseMark
<1>2. CASE \E r \in Requests : ReleaseTurnedAway(p, r)
  <2>1. PICK r \in Requests : ReleaseTurnedAway(p, r)
    BY <1>2
  <2>2. rpc' \in [Releasers -> ReleaseStates] /\ target' \in [Releasers -> Requests \cup {NoRequest}]
    BY <2>1 DEF ReleaseTurnedAway
  <2> QED
    BY <2>1, <2>2 DEF ReleaseTurnedAway
<1>3. CASE ReleaseClose(p)
  <2>1. target[p] \in Requests
    BY <1>3 DEF ReleaseClose
  <2>2. handle' \in [Requests -> {"none", "open", "closed"}] /\ closeErr' \subseteq Requests
    BY <1>3, <2>1, CloseType DEF ReleaseClose
  <2> QED
    BY <1>3, <2>2 DEF ReleaseClose
<1>4. CASE ReleaseDrop(p)
  BY <1>4 DEF ReleaseDrop
<1>5. CASE ReleaseUnmark(p)
  BY <1>5 DEF ReleaseUnmark
<1> QED
  BY <1>1, <1>2, <1>3, <1>4, <1>5 DEF Release, ReleaseStep

LEMMA JanitorType ==
  ASSUME TypeOK, LocalsSet, Janitor \/ Shutdown
  PROVE  TypeOK'
<1> USE DEF TypeOK, LocalsSet, poolVars, requestVars, tableVars, handleVars,
            releaseVars, janitorVars, JanitorStates
<1>1. CASE JanitorSweep
  <2>1. /\ CleanRecent(clock) \in [ExitIPs -> Times \cup {Never}]
        /\ CleanCache(clock) \in [Nodes -> Entries]
    BY CleanType
  <2> QED
    BY <1>1, <2>1 DEF JanitorSweep, ToSweep
<1>2. CASE JanitorReinsert
  BY <1>2 DEF JanitorReinsert, NextExpired
<1>3. ASSUME NEW r \in Requests, JanitorClose(r)
      PROVE  TypeOK'
  BY <1>3, CloseType DEF JanitorClose, NextExpired
<1>4. ASSUME NEW r \in Requests, DrainClose(r)
      PROVE  TypeOK'
  BY <1>4, CloseType DEF DrainClose
<1>5. CASE Shutdown
  BY <1>5 DEF Shutdown
<1> QED
  BY <1>1, <1>2, <1>3, <1>4, <1>5 DEF Janitor

LEMMA PoolType ==
  ASSUME TypeOK, RefreshPick \/ RefreshStore \/ Tick \/ (\E n \in Nodes : ProbeNode(n))
  PROVE  TypeOK'
<1> USE DEF TypeOK, poolVars, requestVars, tableVars, handleVars, releaseVars, janitorVars
<1>1. CASE RefreshPick
  <2>1. /\ CleanRecent(clock) \in [ExitIPs -> Times \cup {Never}]
        /\ CleanCache(clock) \in [Nodes -> Entries]
    BY CleanType
  <2> QED
    BY <1>1, <2>1 DEF RefreshPick, Candidates, Unknown
<1>2. CASE RefreshStore
  <2>1. PICK outcome \in [refreshing -> Outcomes] :
          proxyCache' = [n \in Nodes |-> IF n \in refreshing THEN Entry(outcome[n], clock)
                                                             ELSE proxyCache[n]]
    BY <1>2 DEF RefreshStore
  <2>2. clock + CacheTTL \in Nat
    BY Numbers
  <2>3. \A o \in Outcomes : Entry(o, clock) \in Entries
    <3> SUFFICES ASSUME NEW o \in Outcomes PROVE Entry(o, clock) \in Entries
      OBVIOUS
    <3>1. o.exitIP \in ExitIPs \cup {NoIP} /\ o.usable \in BOOLEAN
      BY DEF Outcomes
    <3> QED
      BY <2>2, <3>1 DEF Entry, Entries
  <2>4. proxyCache' \in [Nodes -> Entries]
    BY <2>1, <2>3
  <2> QED
    BY <1>2, <2>4 DEF RefreshStore
<1>3. CASE Tick
  <2>1. clock' \in Times
    BY <1>3, Numbers DEF Tick
  <2> QED
    BY <1>3, <2>1 DEF Tick
<1>4. CASE \E n \in Nodes : ProbeNode(n)
  BY <1>4 DEF ProbeNode
<1> QED
  BY <1>1, <1>2, <1>3, <1>4

LEMMA LocalsStep ==
  ASSUME TypeInv, [Next]_vars
  PROVE  LocalsSet'
<1> USE DEF TypeInv, TypeOK, LocalsSet, Holding, Goto, RGoto, vars, poolVars, requestVars,
            tableVars, handleVars, releaseVars, janitorVars
<1>1. ASSUME NEW r \in Requests, Allocate(r)
      PROVE  LocalsSet'
  <2>1. ASSUME NEW country \in Countries, Reserve(r, country)
        PROVE  LocalsSet'
    <3>1. PICK n \in Nodes :
            /\ FirstEligible(n, country, stamp[r])
            /\ node' = [node EXCEPT ![r] = n]
            /\ exitIP' = [exitIP EXCEPT ![r] = proxyCache[n].exitIP]
      BY <2>1 DEF Reserve
    <3>2. proxyCache[n].exitIP \in ExitIPs
      BY <3>1 DEF FirstEligible, Eligible, Entries
    <3> QED
      BY <2>1, <3>1, <3>2 DEF Reserve
  <2>2. CASE \E country \in Countries : Refuse(r, country)
    BY <2>2 DEF Refuse
  <2>3. CASE Arrive(r) \/ WriteFails(r) \/ StartOk(r) \/ StartFails(r) \/ Commit(r)
               \/ CommitFails(r) \/ AbortClose(r)
    BY <2>3 DEF Arrive, WriteFails, StartOk, StartFails, Commit, CommitFails, AbortClose
  <2>4. CASE ReleaseReserved(r) \/ MarkFailed(r)
    BY <2>4 DEF ReleaseReserved, MarkFailed
  <2> QED
    BY <1>1, <2>1, <2>2, <2>3, <2>4 DEF Allocate
<1>2. ASSUME NEW p \in Releasers, Release(p)
      PROVE  LocalsSet'
  <2>1. ASSUME NEW r \in Requests, ReleaseMark(p, r) \/ ReleaseTurnedAway(p, r)
        PROVE  LocalsSet'
    BY <2>1 DEF ReleaseMark, ReleaseTurnedAway
  <2>2. CASE ReleaseClose(p) \/ ReleaseDrop(p) \/ ReleaseUnmark(p)
    BY <2>2 DEF ReleaseClose, ReleaseDrop, ReleaseUnmark
  <2> QED
    BY <1>2, <2>1, <2>2 DEF Release, ReleaseStep
<1>3. CASE Janitor \/ Shutdown
  BY <1>3 DEF Janitor, Shutdown, JanitorSweep, JanitorReinsert, JanitorClose, DrainClose, NextExpired
<1>4. CASE Tick \/ RefreshPick \/ RefreshStore \/ \E n \in Nodes : ProbeNode(n)
  BY <1>4 DEF Tick, RefreshPick, RefreshStore, ProbeNode
<1>5. CASE UNCHANGED vars
  BY <1>5
<1> QED
  BY <1>1, <1>2, <1>3, <1>4, <1>5 DEF Next

LEMMA TypeStep == TypeInv /\ [Next]_vars => TypeInv'
<1> SUFFICES ASSUME TypeInv, [Next]_vars PROVE TypeOK'
  BY LocalsStep DEF TypeInv
<1>1. CASE UNCHANGED vars
  BY <1>1 DEF TypeInv, TypeOK, vars, poolVars, requestVars, tableVars, handleVars,
              releaseVars, janitorVars
<1> QED
  BY <1>1, AllocateType, ReleaseType, JanitorType, PoolType DEF Next, TypeInv

(* Every reachable state of the allocation machinery is well typed.        *)
THEOREM TypeCorrect == Spec => []TypeOK
<1>1. TypeInv => TypeOK
  BY DEF TypeInv
<1> QED
  BY <1>1, InitType, TypeStep, PTL DEF Spec

-----------------------------------------------------------------------------
(* The reuse window *)

(* A request came before now, and one still in flight came recently.       *)
StampsOK ==
  \A r \in Requests :
    /\ stamp[r] <= clock
    /\ InFlight(r) => clock <= stamp[r] + InFlightLimit
WindowInv == TypeInv /\ StampsOK /\ OneHolderPerWindow /\ ReservationKept

LEMMA WindowInit == Init => WindowInv
<1> SUFFICES ASSUME Init PROVE StampsOK /\ OneHolderPerWindow /\ ReservationKept
  BY InitType DEF WindowInv
<1>1. \A r \in Requests : ~Holding(r) /\ ~InFlight(r)
  BY DEF Init, Holding, InFlight
<1>2. clock = 0 /\ \A r \in Requests : stamp[r] = 0
  BY DEF Init
<1> QED
  <2>1. StampsOK
    BY <1>1, <1>2 DEF StampsOK
  <2> QED
    BY <1>1, <2>1 DEF OneHolderPerWindow, ReservationKept

(* cleanupProxyStateLocked, with a "now" however old, keeps every           *)
(* reservation that is inside its window.                                   *)
LEMMA CleanKeeps ==
  ASSUME WindowInv, NEW now \in Times, now <= clock,
         NEW r \in Requests, Holding(r), InWindow(r)
  PROVE  CleanRecent(now)[exitIP[r]] = stamp[r]
<1>1. exitIP[r] \in ExitIPs /\ recentExitIPs[exitIP[r]] = stamp[r]
  BY DEF WindowInv, TypeInv, LocalsSet, ReservationKept
<1>2. ~(now - stamp[r] >= ReuseWindow)
  BY Numbers DEF WindowInv, TypeInv, TypeOK, InWindow
<1> QED
  BY <1>1, <1>2 DEF CleanRecent

(* A reserved address was held by nobody inside the window.                *)
LEMMA ReserveIsFree ==
  ASSUME WindowInv, NEW r \in Requests, NEW country \in Countries, Reserve(r, country),
         NEW q \in Requests, Holding(q), exitIP[q] = exitIP'[r]
  PROVE  ~InWindow(q)
<1> SUFFICES ASSUME InWindow(q) PROVE FALSE
  OBVIOUS
<1>1. PICK n \in Nodes :
        /\ ~Reserved(proxyCache[n].exitIP, stamp[r])
        /\ exitIP' = [exitIP EXCEPT ![r] = proxyCache[n].exitIP]
  BY DEF Reserve, FirstEligible, Eligible
<1>2. recentExitIPs[exitIP'[r]] = stamp[q]
  BY DEF WindowInv, ReservationKept
<1>3. exitIP'[r] = proxyCache[n].exitIP
  BY <1>1 DEF WindowInv, TypeInv, TypeOK
<1>4. ~(stamp[q] # Never /\ stamp[r] - stamp[q] < ReuseWindow)
  BY <1>1, <1>2, <1>3 DEF Reserved
<1>5. stamp[r] <= clock /\ clock < stamp[q] + ReuseWindow
  BY DEF WindowInv, StampsOK, InWindow
<1> QED
  BY <1>4, <1>5, Numbers DEF WindowInv, TypeInv, TypeOK

LEMMA ReserveWindow ==
  ASSUME WindowInv, NEW r \in Requests, NEW country \in Countries, Reserve(r, country)
  PROVE  StampsOK' /\ OneHolderPerWindow' /\ ReservationKept'
<1>1. /\ pc[r] = "arrived" /\ pc' = [pc EXCEPT ![r] = "starting"]
      /\ UNCHANGED <<clock, stamp>>
  BY DEF Reserve, Goto
<1>2. PICK n \in Nodes :
        /\ FirstEligible(n, country, stamp[r])
        /\ recentExitIPs' = [CleanRecent(stamp[r]) EXCEPT ![proxyCache[n].exitIP] = stamp[r]]
        /\ exitIP' = [exitIP EXCEPT ![r] = proxyCache[n].exitIP]
  BY DEF Reserve
<1>3. exitIP'[r] = proxyCache[n].exitIP /\ exitIP'[r] \in ExitIPs
  BY <1>2 DEF WindowInv, TypeInv, TypeOK, FirstEligible, Eligible, Entries
<1>4. \A q \in Requests \ {r} : /\ exitIP'[q] = exitIP[q]
                                /\ Holding(q)' => Holding(q)
                                /\ InWindow(q)' => InWindow(q)
  BY <1>1, <1>2 DEF WindowInv, TypeInv, TypeOK, Holding, InWindow
<1>5. \A q \in Requests \ {r} : Holding(q)' /\ InWindow(q)' => exitIP'[q] # exitIP'[r]
  BY <1>4, ReserveIsFree
<1>6. StampsOK'
  BY <1>1 DEF WindowInv, StampsOK, InFlight, TypeInv, TypeOK
<1>7. OneHolderPerWindow'
  BY <1>4, <1>5 DEF WindowInv, OneHolderPerWindow
<1>8. CleanRecent(stamp[r]) \in [ExitIPs -> Times \cup {Never}] /\ stamp[r] \in Times
  BY CleanType DEF WindowInv, TypeInv, TypeOK
<1>9. ASSUME NEW q \in Requests, Holding(q)', InWindow(q)'
      PROVE  recentExitIPs'[exitIP'[q]] = stamp'[q]
  <2>1. CASE q = r
    BY <2>1, <1>1, <1>2, <1>3, <1>8
  <2>2. CASE q # r
    <3>1. exitIP'[q] = exitIP[q] /\ exitIP[q] # exitIP'[r] /\ Holding(q) /\ InWindow(q)
      BY <2>2, <1>4, <1>5, <1>9
    <3>2. CleanRecent(stamp[r])[exitIP[q]] = stamp[q]
      BY <3>1, <1>8, CleanKeeps DEF WindowInv, StampsOK
    <3>3. exitIP[q] \in ExitIPs
      BY <3>1 DEF WindowInv, TypeInv, LocalsSet
    <3> QED
      BY <3>1, <3>2, <3>3, <1>1, <1>2, <1>3, <1>8
  <2> QED
    BY <2>1, <2>2
<1> QED
  BY <1>6, <1>7, <1>9 DEF ReservationKept

(* Deleting a reservation by address alone deletes no other request's.     *)
LEMMA ReleaseReservedWindow ==
  ASSUME WindowInv, NEW r \in Requests, ReleaseReserved(r)
  PROVE  StampsOK' /\ OneHolderPerWindow' /\ ReservationKept'
<1>1. /\ pc[r] \in {"abandoned", "startFailed"}
      /\ pc' \in {[pc EXCEPT ![r] = "refused"], [pc EXCEPT ![r] = "marking"]}
      /\ pc[r] = "abandoned" => pc' = [pc EXCEPT ![r] = "refused"]
      /\ UNCHANGED <<clock, stamp, exitIP>>
      /\ recentExitIPs' = [recentExitIPs EXCEPT ![exitIP[r]] = Never]
  BY DEF ReleaseReserved, Goto
<1>2. InFlight(r) /\ Holding(r) /\ ~Holding(r)'
  BY <1>1 DEF InFlight, Holding, WindowInv, TypeInv, TypeOK
<1>3. InWindow(r)
  BY <1>2, Numbers DEF InWindow, WindowInv, StampsOK, TypeInv, TypeOK
<1>4. \A q \in Requests : /\ Holding(q)' => q # r /\ Holding(q)
                          /\ InFlight(q)' => InFlight(q)
                          /\ InWindow(q)' => InWindow(q)
  BY <1>1, <1>2 DEF WindowInv, TypeInv, TypeOK, Holding, InFlight, InWindow
<1>5. \A q \in Requests : Holding(q)' /\ InWindow(q)' => exitIP[q] # exitIP[r]
  BY <1>2, <1>3, <1>4 DEF WindowInv, OneHolderPerWindow
<1>6. StampsOK'
  BY <1>1, <1>4 DEF WindowInv, StampsOK
<1>7. OneHolderPerWindow'
  BY <1>1, <1>4 DEF WindowInv, OneHolderPerWindow
<1>8. ReservationKept'
  BY <1>1, <1>4, <1>5 DEF WindowInv, ReservationKept, TypeInv, TypeOK
<1> QED
  BY <1>6, <1>7, <1>8

(* A step that adds no holder and at most sweeps the reservations.         *)
LEMMA QuietWindow ==
  ASSUME WindowInv, UNCHANGED <<clock, stamp, exitIP>>,
         \/ recentExitIPs' = recentExitIPs
         \/ \E now \in Times : now <= clock /\ recentExitIPs' = CleanRecent(now),
         \A r \in Requests : (Holding(r)' => Holding(r)) /\ (InFlight(r)' => InFlight(r))
  PROVE  StampsOK' /\ OneHolderPerWindow' /\ ReservationKept'
<1>1. \A r \in Requests : InWindow(r)' => InWindow(r)
  BY DEF InWindow
<1>2. StampsOK' /\ OneHolderPerWindow'
  BY <1>1 DEF WindowInv, StampsOK, OneHolderPerWindow
<1>3. ASSUME NEW r \in Requests, Holding(r)', InWindow(r)'
      PROVE  recentExitIPs'[exitIP'[r]] = stamp'[r]
  <2>1. Holding(r) /\ InWindow(r)
    BY <1>1, <1>3
  <2> QED
    BY <2>1, CleanKeeps DEF WindowInv, ReservationKept
<1> QED
  BY <1>2, <1>3 DEF ReservationKept

LEMMA WindowStep == WindowInv /\ [Next]_vars => WindowInv'
<1> SUFFICES ASSUME WindowInv, [Next]_vars PROVE StampsOK' /\ OneHolderPerWindow' /\ ReservationKept'
  BY TypeStep DEF WindowInv
<1> USE DEF vars, poolVars, requestVars, tableVars, handleVars, releaseVars, janitorVars
<1>0. TypeOK
  BY DEF WindowInv, TypeInv
<1>1. ASSUME NEW r \in Requests, Arrive(r)
      PROVE  StampsOK' /\ OneHolderPerWindow' /\ ReservationKept'
  <2>1. /\ pc[r] = "idle" /\ pc' = [pc EXCEPT ![r] = "arrived"]
        /\ stamp' = [stamp EXCEPT ![r] = clock]
        /\ UNCHANGED <<clock, exitIP, recentExitIPs>>
    BY <1>1 DEF Arrive, Goto
  <2>2. \A q \in Requests : Holding(q)' => Holding(q) /\ q # r /\ stamp'[q] = stamp[q]
    BY <2>1, <1>0 DEF TypeOK, Holding
  <2>3. StampsOK'
    BY <2>1, <1>0, Numbers DEF WindowInv, StampsOK, TypeOK, InFlight
  <2> QED
    BY <2>1, <2>2, <2>3 DEF WindowInv, OneHolderPerWindow, ReservationKept, InWindow
<1>2. ASSUME NEW r \in Requests,
             \/ \E country \in Countries : Refuse(r, country)
             \/ WriteFails(r) \/ StartOk(r) \/ StartFails(r)
             \/ Commit(r) \/ CommitFails(r) \/ AbortClose(r) \/ MarkFailed(r)
      PROVE  StampsOK' /\ OneHolderPerWindow' /\ ReservationKept'
  <2>1. \A q \in Requests : (Holding(q)' => Holding(q)) /\ (InFlight(q)' => InFlight(q))
    BY <1>2, <1>0 DEF TypeOK, Holding, InFlight, Goto, Refuse, WriteFails, StartOk, StartFails,
                      Commit, CommitFails, AbortClose, MarkFailed
  <2>2. stamp[r] \in Times /\ stamp[r] <= clock
    BY <1>0 DEF TypeOK, WindowInv, StampsOK
  <2>3. /\ UNCHANGED <<clock, stamp, exitIP>>
        /\ recentExitIPs' = recentExitIPs \/ recentExitIPs' = CleanRecent(stamp[r])
    BY <1>2 DEF Refuse, WriteFails, StartOk, StartFails, Commit, CommitFails, AbortClose, MarkFailed
  <2> QED
    BY <2>1, <2>2, <2>3, QuietWindow
<1>3. CASE \/ \E p \in Releasers : Release(p)
           \/ Janitor \/ Shutdown \/ RefreshPick \/ RefreshStore
           \/ (\E n \in Nodes : ProbeNode(n)) \/ UNCHANGED vars
  <2>1. /\ UNCHANGED <<clock, stamp, exitIP, pc>>
        /\ recentExitIPs' = recentExitIPs \/ recentExitIPs' = CleanRecent(clock)
    BY <1>3 DEF Release, ReleaseStep, ReleaseMark, ReleaseTurnedAway, ReleaseClose, ReleaseDrop, ReleaseUnmark,
                Janitor, JanitorSweep, JanitorReinsert, JanitorClose, DrainClose, Shutdown,
                RefreshPick, RefreshStore, ProbeNode
  <2>2. clock \in Times /\ clock <= clock
    BY <1>0 DEF TypeOK
  <2>3. \A q \in Requests : (Holding(q)' => Holding(q)) /\ (InFlight(q)' => InFlight(q))
    BY <2>1 DEF Holding, InFlight
  <2> QED
    BY <2>1, <2>2, <2>3, QuietWindow
<1>4. CASE Tick
  <2>1. /\ clock' = clock + 1
        /\ UNCHANGED <<pc, stamp, exitIP, recentExitIPs>>
        /\ \A r \in Requests : InFlight(r) => clock < stamp[r] + InFlightLimit
    BY <1>4 DEF Tick
  <2>2. \A r \in Requests : (Holding(r)' <=> Holding(r)) /\ (InWindow(r)' => InWindow(r))
    BY <2>1, <1>0, Numbers DEF TypeOK, Holding, InWindow
  <2>3. StampsOK'
    BY <2>1, <1>0, Numbers DEF WindowInv, StampsOK, TypeOK, InFlight
  <2> QED
    BY <2>1, <2>2, <2>3 DEF WindowInv, OneHolderPerWindow, ReservationKept
<1> QED
  BY <1>1, <1>2, <1>3, <1>4, ReserveWindow, ReleaseReservedWindow DEF Next, Allocate

LEMMA WindowHolds == Spec => []WindowInv
BY WindowInit, WindowStep, PTL DEF Spec

(* No exit address is held twice within the reuse window.                   *)
THEOREM ReuseWindowHolds == Spec => []OneHolderPerWindow
<1>1. WindowInv => OneHolderPerWindow
  BY DEF WindowInv
<1> QED
  BY <1>1, WindowHolds, PTL

(* Every reservation outlives all sweeps, failures and refusals of its      *)
(* window.                                                                  *)
THEOREM ReservationHolds == Spec => []ReservationKept
<1>1. WindowInv => ReservationKept
  BY DEF WindowInv
<1> QED
  BY <1>1, WindowHolds, PTL
=============================================================================
