----------------------------- MODULE ProxyLease -----------------------------
(***************************************************************************)
(* Dynamic proxies of the management server                                *)
(* (src/userspace-gateway/internal/manager/server.go): POST                *)
(* /api/proxy/allocate reserves an exit IP under the lock, starts an       *)
(* OpenVPN backend without it, and records the lease under the lock again; *)
(* POST /api/proxy/release, the janitor and the shutdown path close the    *)
(* backend.  Every locked section of the code is one action here, so is    *)
(* every call made between two of them.                                    *)
(*                                                                         *)
(* A request stands for one call of allocateProxy and for the allocation   *)
(* ID it creates.  The nodes are 1..N in the order of s.nodes.             *)
(***************************************************************************)
EXTENDS Integers, FiniteSets

CONSTANTS
  Requests,       \* calls of allocateProxy, and the allocation IDs they create
  Releasers,      \* clients that call releaseProxy
  N,              \* the nodes of s.nodes are 1..N, in list order
  ExitIPs, NoIP,  \* exit addresses a probe reports; NoIP: it reported none
  Countries,      \* country codes a request may ask for
  CountryOf,      \* the country the quality lookup reports for an exit address
  ReuseWindow,    \* proxyReuseWindow (60 min)
  InFlightLimit,  \* longest time from time.Now() to the end of allocateProxy
  Leases,         \* values of config.ProxyLeaseSeconds
  CacheTTL,       \* config.ProxyCacheTTL
  CacheBatch,     \* maxBatchNodeTests: nodes probed by one cache refresh
  MaxTime         \* bound: the clock stops here

Nodes == 1 .. N
NoNode == 0
Never == -1
NoRequest == "no request"
Times == 0 .. MaxTime

(* allocateProxy gives the backend DefaultHandshakeTimeout + 10 s (160 s)   *)
(* to start; the reuse window is an hour.                                   *)
ASSUME ProxyLeaseAssumption ==
  /\ N \in Nat
  /\ ReuseWindow \in Nat /\ InFlightLimit \in Nat /\ MaxTime \in Nat
  /\ InFlightLimit < ReuseWindow
  /\ Leases \subseteq Nat
  /\ CacheTTL \in Nat \ {0}
  /\ CacheBatch \in Nat
  /\ NoIP \notin ExitIPs
  /\ CountryOf \in [ExitIPs -> Countries]
  /\ NoRequest \notin Requests

VARIABLES
  clock,             \* time.Now()
  proxyCache,        \* s.proxyCache
  recentExitIPs,     \* s.recentExitIPs: when the address was last reserved
  failed,            \* s.failed
  refreshing,        \* nodes the running cache refresh probes
  pc, stamp, node, exitIP, lease,  \* allocateProxy: control and local variables
  handle,            \* dynamicProxyHandle: its listener, stack and tunnel
  closeErr,          \* handles whose Close has already returned an error
  dynamicProxies,    \* keys of s.dynamicProxies
  releasingProxies,  \* s.releasingProxies
  rpc, target,       \* releaseProxyAllocation: control and argument
  jpc, expired, current  \* proxyJanitorLoop: control, its slice, the element in hand

poolVars    == <<proxyCache, recentExitIPs, failed, refreshing>>
requestVars == <<pc, stamp, node, exitIP, lease>>
tableVars   == <<dynamicProxies, releasingProxies>>
handleVars  == <<handle, closeErr>>
releaseVars == <<rpc, target>>
janitorVars == <<jpc, expired, current>>
vars == <<clock, poolVars, requestVars, tableVars, handleVars, releaseVars, janitorVars>>

-----------------------------------------------------------------------------
NoEntry == [exitIP |-> NoIP, usable |-> FALSE, expires |-> 0]
Entries == [exitIP : ExitIPs \cup {NoIP}, usable : BOOLEAN, expires : Nat]

PcStates == {"idle", "arrived", "starting", "started", "startFailed", "aborting",
             "abandoned", "marking", "refused", "granted"}
ReleaseStates == {"idle", "closing", "dropping", "closed", "closeFailed",
                  "released", "gone", "busy", "error"}
JanitorStates == {"idle", "closing", "reinsert", "draining", "stopped"}

Init ==
  /\ clock = 0
  /\ proxyCache = [n \in Nodes |-> NoEntry]
  /\ recentExitIPs = [ip \in ExitIPs |-> Never]
  /\ failed = {} /\ refreshing = {}
  /\ pc = [r \in Requests |-> "idle"]
  /\ stamp = [r \in Requests |-> 0]
  /\ node = [r \in Requests |-> NoNode]
  /\ exitIP = [r \in Requests |-> NoIP]
  /\ lease = [r \in Requests |-> 0]
  /\ handle = [r \in Requests |-> "none"] /\ closeErr = {}
  /\ dynamicProxies = {} /\ releasingProxies = {}
  /\ rpc = [p \in Releasers |-> "idle"]
  /\ target = [p \in Releasers |-> NoRequest]
  /\ jpc = "idle" /\ expired = {} /\ current = NoRequest

-----------------------------------------------------------------------------
(* Helpers of the locked sections *)

Live(entry, now) == entry.expires > now

(* cleanupProxyStateLocked *)
CleanCache(now) ==
  [n \in Nodes |-> IF Live(proxyCache[n], now) THEN proxyCache[n] ELSE NoEntry]
(* Mutant: forgets a reservation one tick early *)
CleanRecentEarly(now) ==
  [ip \in ExitIPs |-> IF now - recentExitIPs[ip] >= ReuseWindow - 1 THEN Never ELSE recentExitIPs[ip]]
CleanRecent(now) ==
  [ip \in ExitIPs |-> IF recentExitIPs[ip] # Never /\ now - recentExitIPs[ip] >= ReuseWindow
                      THEN Never ELSE recentExitIPs[ip]]

(* Mutant: an address reserved after "now" was read counts as free *)
ReservedEarlier(ip, now) == now - recentExitIPs[ip] \in 1 .. ReuseWindow - 1
Reserved(ip, now) == recentExitIPs[ip] # Never /\ now - recentExitIPs[ip] < ReuseWindow

(* The loop body of reserveProxyCandidate: may this node serve the request? *)
Eligible(n, country, now) ==
  LET entry == proxyCache[n] IN
  /\ Live(entry, now) /\ entry.usable
  /\ entry.exitIP # NoIP /\ CountryOf[entry.exitIP] = country
  /\ ~Reserved(entry.exitIP, now)

FirstEligible(n, country, now) ==
  /\ Eligible(n, country, now)
  /\ \A m \in Nodes : Eligible(m, country, now) => n <= m

(* dynamicProxyAllocation.ExpiresAt counts from the arrival of the request *)
ExpiresAt(r) == stamp[r] + lease[r]
IsExpired(r) == ExpiresAt(r) <= clock

(* dynamicProxyHandle.Close: closes everything, or returns an error once;   *)
(* a second Close of a failed handle succeeds (net.ErrClosed is filtered).  *)
CloseOk(r) ==
  /\ handle' = [handle EXCEPT ![r] = "closed"]
  /\ UNCHANGED closeErr
CloseFails(r) ==
  /\ handle[r] = "open" /\ r \notin closeErr
  /\ closeErr' = closeErr \cup {r}
  /\ UNCHANGED handle

-----------------------------------------------------------------------------
(* allocateProxy *)

Goto(r, from, to) == pc[r] = from /\ pc' = [pc EXCEPT ![r] = to]

(* now := time.Now(), before the lock is asked for *)
Arrive(r) ==
  /\ Goto(r, "idle", "arrived")
  /\ stamp' = [stamp EXCEPT ![r] = clock]
  /\ UNCHANGED <<clock, poolVars, node, exitIP, lease, tableVars, handleVars, releaseVars, janitorVars>>

(* reserveProxyCandidate, a candidate found *)
Reserve(r, country) ==
  /\ Goto(r, "arrived", "starting")
  /\ \E n \in Nodes, d \in Leases :
       LET ip == proxyCache[n].exitIP IN
       /\ FirstEligible(n, country, stamp[r])
       /\ recentExitIPs' = [CleanRecent(stamp[r]) EXCEPT ![ip] = stamp[r]]
       /\ node' = [node EXCEPT ![r] = n]
       /\ exitIP' = [exitIP EXCEPT ![r] = ip]
       /\ lease' = [lease EXCEPT ![r] = d]
  /\ proxyCache' = CleanCache(stamp[r])
  /\ UNCHANGED <<clock, failed, refreshing, stamp, tableVars, handleVars, releaseVars, janitorVars>>

(* reserveProxyCandidate, one of its three errors *)
Refuse(r, country) ==
  /\ Goto(r, "arrived", "refused")
  /\ \A n \in Nodes : ~Eligible(n, country, stamp[r])
  /\ proxyCache' = CleanCache(stamp[r])
  /\ recentExitIPs' = CleanRecent(stamp[r])
  /\ UNCHANGED <<clock, failed, refreshing, stamp, node, exitIP, lease, tableVars, handleVars, releaseVars, janitorVars>>

(* writeNodeConfig fails *)
WriteFails(r) ==
  /\ Goto(r, "starting", "abandoned")
  /\ UNCHANGED <<clock, poolVars, stamp, node, exitIP, lease, tableVars, handleVars, releaseVars, janitorVars>>

(* startDynamicProxyBackend: on an error it has closed what it opened *)
StartOk(r) ==
  /\ Goto(r, "starting", "started")
  /\ handle' = [handle EXCEPT ![r] = "open"]
  /\ UNCHANGED <<clock, poolVars, stamp, node, exitIP, lease, tableVars, closeErr, releaseVars, janitorVars>>
StartFails(r) ==
  /\ Goto(r, "starting", "startFailed")
  /\ UNCHANGED <<clock, poolVars, stamp, node, exitIP, lease, tableVars, handleVars, releaseVars, janitorVars>>

(* commitProxyAllocation *)
Commit(r) ==
  /\ Goto(r, "started", "granted")
  /\ dynamicProxies' = dynamicProxies \cup {r}
  /\ UNCHANGED <<clock, poolVars, stamp, node, exitIP, lease, releasingProxies, handleVars, releaseVars, janitorVars>>
CommitFails(r) ==
  /\ Goto(r, "started", "aborting")
  /\ UNCHANGED <<clock, poolVars, stamp, node, exitIP, lease, tableVars, handleVars, releaseVars, janitorVars>>

(* _ = handle.Close() after a failed commit: the error is discarded *)
AbortClose(r) ==
  /\ Goto(r, "aborting", "abandoned")
  /\ CloseOk(r) \/ CloseFails(r)
  /\ UNCHANGED <<clock, poolVars, stamp, node, exitIP, lease, tableVars, releaseVars, janitorVars>>

(* releaseReservedExitIP: the entry is deleted by address, whoever made it *)
ReleaseReserved(r) ==
  /\ \/ Goto(r, "abandoned", "refused")
     \/ Goto(r, "startFailed", "marking")
  /\ recentExitIPs' = [recentExitIPs EXCEPT ![exitIP[r]] = Never]
  /\ UNCHANGED <<clock, proxyCache, failed, refreshing, stamp, node, exitIP, lease, tableVars, handleVars, releaseVars, janitorVars>>

(* markNodeProbeFailed after a failed start; the cache entry stays *)
MarkFailed(r) ==
  /\ Goto(r, "marking", "refused")
  /\ failed' = failed \cup {node[r]}
  /\ UNCHANGED <<clock, proxyCache, recentExitIPs, refreshing, stamp, node, exitIP, lease, tableVars, handleVars, releaseVars, janitorVars>>

Allocate(r) ==
  \/ Arrive(r)
  \/ \E country \in Countries : Reserve(r, country) \/ Refuse(r, country)
  \/ WriteFails(r) \/ StartOk(r) \/ StartFails(r)
  \/ Commit(r) \/ CommitFails(r) \/ AbortClose(r)
  \/ ReleaseReserved(r) \/ MarkFailed(r)

-----------------------------------------------------------------------------
(* releaseProxyAllocation; a client knows the ID of a granted lease only *)

RGoto(p, from, to) == rpc[p] = from /\ rpc' = [rpc EXCEPT ![p] = to]
Idle(p) == rpc[p] \in {"idle", "released", "gone", "busy", "error"}

(* the record is found and marked *)
ReleaseMark(p, r) ==
  /\ Idle(p) /\ pc[r] = "granted"
  /\ r \in dynamicProxies \ releasingProxies
  /\ releasingProxies' = releasingProxies \cup {r}
  /\ rpc' = [rpc EXCEPT ![p] = "closing"]
  /\ target' = [target EXCEPT ![p] = r]
  /\ UNCHANGED <<clock, poolVars, requestVars, dynamicProxies, handleVars, janitorVars>>

(* no record, or another release has marked it: answered at once *)
ReleaseTurnedAway(p, r) ==
  /\ Idle(p) /\ pc[r] = "granted"
  /\ r \notin dynamicProxies \/ r \in releasingProxies
  /\ rpc' = [rpc EXCEPT ![p] = IF r \in dynamicProxies THEN "busy" ELSE "gone"]
  /\ target' = [target EXCEPT ![p] = r]
  /\ UNCHANGED <<clock, poolVars, requestVars, tableVars, handleVars, janitorVars>>

(* allocation.Handle.Close(), without the lock *)
ReleaseClose(p) ==
  /\ \/ RGoto(p, "closing", "dropping") /\ CloseOk(target[p])
     \/ RGoto(p, "closing", "closeFailed") /\ CloseFails(target[p])
  /\ UNCHANGED <<clock, poolVars, requestVars, tableVars, target, janitorVars>>

ReleaseDrop(p) ==
  /\ RGoto(p, "dropping", "closed")
  /\ dynamicProxies' = dynamicProxies \ {target[p]}
  /\ UNCHANGED <<clock, poolVars, requestVars, releasingProxies, handleVars, target, janitorVars>>

(* Mutant: a release whose Close failed leaves its mark *)
ReleaseUnmarkOnSuccess(p) ==
  /\ \/ RGoto(p, "closed", "released") /\ releasingProxies' = releasingProxies \ {target[p]}
     \/ RGoto(p, "closeFailed", "error") /\ UNCHANGED releasingProxies
  /\ UNCHANGED <<clock, poolVars, requestVars, dynamicProxies, handleVars, target, janitorVars>>

(* the deferred delete(s.releasingProxies, allocationID) *)
ReleaseUnmark(p) ==
  /\ \/ RGoto(p, "closed", "released")
     \/ RGoto(p, "closeFailed", "error")
  /\ releasingProxies' = releasingProxies \ {target[p]}
  /\ UNCHANGED <<clock, poolVars, requestVars, dynamicProxies, handleVars, target, janitorVars>>

Active(p) == rpc[p] \in {"closing", "dropping", "closed", "closeFailed"}
ReleaseStep(p) == ReleaseClose(p) \/ ReleaseDrop(p) \/ ReleaseUnmark(p)
Release(p) ==
  \/ \E r \in Requests : ReleaseMark(p, r) \/ ReleaseTurnedAway(p, r)
  \/ ReleaseStep(p)

-----------------------------------------------------------------------------
(* proxyJanitorLoop *)

(* Mutant: sweeps a lease whose release is under way *)
ToSweepMarked == {r \in dynamicProxies : IsExpired(r)}

ToSweep == {r \in dynamicProxies \ releasingProxies : IsExpired(r)}

(* the locked part of cleanupExpiredProxyAllocations *)
JanitorSweep ==
  /\ jpc = "idle"
  /\ expired' = ToSweep
  /\ dynamicProxies' = dynamicProxies \ ToSweep
  /\ proxyCache' = CleanCache(clock)
  /\ recentExitIPs' = CleanRecent(clock)
  /\ jpc' = IF ToSweep = {} THEN "idle" ELSE "closing"
  /\ UNCHANGED <<clock, failed, refreshing, requestVars, releasingProxies, handleVars, releaseVars, current>>

(* the loop over the slice is done with r *)
NextExpired(r, after) ==
  /\ expired' = expired \ {r}
  /\ jpc' = IF expired \ {r} = {} THEN after ELSE "closing"

JanitorClose(r) ==
  /\ jpc = "closing" /\ r \in expired
  /\ \/ CloseOk(r) /\ NextExpired(r, "idle") /\ UNCHANGED current
     \/ CloseFails(r) /\ jpc' = "reinsert" /\ current' = r /\ UNCHANGED expired
  /\ UNCHANGED <<clock, poolVars, requestVars, tableVars, releaseVars>>

(* Mutants: the record whose Close failed is dropped, or looked up too late *)
JanitorForgets ==
  /\ jpc = "reinsert"
  /\ NextExpired(current, "idle")
  /\ current' = NoRequest
  /\ UNCHANGED <<clock, poolVars, requestVars, tableVars, handleVars, releaseVars>>
JanitorReinsertsReset ==
  /\ jpc = "reinsert"
  /\ current' = NoRequest
  /\ dynamicProxies' = dynamicProxies \cup {current'}
  /\ NextExpired(current, "idle")
  /\ UNCHANGED <<clock, poolVars, requestVars, releasingProxies, handleVars, releaseVars>>

(* the record goes back for the next round *)
JanitorReinsert ==
  /\ jpc = "reinsert"
  /\ dynamicProxies' = dynamicProxies \cup {current}
  /\ NextExpired(current, "idle")
  /\ current' = NoRequest
  /\ UNCHANGED <<clock, poolVars, requestVars, releasingProxies, handleVars, releaseVars>>

(* ctx.Done(): releaseAllDynamicProxies takes every record, marked or not *)
Shutdown ==
  /\ jpc = "idle"
  /\ expired' = dynamicProxies
  /\ dynamicProxies' = {}
  /\ jpc' = IF dynamicProxies = {} THEN "stopped" ELSE "draining"
  /\ UNCHANGED <<clock, poolVars, requestVars, releasingProxies, handleVars, releaseVars, current>>

(* ... and closes each, only logging an error *)
DrainClose(r) ==
  /\ jpc = "draining" /\ r \in expired
  /\ CloseOk(r) \/ CloseFails(r)
  /\ expired' = expired \ {r}
  /\ jpc' = IF expired = {r} THEN "stopped" ELSE "draining"
  /\ UNCHANGED <<clock, poolVars, requestVars, tableVars, releaseVars, current>>

Janitor ==
  \/ JanitorSweep \/ JanitorReinsert
  \/ \E r \in Requests : JanitorClose(r) \/ DrainClose(r)

-----------------------------------------------------------------------------
(* refreshProxyCache: the quality cache *)

(* proxyCacheRefreshCandidates: the first nodes neither failed nor cached *)
Unknown(now) == {n \in Nodes \ failed : ~Live(proxyCache[n], now)}
Candidates(now) ==
  {n \in Unknown(now) : Cardinality({m \in Unknown(now) : m < n}) < CacheBatch}

RefreshPick ==
  /\ refreshing = {}
  /\ refreshing' = Candidates(clock)
  /\ proxyCache' = CleanCache(clock)
  /\ recentExitIPs' = CleanRecent(clock)
  /\ UNCHANGED <<clock, failed, requestVars, tableVars, handleVars, releaseVars, janitorVars>>

(* updateProxyCacheFromProbeResults; usable: available and residential *)
Outcomes == {o \in [exitIP : ExitIPs \cup {NoIP}, usable : BOOLEAN] : o.usable <=> o.exitIP # NoIP}
Entry(outcome, now) ==
  [exitIP |-> outcome.exitIP, usable |-> outcome.usable, expires |-> now + CacheTTL]

RefreshStore ==
  /\ refreshing # {}
  /\ \E outcome \in [refreshing -> Outcomes] :
       proxyCache' = [n \in Nodes |-> IF n \in refreshing THEN Entry(outcome[n], clock)
                                                          ELSE proxyCache[n]]
  /\ refreshing' = {}
  /\ UNCHANGED <<clock, recentExitIPs, failed, requestVars, tableVars, handleVars, releaseVars, janitorVars>>

(* Any probe, of the cache refresh or of the test API, that ends *)
ProbeNode(n) ==
  /\ failed' \in {failed \cup {n}, failed \ {n}}
  /\ UNCHANGED <<clock, proxyCache, recentExitIPs, refreshing, requestVars, tableVars, handleVars, releaseVars, janitorVars>>

-----------------------------------------------------------------------------
InFlight(r) == pc[r] \notin {"idle", "refused", "granted"}

(* No call of allocateProxy outlives InFlightLimit *)
Tick ==
  /\ clock < MaxTime
  /\ \A r \in Requests : InFlight(r) => clock < stamp[r] + InFlightLimit
  /\ clock' = clock + 1
  /\ UNCHANGED <<poolVars, requestVars, tableVars, handleVars, releaseVars, janitorVars>>

Next ==
  \/ Tick
  \/ \E r \in Requests : Allocate(r)
  \/ \E p \in Releasers : Release(p)
  \/ Janitor \/ Shutdown
  \/ RefreshPick \/ RefreshStore
  \/ \E n \in Nodes : ProbeNode(n)

Spec == Init /\ [][Next]_vars

(* The goroutines that have begun keep running, the janitor's ticker keeps  *)
(* firing, and the clock goes on.                                           *)
Progress(r) ==
  \/ \E country \in Countries : Reserve(r, country) \/ Refuse(r, country)
  \/ StartOk(r) \/ StartFails(r) \/ Commit(r) \/ AbortClose(r)
  \/ ReleaseReserved(r) \/ MarkFailed(r)
RequestGoesOn(r) == WF_vars(Progress(r))
ReleaseGoesOn(p) == WF_vars(ReleaseStep(p))
RequestsGoOn == \A r \in Requests : RequestGoesOn(r)
ReleasesGoOn == \A p \in Releasers : ReleaseGoesOn(p)
Fairness == WF_vars(Tick) /\ WF_vars(Janitor) /\ RequestsGoOn /\ ReleasesGoOn
FairSpec == Spec /\ Fairness

-----------------------------------------------------------------------------
(* Every variable has its type. *)
TypeOK ==
  /\ clock \in Times
  /\ proxyCache \in [Nodes -> Entries]
  /\ recentExitIPs \in [ExitIPs -> Times \cup {Never}]
  /\ failed \subseteq Nodes /\ refreshing \subseteq Nodes
  /\ pc \in [Requests -> PcStates]
  /\ stamp \in [Requests -> Times]
  /\ node \in [Requests -> Nodes \cup {NoNode}]
  /\ exitIP \in [Requests -> ExitIPs \cup {NoIP}]
  /\ lease \in [Requests -> Nat]
  /\ handle \in [Requests -> {"none", "open", "closed"}]
  /\ closeErr \subseteq Requests
  /\ dynamicProxies \subseteq Requests /\ releasingProxies \subseteq Requests
  /\ rpc \in [Releasers -> ReleaseStates]
  /\ target \in [Releasers -> Requests \cup {NoRequest}]
  /\ jpc \in JanitorStates
  /\ expired \subseteq Requests
  /\ current \in Requests \cup {NoRequest}

(* The request has an exit address and has not given it back *)
Holding(r) == pc[r] \in {"starting", "started", "startFailed", "aborting", "abandoned", "granted"}
InWindow(r) == clock < stamp[r] + ReuseWindow

(* Within the reuse window no exit address is held by two requests, failed  *)
(* starts and their cleanup included: reserveProxyCandidate and             *)
(* releaseReservedExitIP, which deletes by address alone, never let a       *)
(* second request at an address that is taken.                              *)
OneHolderPerWindow ==
  \A r, q \in Requests :
    /\ r # q /\ Holding(r) /\ Holding(q) /\ exitIP[r] = exitIP[q]
    => ~(InWindow(r) /\ InWindow(q))

(* The reservation of a request survives the sweeps, refusals and failures  *)
(* of all others for the whole window, a released lease's too.              *)
ReservationKept ==
  \A r \in Requests : Holding(r) /\ InWindow(r) => recentExitIPs[exitIP[r]] = stamp[r]

(* An address is reserved again only when the window since the request that *)
(* got it last has passed, however old the "now" of the new request is.     *)
ReuseSpaced ==
  [][\A r, q \in Requests :
       /\ pc[r] = "arrived" /\ pc'[r] = "starting"
       /\ q # r /\ pc[q] = "granted" /\ exitIP[q] = exitIP'[r]
       => clock >= stamp[q] + ReuseWindow]_vars

(* A step may still reach the backend r *)
ClosingBy(p, r) == target[p] = r /\ rpc[p] = "closing"
Swept(r) == jpc \in {"closing", "reinsert", "draining"} /\ r \in expired
Stopping == jpc \in {"draining", "stopped"}

(* No backend is lost: an open listener and tunnel belongs to the request   *)
(* that started it, to a record, to a sweep in progress or to a release     *)
(* under way, except where the code throws the error of Close away.         *)
HandleOwned ==
  \A r \in Requests : handle[r] = "open" =>
    \/ pc[r] \in {"started", "aborting"}
    \/ r \in dynamicProxies \/ Swept(r)
    \/ \E p \in Releasers : ClosingBy(p, r)
    \/ r \in closeErr /\ (pc[r] \in {"abandoned", "refused"} \/ Stopping)

(* Until shutdown, Close of one backend is called by one goroutine at a     *)
(* time: releasingProxies keeps the janitor and other releases off.         *)
SingleCloser ==
  ~Stopping =>
    \A r \in Requests, p \in Releasers : ClosingBy(p, r) =>
      /\ ~Swept(r)
      /\ \A q \in Releasers : ClosingBy(q, r) => q = p

(* "released" is answered for a backend that is closed and whose record is  *)
(* gone for good: the janitor's reinsertion never brings it back.           *)
ReleasedIsClosed ==
  \A p \in Releasers : rpc[p] = "released" =>
    handle[target[p]] = "closed" /\ target[p] \notin dynamicProxies

(* A lease that has run out is closed, whoever is releasing it meanwhile    *)
(* and though one Close may fail, unless the server is shutting down.       *)
ExpiredIsClosed ==
  \A r \in Requests :
    (pc[r] = "granted" /\ IsExpired(r)) ~> (handle[r] = "closed" \/ Stopping)

RequestEnds(r) == InFlight(r) ~> pc[r] \in {"granted", "refused"}
ReleaseEnds(p, r) ==
  (Active(p) /\ target[p] = r) ~> (rpc[p] \in {"released", "error"} /\ r \notin releasingProxies)

(* Every call is answered, whatever fails in it: allocateProxy, and         *)
(* releaseProxyAllocation, which takes back with its answer the mark that   *)
(* keeps the janitor and other releases off the lease.                      *)
CallsEnd ==
  /\ \A r \in Requests : RequestEnds(r)
  /\ \A p \in Releasers, r \in Requests : ReleaseEnds(p, r)

(* The concrete system implements the ledger: a lease is granted when it is *)
(* committed and ends when its backend is closed.                           *)
Ledger == INSTANCE ExitIPLedger WITH
  now <- clock,
  lease <- [r \in Requests |->
              IF pc[r] = "granted"
              THEN [ip |-> exitIP[r], since |-> stamp[r], open |-> handle[r] = "open"]
              ELSE [ip |-> "none", since |-> 0, open |-> FALSE]]
(* No grant inside the window, no lease granted twice, none reopened.       *)
ImplementsLedger == Ledger!Spec
=============================================================================
