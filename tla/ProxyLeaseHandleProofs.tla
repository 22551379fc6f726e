----------------------- MODULE ProxyLeaseHandleProofs -----------------------
(***************************************************************************)
(* Theorems about the handles of the backends of ProxyLease: who owns an   *)
(* open one, who closes it, and that leases are those of ExitIPLedger.     *)
(***************************************************************************)
EXTENDS ProxyLeaseProofs, ProxyLeaseRestart

USE DEF vars, poolVars, requestVars, tableVars, handleVars, releaseVars, janitorVars, Goto, RGoto

-----------------------------------------------------------------------------
(* Records, sweeps and releases are about granted leases; a start that is   *)
(* to be committed is open.                                                 *)
GrantedOnly ==
  /\ \A r \in dynamicProxies \cup expired : pc[r] = "granted"
  /\ \A p \in Releasers : Active(p) \/ rpc[p] = "released" => pc[target[p]] = "granted"
  /\ \A r \in Requests : pc[r] = "started" => handle[r] = "open"

(* A release has its own mark.                                              *)
Marks ==
  \A p \in Releasers : Active(p) =>
    /\ target[p] \in releasingProxies
    /\ \A q \in Releasers : Active(q) /\ target[q] = target[p] => q = p

(* A lease has a record or is in the janitor's slice, never both; only the  *)
(* shutdown takes a record from a release that is not done with it.         *)
Slice ==
  /\ dynamicProxies \cap expired = {}
  /\ jpc \in {"idle", "stopped"} => expired = {}
  /\ jpc = "reinsert" => current \in expired
Records ==
  ~Stopping => \A p \in Releasers :
    rpc[p] \in {"closing", "dropping", "closeFailed"} => target[p] \in dynamicProxies

(* What a release says of its backend stays true.                           *)
SaidClosed ==
  \A p \in Releasers :
    /\ rpc[p] \in {"dropping", "closed", "released"} => handle[target[p]] = "closed"
    /\ rpc[p] \in {"closed", "released"} =>
         target[p] \notin dynamicProxies /\ (target[p] \notin expired \/ Stopping)

Tables == GrantedOnly /\ Marks /\ Slice /\ Records /\ SaidClosed
HandleInv == TypeInv /\ Tables /\ HandleOwned

(* At the start there is no backend and no record.                         *)
LEMMA InitHandles == Init => HandleInv
<1> SUFFICES ASSUME Init PROVE Tables /\ HandleOwned
  BY InitType DEF HandleInv
<1> QED
  BY DEF Init, Tables, GrantedOnly, Marks, Slice, Records, SaidClosed, Active, HandleOwned

(* allocateProxy: a started backend is recorded or closed by its request.  *)
LEMMA AllocateHandles ==
  ASSUME HandleInv, NEW r \in Requests, Allocate(r)
  PROVE  Tables' /\ HandleOwned'
<1> USE DEF HandleInv, TypeInv, TypeOK, LocalsSet
<1>1. \/ /\ Arrive(r) \/ (\E country \in Countries : Reserve(r, country) \/ Refuse(r, country))
            \/ WriteFails(r) \/ StartFails(r) \/ CommitFails(r) \/ ReleaseReserved(r) \/ MarkFailed(r)
         /\ UNCHANGED handleVars
      \/ StartOk(r) \/ Commit(r) \/ AbortClose(r)
  BY DEF Allocate, Arrive, Reserve, Refuse, WriteFails, StartFails, CommitFails, ReleaseReserved, MarkFailed
<1>2. UNCHANGED <<releasingProxies, rpc, target, jpc, expired, current>>
  BY DEF Allocate, Arrive, Reserve, Refuse, WriteFails, StartOk, StartFails, Commit, CommitFails,
     AbortClose, ReleaseReserved, MarkFailed
<1>3. pc[r] # "granted" /\ \A q \in Requests \ {r} : pc'[q] = pc[q] /\ handle'[q] = handle[q]
  BY DEF Allocate, Arrive, Reserve, Refuse, WriteFails, StartOk, StartFails, Commit, CommitFails,
     AbortClose, ReleaseReserved, MarkFailed, CloseOk, CloseFails
<1>4. dynamicProxies' = dynamicProxies \/ (dynamicProxies' = dynamicProxies \cup {r} /\ pc'[r] = "granted")
  BY DEF Allocate, Arrive, Reserve, Refuse, WriteFails, StartOk, StartFails, Commit, CommitFails,
     AbortClose, ReleaseReserved, MarkFailed
<1>5. r \notin dynamicProxies \cup expired /\ \A p \in Releasers : Active(p) \/ rpc[p] = "released" => target[p] # r
  BY <1>3 DEF Tables, GrantedOnly
<1>6. pc'[r] = "started" => handle'[r] = "open"
  BY DEF Allocate, Arrive, Reserve, Refuse, WriteFails, StartOk, StartFails, Commit, CommitFails,
     AbortClose, ReleaseReserved, MarkFailed
<1>7. GrantedOnly'
  BY <1>2, <1>3, <1>4, <1>5, <1>6 DEF Tables, GrantedOnly, Active
<1>8. Marks' /\ Slice'
  BY <1>2, <1>4, <1>5 DEF Tables, Marks, Slice, Active
<1>9. Records' /\ SaidClosed'
  BY <1>2, <1>3, <1>4, <1>5 DEF Tables, Records, SaidClosed, Active, Stopping
<1>10. HandleOwned'
  <2> SUFFICES ASSUME NEW q \in Requests, handle'[q] = "open"
               PROVE  (\/ pc[q] \in {"started", "aborting"}
                       \/ q \in dynamicProxies \/ Swept(q)
                       \/ \E p \in Releasers : ClosingBy(p, q)
                       \/ q \in closeErr /\ (pc[q] \in {"abandoned", "refused"} \/ Stopping))'
    BY DEF HandleOwned
  <2>1. CASE q # r
    <3>1. closeErr \subseteq closeErr'
      BY DEF Allocate, Arrive, Reserve, Refuse, WriteFails, StartOk, StartFails, Commit, CommitFails,
         AbortClose, ReleaseReserved, MarkFailed, CloseOk, CloseFails
    <3> QED
      BY <2>1, <3>1, <1>2, <1>3, <1>4 DEF HandleOwned, Swept, ClosingBy, Stopping
  <2>2. CASE q = r
    <3>1. CASE StartOk(r) \/ CommitFails(r)
      BY <2>2, <3>1 DEF StartOk, CommitFails
    <3>2. CASE Commit(r)
      BY <2>2, <3>2 DEF Commit
    <3>3. CASE AbortClose(r)
      BY <2>2, <3>3 DEF AbortClose, CloseOk, CloseFails
    <3>4. CASE ~(StartOk(r) \/ CommitFails(r) \/ Commit(r) \/ AbortClose(r))
      <4>1. UNCHANGED handleVars
        BY <1>1, <3>4
      <4>2. ~Swept(r) /\ \A p \in Releasers : ~ClosingBy(p, r)
        BY <1>5 DEF Swept, ClosingBy, Active
      <4>3. pc[r] \in {"started", "aborting"} \/ (r \in closeErr /\ (pc[r] \in {"abandoned", "refused"} \/ Stopping))
        BY <2>2, <4>1, <4>2, <1>5 DEF HandleOwned
      <4>4. pc[r] \notin {"started", "aborting", "refused"} /\ (pc[r] = "abandoned" => pc'[r] = "refused")
        BY <3>4 DEF Allocate, Arrive, Reserve, Refuse, WriteFails, StartFails, ReleaseReserved, MarkFailed
      <4> QED
        BY <2>2, <1>2, <4>1, <4>3, <4>4 DEF Stopping
    <3> QED
      BY <3>1, <3>2, <3>3, <3>4
  <2> QED
    BY <2>1, <2>2
<1> QED
  BY <1>7, <1>8, <1>9, <1>10 DEF Tables

(* releaseProxyAllocation keeps its mark until it is done with the record. *)
LEMMA ReleaseHandles ==
  ASSUME HandleInv, NEW p \in Releasers, Release(p)
  PROVE  Tables' /\ HandleOwned'
<1> USE DEF HandleInv, TypeInv, TypeOK, LocalsSet
<1>0. UNCHANGED <<pc, jpc, expired, current>>
  BY DEF Release, ReleaseStep, ReleaseMark, ReleaseTurnedAway, ReleaseClose, ReleaseDrop, ReleaseUnmark
<1>1. \A q \in Releasers \ {p} : rpc'[q] = rpc[q] /\ target'[q] = target[q]
  BY DEF Release, ReleaseStep, ReleaseMark, ReleaseTurnedAway, ReleaseClose, ReleaseDrop, ReleaseUnmark
<1>2. \A q \in Releasers \ {p} : ~(Active(p) /\ Active(q) /\ target[p] = target[q])
  BY DEF Tables, Marks
<1>3. ASSUME NEW r \in Requests, ReleaseMark(p, r) PROVE Tables' /\ HandleOwned'
  <2>1. /\ pc[r] = "granted" /\ r \in dynamicProxies /\ r \notin releasingProxies /\ ~Active(p)
        /\ releasingProxies' = releasingProxies \cup {r}
        /\ rpc'[p] = "closing" /\ target'[p] = r
        /\ UNCHANGED <<dynamicProxies, handle, closeErr>>
    BY <1>3 DEF ReleaseMark, Idle, Active
  <2>2. GrantedOnly' /\ Slice'
    BY <1>0, <1>1, <2>1 DEF Tables, GrantedOnly, Slice, Active
  <2>3. Marks'
    BY <1>1, <2>1 DEF Tables, Marks, Active
  <2>4. Records' /\ SaidClosed'
    BY <1>0, <1>1, <2>1 DEF Tables, Records, SaidClosed, Stopping
  <2>5. HandleOwned'
    BY <1>0, <1>1, <2>1 DEF HandleOwned, Swept, ClosingBy, Stopping, Active
  <2> QED
    BY <2>2, <2>3, <2>4, <2>5 DEF Tables
<1>4. ASSUME NEW r \in Requests, ReleaseTurnedAway(p, r) PROVE Tables' /\ HandleOwned'
  <2>1. /\ rpc'[p] \in {"busy", "gone"} /\ ~Active(p)
        /\ UNCHANGED <<releasingProxies, dynamicProxies, handle, closeErr>>
    BY <1>4 DEF ReleaseTurnedAway, Idle, Active
  <2>2. Tables'
    BY <1>0, <1>1, <2>1 DEF Tables, GrantedOnly, Marks, Slice, Records, SaidClosed, Active, Stopping
  <2>3. HandleOwned'
    BY <1>0, <1>1, <2>1 DEF HandleOwned, Swept, ClosingBy, Stopping, Active
  <2> QED
    BY <2>2, <2>3
<1>5. CASE ReleaseClose(p)
  <2>1. /\ rpc[p] = "closing" /\ Active(p) /\ target' = target /\ target[p] \in Requests
        /\ UNCHANGED <<releasingProxies, dynamicProxies>>
    BY <1>5 DEF ReleaseClose, Active
  <2>2. pc[target[p]] = "granted" /\ target[p] \in releasingProxies
    BY <2>1 DEF Tables, GrantedOnly, Marks
  <2>3. \/ rpc'[p] = "dropping" /\ handle' = [handle EXCEPT ![target[p]] = "closed"] /\ closeErr' = closeErr
        \/ rpc'[p] = "closeFailed" /\ handle' = handle /\ closeErr' = closeErr \cup {target[p]}
    BY <1>5 DEF ReleaseClose, CloseOk, CloseFails
  <2>4. GrantedOnly' /\ Marks' /\ Slice'
    BY <1>0, <1>1, <2>1, <2>2, <2>3 DEF Tables, GrantedOnly, Marks, Slice, Active
  <2>5. Records' /\ SaidClosed'
    BY <1>0, <1>1, <2>1, <2>3 DEF Tables, Records, SaidClosed, Stopping
  <2>6. HandleOwned'
    <3> SUFFICES ASSUME NEW q \in Requests, handle'[q] = "open"
                 PROVE  (\/ pc[q] \in {"started", "aborting"}
                         \/ q \in dynamicProxies \/ Swept(q)
                         \/ \E s \in Releasers : ClosingBy(s, q)
                         \/ q \in closeErr /\ (pc[q] \in {"abandoned", "refused"} \/ Stopping))'
      BY DEF HandleOwned
    <3>1. handle[q] = "open" /\ closeErr \subseteq closeErr'
      BY <2>1, <2>3
    <3>2. CASE q # target[p]
      BY <1>0, <1>1, <2>1, <3>1, <3>2 DEF HandleOwned, Swept, ClosingBy, Stopping
    <3>3. CASE q = target[p]
      <4>1. rpc'[p] = "closeFailed" /\ q \in closeErr'
        BY <2>1, <2>3, <3>3
      <4>2. ~Stopping => q \in dynamicProxies
        BY <2>1, <3>3 DEF Tables, Records
      <4> QED
        BY <1>0, <2>1, <4>1, <4>2 DEF Stopping
    <3> QED
      BY <3>2, <3>3
  <2> QED
    BY <2>4, <2>5, <2>6 DEF Tables
<1>6. CASE ReleaseDrop(p)
  <2>1. /\ rpc[p] = "dropping" /\ rpc'[p] = "closed" /\ Active(p) /\ target' = target
        /\ target[p] \in Requests /\ dynamicProxies' = dynamicProxies \ {target[p]}
        /\ UNCHANGED <<releasingProxies, handle, closeErr>>
    BY <1>6 DEF ReleaseDrop, Active
  <2>2. handle[target[p]] = "closed"
    BY <2>1 DEF Tables, SaidClosed
  <2>3. target[p] \notin expired \/ Stopping
    BY <2>1 DEF Tables, Records, Slice
  <2>4. GrantedOnly' /\ Marks' /\ Slice'
    BY <1>0, <1>1, <2>1 DEF Tables, GrantedOnly, Marks, Slice, Active
  <2>5. Records' /\ SaidClosed'
    <3>1. Records'
      BY <1>0, <1>1, <1>2, <2>1 DEF Tables, Records, Stopping, Active
    <3>2. SaidClosed'
      BY <1>0, <1>1, <2>1, <2>2, <2>3 DEF Tables, SaidClosed, Stopping
    <3> QED
      BY <3>1, <3>2
  <2>6. HandleOwned'
    BY <1>0, <1>1, <2>1, <2>2 DEF HandleOwned, Swept, ClosingBy, Stopping
  <2> QED
    BY <2>4, <2>5, <2>6 DEF Tables
<1>7. CASE ReleaseUnmark(p)
  <2>0. \/ rpc[p] = "closed" /\ rpc' = [rpc EXCEPT ![p] = "released"]
        \/ rpc[p] = "closeFailed" /\ rpc' = [rpc EXCEPT ![p] = "error"]
    BY <1>7 DEF ReleaseUnmark
  <2>1. /\ Active(p) /\ target' = target /\ target[p] \in Requests
        /\ \/ rpc[p] = "closed" /\ rpc'[p] = "released"
           \/ rpc[p] = "closeFailed" /\ rpc'[p] = "error"
        /\ releasingProxies' = releasingProxies \ {target[p]}
        /\ UNCHANGED <<dynamicProxies, handle, closeErr>>
    <3>1. target[p] \in Requests /\ Active(p)
      BY <2>0 DEF Active
    <3> QED
      BY <1>7, <2>0, <3>1 DEF ReleaseUnmark
  <2>2. GrantedOnly' /\ Slice'
    BY <1>0, <1>1, <2>1 DEF Tables, GrantedOnly, Slice, Active
  <2>3. Marks'
    BY <1>1, <1>2, <2>1 DEF Tables, Marks, Active
  <2>4. Records' /\ SaidClosed'
    BY <1>0, <1>1, <2>1 DEF Tables, Records, SaidClosed, Stopping
  <2>5. HandleOwned'
    BY <1>0, <1>1, <2>1 DEF HandleOwned, Swept, ClosingBy, Stopping, Active
  <2> QED
    BY <2>2, <2>3, <2>4, <2>5 DEF Tables
<1> QED
  BY <1>3, <1>4, <1>5, <1>6, <1>7 DEF Release, ReleaseStep

(* The janitor leaves marked records alone and puts back what it could not *)
(* close; the shutdown takes everything.                                   *)
LEMMA JanitorHandles ==
  ASSUME HandleInv, Janitor \/ Shutdown
  PROVE  Tables' /\ HandleOwned'
<1> USE DEF HandleInv, TypeInv, TypeOK, LocalsSet
<1>0. UNCHANGED <<pc, rpc, target, releasingProxies>>
  BY DEF Janitor, Shutdown, JanitorSweep, JanitorReinsert, JanitorClose, DrainClose
<1>1. CASE JanitorSweep
  <2>1. /\ jpc = "idle" /\ expired = {} /\ expired' = ToSweep
        /\ dynamicProxies' = dynamicProxies \ ToSweep
        /\ jpc' = IF ToSweep = {} THEN "idle" ELSE "closing"
        /\ ToSweep \subseteq dynamicProxies \ releasingProxies
        /\ UNCHANGED handleVars
    BY <1>1 DEF JanitorSweep, ToSweep, Tables, Slice
  <2>2. GrantedOnly' /\ Marks' /\ Slice'
    BY <1>0, <2>1 DEF Tables, GrantedOnly, Marks, Slice, Active
  <2>3. Records' /\ SaidClosed'
    BY <1>0, <2>1 DEF Tables, Marks, Records, SaidClosed, Stopping, Active
  <2>4. HandleOwned'
    BY <1>0, <2>1 DEF HandleOwned, Swept, ClosingBy, Stopping
  <2> QED
    BY <2>2, <2>3, <2>4 DEF Tables
<1>2. CASE JanitorReinsert
  <2>1. /\ jpc = "reinsert" /\ current \in Requests /\ current \in expired
        /\ expired' = expired \ {current} /\ dynamicProxies' = dynamicProxies \cup {current}
        /\ jpc' = IF expired \ {current} = {} THEN "idle" ELSE "closing"
        /\ UNCHANGED handleVars
    BY <1>2 DEF JanitorReinsert, NextExpired, Tables, Slice
  <2>2. GrantedOnly' /\ Marks' /\ Slice'
    BY <1>0, <2>1 DEF Tables, GrantedOnly, Marks, Slice, Active
  <2>3. Records' /\ SaidClosed'
    BY <1>0, <2>1 DEF Tables, Records, SaidClosed, Stopping, Active
  <2>4. HandleOwned'
    BY <1>0, <2>1 DEF HandleOwned, Swept, ClosingBy, Stopping
  <2> QED
    BY <2>2, <2>3, <2>4 DEF Tables
<1>3. ASSUME NEW r \in Requests, JanitorClose(r) PROVE Tables' /\ HandleOwned'
  <2>1. /\ jpc = "closing" /\ r \in expired /\ dynamicProxies' = dynamicProxies
        /\ \/ /\ handle' = [handle EXCEPT ![r] = "closed"] /\ closeErr' = closeErr
              /\ expired' = expired \ {r}
              /\ jpc' = IF expired \ {r} = {} THEN "idle" ELSE "closing"
           \/ /\ handle' = handle /\ closeErr' = closeErr \cup {r}
              /\ expired' = expired /\ jpc' = "reinsert" /\ current' = r
    BY <1>3 DEF JanitorClose, NextExpired, CloseOk, CloseFails
  <2>2. GrantedOnly' /\ Marks' /\ Slice'
    BY <1>0, <2>1 DEF Tables, GrantedOnly, Marks, Slice, Active
  <2>3. Records' /\ SaidClosed'
    BY <1>0, <2>1 DEF Tables, Records, SaidClosed, Stopping
  <2>4. HandleOwned'
    BY <1>0, <2>1 DEF HandleOwned, Swept, ClosingBy, Stopping
  <2> QED
    BY <2>2, <2>3, <2>4 DEF Tables
<1>4. ASSUME NEW r \in Requests, DrainClose(r) PROVE Tables' /\ HandleOwned'
  <2>1. /\ jpc = "draining" /\ r \in expired /\ dynamicProxies' = dynamicProxies
        /\ \/ handle' = [handle EXCEPT ![r] = "closed"] /\ closeErr' = closeErr
           \/ handle' = handle /\ closeErr' = closeErr \cup {r}
        /\ expired' = expired \ {r}
        /\ jpc' = IF expired = {r} THEN "stopped" ELSE "draining"
    BY <1>4 DEF DrainClose, CloseOk, CloseFails
  <2>2. GrantedOnly' /\ Marks' /\ Slice'
    BY <1>0, <2>1 DEF Tables, GrantedOnly, Marks, Slice, Active
  <2>3. Records' /\ SaidClosed'
    BY <1>0, <2>1 DEF Tables, Records, SaidClosed, Stopping
  <2>4. HandleOwned'
    BY <1>0, <2>1 DEF HandleOwned, Swept, ClosingBy, Stopping
  <2> QED
    BY <2>2, <2>3, <2>4 DEF Tables
<1>5. CASE Shutdown
  <2>1. /\ jpc = "idle" /\ expired' = dynamicProxies /\ dynamicProxies' = {}
        /\ jpc' = IF dynamicProxies = {} THEN "stopped" ELSE "draining"
        /\ UNCHANGED handleVars
    BY <1>5 DEF Shutdown
  <2>2. GrantedOnly' /\ Marks' /\ Slice'
    BY <1>0, <2>1 DEF Tables, GrantedOnly, Marks, Slice, Active
  <2>3. Records' /\ SaidClosed'
    BY <1>0, <2>1 DEF Tables, Records, SaidClosed, Stopping
  <2>4. HandleOwned'
    BY <1>0, <2>1 DEF HandleOwned, Swept, ClosingBy, Stopping
  <2> QED
    BY <2>2, <2>3, <2>4 DEF Tables
<1> QED
  BY <1>1, <1>2, <1>3, <1>4, <1>5 DEF Janitor

(* A step of the caches, the probes or the clock touches no backend.       *)
LEMMA QuietHandles ==
  ASSUME HandleInv,
         Tick \/ RefreshPick \/ RefreshStore \/ (\E n \in Nodes : ProbeNode(n)) \/ UNCHANGED vars
  PROVE  Tables' /\ HandleOwned'
<1>1. UNCHANGED <<pc, dynamicProxies, releasingProxies, handle, closeErr, rpc, target, jpc, expired, current>>
  BY DEF Tick, RefreshPick, RefreshStore, ProbeNode
<1> QED
  BY <1>1 DEF HandleInv, Tables, GrantedOnly, Marks, Slice, Records, SaidClosed, Active, HandleOwned,
              Swept, ClosingBy, Stopping

(* HandleInv is inductive.                                                 *)
LEMMA HandleStep == HandleInv /\ [Next]_vars => HandleInv'
<1> SUFFICES ASSUME HandleInv, [Next]_vars PROVE Tables' /\ HandleOwned'
  BY TypeStep DEF HandleInv
<1> QED
  BY AllocateHandles, ReleaseHandles, JanitorHandles, QuietHandles DEF Next

(* No backend is lost: until Close has thrown its error away or the server  *)
(* stops, an open one is owned by a request, a record, a sweep or a release.*)
THEOREM NoBackendLost == Spec => []HandleOwned
<1>1. HandleInv => HandleOwned
  BY DEF HandleInv
<1> QED
  BY <1>1, InitHandles, HandleStep, PTL DEF Spec

(* Until shutdown a backend is closed by one goroutine at a time.           *)
THEOREM OneCloser == Spec => []SingleCloser
<1>1. HandleInv => SingleCloser
  BY DEF HandleInv, Tables, Marks, Slice, Records, SingleCloser, ClosingBy, Swept, Stopping, Active
<1> QED
  BY <1>1, InitHandles, HandleStep, PTL DEF Spec

(* "released" is answered for good.                                         *)
THEOREM ReleasedStaysClosed == Spec => []ReleasedIsClosed
<1>1. HandleInv => ReleasedIsClosed
  BY DEF HandleInv, Tables, SaidClosed, ReleasedIsClosed
<1> QED
  BY <1>1, InitHandles, HandleStep, PTL DEF Spec

-----------------------------------------------------------------------------
(* Leases are those of the ledger *)

LeaseInv == WindowInv /\ HandleInv
Granted(r) == pc[r] = "granted"
LeaseOf(r) ==
  IF Granted(r) THEN [ip |-> exitIP[r], since |-> stamp[r], open |-> handle[r] = "open"]
                ELSE [ip |-> "none", since |-> 0, open |-> FALSE]
LeaseTable == [r \in Requests |-> LeaseOf(r)]

(* An address is reserved again only when the window since its last lease   *)
(* has passed.                                                              *)
LEMMA ReserveSpaced ==
  ASSUME WindowInv, [Next]_vars, NEW r \in Requests, NEW q \in Requests,
         pc[r] = "arrived", pc'[r] = "starting",
         q # r, pc[q] = "granted", exitIP[q] = exitIP'[r]
  PROVE  clock >= stamp[q] + ReuseWindow
<1>0. TypeOK
  BY DEF WindowInv, TypeInv
<1>1. PICK s \in Requests : Allocate(s)
  BY DEF Next, Tick, Release, ReleaseStep, ReleaseMark, ReleaseTurnedAway, ReleaseClose, ReleaseDrop, ReleaseUnmark,
     Janitor, JanitorSweep, JanitorReinsert, JanitorClose, DrainClose, Shutdown,
     RefreshPick, RefreshStore, ProbeNode
<1>2. \E country \in Countries : Reserve(r, country)
  BY <1>0, <1>1 DEF TypeOK, Allocate, Arrive, Reserve, Refuse, WriteFails, StartOk, StartFails, Commit,
     CommitFails, AbortClose, ReleaseReserved, MarkFailed
<1>3. ~InWindow(q)
  BY <1>2, ReserveIsFree DEF Holding
<1> QED
  BY <1>0, <1>3, Numbers DEF InWindow, TypeOK, Times

(* reserveProxyCandidate never hands out an address inside the window that *)
(* began when it was last leased, however late it runs.                    *)
THEOREM ReuseIsSpaced == Spec => ReuseSpaced
<1>1. ASSUME WindowInv, [Next]_vars
      PROVE  [\A r, q \in Requests :
                /\ pc[r] = "arrived" /\ pc'[r] = "starting"
                /\ q # r /\ pc[q] = "granted" /\ exitIP[q] = exitIP'[r]
                => clock >= stamp[q] + ReuseWindow]_vars
  BY <1>1, ReserveSpaced
<1> QED
  BY <1>1, WindowInit, WindowStep, PTL DEF Spec, ReuseSpaced

(* Steps that grant nothing and close no granted lease.                     *)
LEMMA LedgerQuiet ==
  ASSUME \A r \in Requests : /\ Granted(r)' <=> Granted(r)
                             /\ Granted(r) => UNCHANGED <<exitIP[r], stamp[r], handle[r]>>
  PROVE  UNCHANGED LeaseTable
BY DEF LeaseTable, LeaseOf

(* commitProxyAllocation grants an address that is out of use.             *)
LEMMA LedgerCommit ==
  ASSUME LeaseInv, NEW r \in Requests, Commit(r)
  PROVE  Ledger!Grant(r)
<1> USE DEF LeaseInv, WindowInv, TypeInv, TypeOK
<1>1. /\ pc[r] = "started" /\ pc' = [pc EXCEPT ![r] = "granted"]
      /\ handle[r] = "open" /\ exitIP[r] \in ExitIPs
      /\ UNCHANGED <<clock, exitIP, stamp, handle>>
  BY DEF Commit, HandleInv, Tables, GrantedOnly, LocalsSet, Holding
<1>2. InWindow(r) /\ stamp[r] \in 0 .. clock
  BY <1>1, Numbers DEF StampsOK, InFlight, InWindow, Times
<1>3. ASSUME NEW q \in Requests, Granted(q), exitIP[q] = exitIP[r]
      PROVE  clock >= stamp[q] + ReuseWindow
  <2>1. ~InWindow(q)
    BY <1>1, <1>2, <1>3 DEF Granted, Holding, OneHolderPerWindow
  <2> QED
    BY <2>1, Numbers DEF InWindow, Times
<1>4. LeaseTable[r] = Ledger!None
  BY <1>1 DEF LeaseTable, LeaseOf, Granted, Ledger!None
<1>5. \A q \in Requests : LeaseTable[q] # Ledger!None => Granted(q) /\ LeaseTable[q].ip = exitIP[q]
                                                         /\ LeaseTable[q].since = stamp[q]
  BY DEF LeaseTable, LeaseOf, Ledger!None
<1>6. LeaseTable' = [LeaseTable EXCEPT ![r] = [ip |-> exitIP[r], since |-> stamp[r], open |-> TRUE]]
  BY <1>1 DEF LeaseTable, LeaseOf, Granted
<1>7. \A q \in Requests : LeaseTable[q] # Ledger!None /\ LeaseTable[q].ip = exitIP[r]
                          => clock >= LeaseTable[q].since + ReuseWindow
  BY <1>3, <1>5
<1> QED
  BY <1>1, <1>2, <1>4, <1>6, <1>7
     DEF Ledger!Grant, Ledger!Granted, Ledger!OutOfUse, LeaseTable, LeaseOf, Granted

(* Closing a backend ends its lease, if it is granted and still open.       *)
LEMMA LedgerClose ==
  ASSUME LeaseInv, NEW r \in Requests, CloseOk(r) \/ CloseFails(r),
         UNCHANGED <<clock, pc, exitIP, stamp>>
  PROVE  Ledger!End(r) \/ UNCHANGED LeaseTable
<1> USE DEF LeaseInv, WindowInv, TypeInv, TypeOK
<1>1. CASE CloseOk(r) /\ Granted(r) /\ handle[r] = "open"
  <2>1. LeaseTable[r] = [ip |-> exitIP[r], since |-> stamp[r], open |-> TRUE]
    BY <1>1 DEF LeaseTable, LeaseOf
  <2>2. LeaseTable' = [LeaseTable EXCEPT ![r] = [ip |-> exitIP[r], since |-> stamp[r], open |-> FALSE]]
    BY <1>1 DEF LeaseTable, LeaseOf, Granted, CloseOk
  <2>3. LeaseTable' = [LeaseTable EXCEPT ![r] = [ip |-> @.ip, since |-> @.since, open |-> FALSE]]
    BY <2>1, <2>2
  <2>4. LeaseTable[r] # Ledger!None /\ LeaseTable[r].open
    BY <2>1 DEF Ledger!None
  <2> QED
    BY <2>3, <2>4 DEF Ledger!End, Ledger!Granted, LeaseTable, LeaseOf, Granted
<1>2. CASE ~(CloseOk(r) /\ Granted(r) /\ handle[r] = "open")
  <2>1. \A q \in Requests : Granted(q) => (handle'[q] = "open" <=> handle[q] = "open")
    BY <1>2 DEF CloseOk, CloseFails
  <2> QED
    BY <2>1 DEF LeaseTable, LeaseOf, Granted
<1> QED
  BY <1>1, <1>2

(* Every step is a step of the ledger or leaves it as it is.               *)
LEMMA LedgerStep ==
  ASSUME LeaseInv, [Next]_vars
  PROVE  Ledger!Next \/ UNCHANGED <<clock, LeaseTable>>
<1> USE DEF LeaseInv, WindowInv, TypeInv, TypeOK
<1>1. ASSUME NEW r \in Requests, Allocate(r)
      PROVE  Ledger!Next \/ UNCHANGED <<clock, LeaseTable>>
  <2>1. CASE Commit(r)
    BY <2>1, LedgerCommit DEF Ledger!Next
  <2>2. CASE ~Commit(r)
    <3>1. /\ clock' = clock /\ pc[r] # "granted" /\ pc'[r] # "granted"
          /\ \A q \in Requests \ {r} : UNCHANGED <<pc[q], exitIP[q], stamp[q], handle[q]>>
      BY <1>1, <2>2 DEF Allocate, Arrive, Reserve, Refuse, WriteFails, StartOk, StartFails,
         CommitFails, AbortClose, ReleaseReserved, MarkFailed, CloseOk, CloseFails
    <3>2. \A q \in Requests : /\ Granted(q)' <=> Granted(q)
                              /\ Granted(q) => UNCHANGED <<exitIP[q], stamp[q], handle[q]>>
      BY <3>1 DEF Granted
    <3> QED
      BY <3>1, <3>2, LedgerQuiet
  <2> QED
    BY <2>1, <2>2
<1>2. ASSUME NEW r \in Requests,
             \/ \E p \in Releasers : ReleaseClose(p) /\ r = target[p]
             \/ JanitorClose(r) \/ DrainClose(r)
      PROVE  Ledger!Next \/ UNCHANGED <<clock, LeaseTable>>
  <2>1. UNCHANGED <<clock, pc, exitIP, stamp>> /\ (CloseOk(r) \/ CloseFails(r))
    BY <1>2 DEF ReleaseClose, JanitorClose, DrainClose
  <2> QED
    BY <2>1, LedgerClose DEF Ledger!Next
<1>3. CASE \/ \E p \in Releasers : Release(p) /\ ~ReleaseClose(p)
           \/ JanitorSweep \/ JanitorReinsert \/ Shutdown \/ RefreshPick \/ RefreshStore
           \/ (\E n \in Nodes : ProbeNode(n)) \/ UNCHANGED vars
  <2>1. UNCHANGED <<clock, pc, exitIP, stamp, handle>>
    BY <1>3 DEF Release, ReleaseStep, ReleaseMark, ReleaseTurnedAway, ReleaseDrop, ReleaseUnmark,
       JanitorSweep, JanitorReinsert, Shutdown, RefreshPick, RefreshStore, ProbeNode
  <2> QED
    BY <2>1, LedgerQuiet DEF Granted
<1>4. CASE Tick
  <2>1. clock' = clock + 1 /\ UNCHANGED <<pc, exitIP, stamp, handle>>
    BY <1>4 DEF Tick
  <2>2. UNCHANGED LeaseTable
    BY <2>1, LedgerQuiet DEF Granted
  <2> QED
    BY <2>1, <2>2 DEF Ledger!Next, Ledger!Pass, LeaseTable, LeaseOf, Granted
<1>5. \A p \in Releasers : ReleaseClose(p) => Release(p) /\ target[p] \in Requests
  BY DEF Release, ReleaseStep, ReleaseClose, LocalsSet
<1>6. ASSUME NEW p \in Releasers, Release(p)
      PROVE  Ledger!Next \/ UNCHANGED <<clock, LeaseTable>>
  BY <1>2, <1>3, <1>5, <1>6
<1>7. CASE Janitor
  BY <1>2, <1>3, <1>7 DEF Janitor
<1> QED
  BY <1>1, <1>3, <1>4, <1>6, <1>7 DEF Next

(* Every behaviour of the allocation machinery is one of the ledger.        *)
THEOREM LedgerImplemented == Spec => ImplementsLedger
<1>1. Init => Ledger!Init
  BY DEF Init, Ledger!Init, Ledger!None
<1>2. LeaseInv /\ [Next]_vars => [Ledger!Next]_<<clock, LeaseTable>>
  BY LedgerStep
<1>3. Init => LeaseInv
  BY WindowInit, InitHandles DEF LeaseInv
<1>4. LeaseInv /\ [Next]_vars => LeaseInv'
  BY WindowStep, HandleStep DEF LeaseInv
<1>5. LeaseTable = [r \in Requests |->
              IF pc[r] = "granted"
              THEN [ip |-> exitIP[r], since |-> stamp[r], open |-> handle[r] = "open"]
              ELSE [ip |-> "none", since |-> 0, open |-> FALSE]]
  BY DEF LeaseTable, LeaseOf, Granted
<1> QED
  BY <1>1, <1>2, <1>3, <1>4, PTL DEF Spec, ImplementsLedger, Ledger!Spec, LeaseTable, LeaseOf, Granted

-----------------------------------------------------------------------------
(* What a restart costs                                                     *)

LEMMA RestartHandles == HandleInv /\ Restart => HandleInv'
<1> SUFFICES ASSUME HandleInv, Restart PROVE HandleInv'
  OBVIOUS
<1> USE DEF HandleInv, TypeInv, TypeOK, Restart
<1>1. \A r \in Requests : (pc'[r] = pc[r] /\ ~InFlight(r)) \/ pc'[r] = "refused"
  BY DEF InFlight
<1>2. \A r \in Requests : handle'[r] # "open"
  OBVIOUS
<1>3. TypeOK'
  <2>1. pc' \in [Requests -> PcStates]
    BY DEF PcStates
  <2>2. handle' \in [Requests -> {"none", "open", "closed"}]
    OBVIOUS
  <2>3. proxyCache' \in [Nodes -> Entries] /\ recentExitIPs' \in [ExitIPs -> Times \cup {Never}]
    BY DEF Entries, NoEntry
  <2>4. rpc' \in [Releasers -> ReleaseStates] /\ jpc' \in JanitorStates
    BY DEF ReleaseStates, JanitorStates
  <2> QED
    BY <2>1, <2>2, <2>3, <2>4
<1>4. LocalsSet'
  BY <1>1 DEF LocalsSet, Holding, InFlight
<1>5. Tables'
  <2>1. \A p \in Releasers : rpc'[p] = "idle"
    OBVIOUS
  <2>2. \A r \in Requests : pc'[r] # "started"
    BY <1>1 DEF InFlight
  <2>3. GrantedOnly'
    BY <2>1, <2>2 DEF GrantedOnly, Active
  <2>4. Marks' /\ Records' /\ SaidClosed'
    BY <2>1 DEF Marks, Records, SaidClosed, Active
  <2>5. Slice'
    BY DEF Slice
  <2> QED
    BY <2>3, <2>4, <2>5 DEF Tables
<1>6. HandleOwned'
  BY <1>2 DEF HandleOwned
<1> QED
  BY <1>3, <1>4, <1>5, <1>6

(* A restart costs the reservations and nothing else: after any number of   *)
(* them, with calls cut off at any point, no backend is lost, none is closed*)
(* by two goroutines, and what was answered "released" stays closed.        *)
THEOREM RestartKeepsHandles ==
  RestartSpec => [](HandleOwned /\ SingleCloser /\ ReleasedIsClosed)
<1>1. HandleInv => HandleOwned /\ SingleCloser /\ ReleasedIsClosed
  BY DEF HandleInv, Tables, Marks, Slice, Records, SaidClosed, SingleCloser, ReleasedIsClosed,
     ClosingBy, Swept, Stopping, Active
<1>2. HandleInv /\ [Next \/ Restart]_vars => HandleInv'
  BY HandleStep, RestartHandles
<1> QED
  BY <1>1, <1>2, InitHandles, PTL DEF RestartSpec

-----------------------------------------------------------------------------
(* Calls end                                                                *)

(* Nobody but the call itself moves it, and its steps lead towards an       *)
(* answer.                                                                  *)
LEMMA OthersLeaveCalls ==
  ASSUME TypeInv, [Next]_vars, NEW r \in Requests, ~Allocate(r)
  PROVE  pc'[r] = pc[r]
<1> USE DEF TypeInv, TypeOK
<1>1. ASSUME NEW q \in Requests, q # r, Allocate(q) PROVE pc'[r] = pc[r]
  BY <1>1 DEF Allocate, Arrive, Reserve, Refuse, WriteFails, StartOk, StartFails, Commit, CommitFails,
     AbortClose, ReleaseReserved, MarkFailed
<1>2. ASSUME NEW p \in Releasers, Release(p) PROVE UNCHANGED pc
  BY <1>2 DEF Release, ReleaseStep, ReleaseMark, ReleaseTurnedAway, ReleaseClose, ReleaseDrop,
     ReleaseUnmark
<1>3. ASSUME Tick \/ Janitor \/ Shutdown \/ RefreshPick \/ RefreshStore
             \/ (\E n \in Nodes : ProbeNode(n)) \/ UNCHANGED vars
      PROVE  UNCHANGED pc
  BY <1>3 DEF Tick, Janitor, JanitorSweep, JanitorReinsert, JanitorClose, DrainClose, Shutdown,
     RefreshPick, RefreshStore, ProbeNode
<1> QED
  BY <1>1, <1>2, <1>3 DEF Next

Early == {"arrived", "starting", "started"}
Late == {"startFailed", "aborting", "abandoned", "marking"}
Answers == {"granted", "refused"}
LEMMA CallSteps ==
  ASSUME TypeInv, NEW r \in Requests, Allocate(r)
  PROVE  \/ pc[r] = "idle"
         \/ pc[r] = "arrived" /\ pc'[r] \in {"starting"} \cup Answers
         \/ pc[r] = "starting" /\ pc'[r] \in {"started"} \cup Late
         \/ pc[r] = "started" /\ pc'[r] \in {"aborting"} \cup Answers
         \/ pc[r] \in {"startFailed", "aborting"} /\ pc'[r] \in {"abandoned", "marking"}
         \/ pc[r] \in {"abandoned", "marking"} /\ pc'[r] = "refused"
<1> USE DEF TypeInv, TypeOK, Late, Answers
<1>1. CASE Arrive(r) \/ \E country \in Countries : Reserve(r, country) \/ Refuse(r, country)
  BY <1>1 DEF Arrive, Reserve, Refuse
<1>2. CASE WriteFails(r) \/ StartOk(r) \/ StartFails(r) \/ Commit(r) \/ CommitFails(r)
  BY <1>2 DEF WriteFails, StartOk, StartFails, Commit, CommitFails
<1>3. CASE AbortClose(r) \/ ReleaseReserved(r) \/ MarkFailed(r)
  BY <1>3 DEF AbortClose, ReleaseReserved, MarkFailed
<1> QED
  BY <1>1, <1>2, <1>3 DEF Allocate

(* A request or a release that has begun can take its next step.  The       *)
(* guards say so in every state; that they do is a fact about ENABLED,      *)
(* which the provers do not handle, and so it stays a hypothesis.           *)
NothingStuck ==
  /\ \A r \in Requests : InFlight(r) => ENABLED <<Progress(r)>>_vars
  /\ \A p \in Releasers : Active(p) => ENABLED <<ReleaseStep(p)>>_vars

(* Every request for a proxy is answered, for any number of requests,       *)
(* addresses and nodes, given that no goroutine is stuck.                   *)
THEOREM EachRequestEnds ==
  ASSUME NEW r \in Requests
  PROVE  FairSpec /\ []NothingStuck => RequestEnds(r)
<1> DEFINE S == InFlight(r)
           A == Progress(r)
           W0 == pc[r] \in Answers
           W1 == pc[r] \in {"abandoned", "marking"} \cup Answers
           W2 == pc[r] \in Late \cup Answers
           W3 == pc[r] \in {"started"} \cup Late \cup Answers
           W4 == pc[r] \in {"starting", "started"} \cup Late \cup Answers
           W5 == pc[r] \in Early \cup Late \cup Answers
<1> USE DEF Early, Late, Answers
<1>0. TypeInv => pc[r] \in PcStates
  BY DEF TypeInv, TypeOK
<1>1. ASSUME TypeInv, [Next]_vars
      PROVE  /\ W1 => W1'
             /\ W2 => W2'
             /\ W3 => W3'
             /\ W4 => W4'
             /\ W5 => W5'
  <2>1. CASE Allocate(r)
    BY <1>1, <2>1, CallSteps
  <2>2. CASE ~Allocate(r)
    BY <1>1, <2>2, OthersLeaveCalls
  <2> QED
    BY <2>1, <2>2
<1>2. ASSUME TypeInv, <<A>>_vars
      PROVE  /\ W1 => W0'
             /\ W2 => W1'
             /\ W3 => W2'
             /\ W4 => W3'
             /\ W5 => W4'
  <2>1. Allocate(r)
    BY <1>2 DEF Progress, Allocate
  <2> QED
    BY <1>2, <2>1, CallSteps
<1>3. TypeInv /\ S => W5
  BY <1>0 DEF InFlight, PcStates
<1>4. W1 \/ W2 \/ W3 \/ W4 \/ W5 => S \/ W0
  BY DEF InFlight
<1>5. FairSpec /\ []NothingStuck => []<>~S \/ []<><<A>>_vars
  <2>1. RequestsGoOn => RequestGoesOn(r)
    BY DEF RequestsGoOn
  <2>2. NothingStuck => (S => ENABLED <<A>>_vars)
    BY DEF NothingStuck
  <2> QED
    BY <2>1, <2>2, PTL DEF FairSpec, Fairness, RequestGoesOn
<1>6. FairSpec => []TypeInv /\ [][Next]_vars
  BY InitType, TypeStep, PTL DEF FairSpec, Spec
<1>7. W0 => pc[r] \in {"granted", "refused"}
  OBVIOUS
<1>8. /\ TypeInv /\ [Next]_vars => (W1 => W1') /\ (W2 => W2') /\ (W3 => W3') /\ (W4 => W4') /\ (W5 => W5')
      /\ TypeInv /\ <<A>>_vars => (W1 => W0') /\ (W2 => W1') /\ (W3 => W2') /\ (W4 => W3') /\ (W5 => W4')
  BY <1>1, <1>2
<1> HIDE DEF S, A, W0, W1, W2, W3, W4, W5
<1>9. FairSpec /\ []NothingStuck => (S ~> W0)
  BY <1>3, <1>4, <1>5, <1>6, <1>8, PTL
<1> QED
  BY <1>7, <1>9, PTL DEF S, RequestEnds

(* A release is moved by its own goroutine only.                            *)
LEMMA OthersLeaveReleases ==
  ASSUME TypeInv, [Next]_vars, NEW p \in Releasers, Active(p), ~ReleaseStep(p)
  PROVE  rpc'[p] = rpc[p] /\ target'[p] = target[p]
<1> USE DEF TypeInv, TypeOK
<1>1. ASSUME NEW q \in Releasers, Release(q) PROVE rpc'[p] = rpc[p] /\ target'[p] = target[p]
  <2>1. CASE q = p
    BY <1>1, <2>1 DEF Release, ReleaseMark, ReleaseTurnedAway, Idle, Active
  <2>2. CASE q # p
    BY <1>1, <2>2 DEF Release, ReleaseStep, ReleaseMark, ReleaseTurnedAway, ReleaseClose, ReleaseDrop,
       ReleaseUnmark
  <2> QED
    BY <2>1, <2>2
<1>2. ASSUME NEW r \in Requests, Allocate(r) PROVE UNCHANGED <<rpc, target>>
  BY <1>2 DEF Allocate, Arrive, Reserve, Refuse, WriteFails, StartOk, StartFails, Commit, CommitFails,
     AbortClose, ReleaseReserved, MarkFailed
<1>3. ASSUME Tick \/ Janitor \/ Shutdown \/ RefreshPick \/ RefreshStore
             \/ (\E n \in Nodes : ProbeNode(n)) \/ UNCHANGED vars
      PROVE  UNCHANGED <<rpc, target>>
  BY <1>3 DEF Tick, Janitor, JanitorSweep, JanitorReinsert, JanitorClose, DrainClose, Shutdown,
     RefreshPick, RefreshStore, ProbeNode
<1> QED
  BY <1>1, <1>2, <1>3 DEF Next

(* Every release is answered and takes its mark back, whoever else releases *)
(* the lease or sweeps it meanwhile.                                        *)
THEOREM EachReleaseEnds ==
  ASSUME NEW p \in Releasers, NEW r \in Requests
  PROVE  FairSpec /\ []NothingStuck => ReleaseEnds(p, r)
<1> DEFINE S == Active(p)
           A == ReleaseStep(p)
           R == rpc[p] \in {"released", "error"} /\ r \notin releasingProxies
           W1 == target[p] = r /\ rpc[p] \in {"closed", "closeFailed"}
           W2 == target[p] = r /\ rpc[p] \in {"dropping", "closed", "closeFailed"}
           W3 == target[p] = r /\ rpc[p] \in {"closing", "dropping", "closed", "closeFailed"}
<1>1. ASSUME TypeInv, A
      PROVE  (W1 => R') /\ (W2 => W1' \/ R') /\ (W3 => W2' \/ R')
  <2>1. target'[p] = target[p]
    BY <1>1 DEF ReleaseStep, ReleaseClose, ReleaseDrop, ReleaseUnmark
  <2>2. \/ rpc[p] = "closing" /\ rpc'[p] \in {"dropping", "closeFailed"}
        \/ rpc[p] = "dropping" /\ rpc'[p] = "closed"
        \/ /\ rpc[p] \in {"closed", "closeFailed"} /\ rpc'[p] \in {"released", "error"}
           /\ releasingProxies' = releasingProxies \ {target[p]}
    BY <1>1 DEF ReleaseStep, ReleaseClose, ReleaseDrop, ReleaseUnmark, TypeInv, TypeOK
  <2> QED
    BY <2>1, <2>2
<1>2. ASSUME TypeInv, [Next]_vars
      PROVE  (W1 => W1' \/ R') /\ (W2 => W2' \/ R') /\ (W3 => W3' \/ R')
  <2>1. CASE A
    BY <1>1, <1>2, <2>1
  <2>2. CASE ~A
    BY <1>2, <2>2, OthersLeaveReleases DEF Active
  <2> QED
    BY <2>1, <2>2
<1>3. (W1 \/ W2 \/ W3 => S) /\ (S /\ target[p] = r => W3)
  BY DEF Active
<1>4. FairSpec /\ []NothingStuck => []<>~S \/ []<><<A>>_vars
  <2>1. ReleasesGoOn => ReleaseGoesOn(p)
    BY DEF ReleasesGoOn
  <2>2. NothingStuck => (S => ENABLED <<A>>_vars)
    BY DEF NothingStuck
  <2> QED
    BY <2>1, <2>2, PTL DEF FairSpec, Fairness, ReleaseGoesOn
<1>5. FairSpec => []TypeInv /\ [][Next]_vars
  BY InitType, TypeStep, PTL DEF FairSpec, Spec
<1>6. /\ TypeInv /\ <<A>>_vars => (W1 => R') /\ (W2 => W1' \/ R') /\ (W3 => W2' \/ R')
      /\ TypeInv /\ [Next]_vars => (W1 => W1' \/ R') /\ (W2 => W2' \/ R') /\ (W3 => W3' \/ R')
  BY <1>1, <1>2
<1> DEFINE Z == S /\ target[p] = r
<1>7. Z => W3
  BY <1>3
<1>8. W1 \/ W2 \/ W3 => S
  BY <1>3
<1> HIDE DEF S, A, R, W1, W2, W3, Z
<1>9. FairSpec /\ []NothingStuck => (Z ~> R)
  BY <1>4, <1>5, <1>6, <1>7, <1>8, PTL
<1> QED
  BY <1>9 DEF Z, S, R, ReleaseEnds

(* Every call is answered, for any number of requests, clients, nodes and   *)
(* addresses.                                                               *)
THEOREM CallsDoEnd == FairSpec /\ []NothingStuck => CallsEnd
BY EachRequestEnds, EachReleaseEnds DEF CallsEnd
=============================================================================
