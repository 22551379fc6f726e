# AkiraGate: TLA+ models, checks and proofs

AkiraGate is a management server (Go, `src/userspace-gateway`) that keeps user-space
OpenVPN connections behind local SOCKS5 listeners, chooses and tests VPNGate nodes for
them, and rents out temporary SOCKS5 proxies by country. Nearly all of its state is in
one struct, `Server` (`internal/manager/server.go:187`), behind one mutex. The mutex is
never held across a dial, a close or a probe, so every operation is a chain of locked
sections with other operations in between. That is what the modules here are about.

Convention of every module: **one locked section of the code is one action, and so is
every call between two locked sections that can end in more than one way.** Local
computation belongs to the action that follows it. Line numbers are those of `server.go`
unless said otherwise; `PROJECT.json` maps every definition to its lines.

## 1. Inventory

| component | state | operations | interacts with | hard |
|---|---|---|---|---|
| **Dynamic proxies** | `proxyCache`, `recentExitIPs`, `dynamicProxies`, `releasingProxies`, the handle of every backend | `allocateProxy` (reserve, start, commit), `releaseProxy`, `proxyJanitorLoop`, `releaseAllDynamicProxies`, `refreshProxyCache` | node tests fill the cache; a failed start marks its node failed | lock given up twice per allocation and per release; time stamps taken before the lock; a Close that fails; delete by address; restart |
| **Sessions and failover** | `session`, its `listenerBackends`, `Active` of nodes, `failed`, one worker per listener | `connect`, `disconnect`, `tryAutoConnect`, `runSession`, `consumeListenerResults`, `finishSession`, `runListenerWorker` | workers probe nodes, refresh the catalogue, bind addresses | replaced sessions run on for a while; a check repeated under a second lock; results by channel; shared ports; backoff |
| **Node tests** | `ProbeStatus` of nodes, `failed`, `nodeTests`, `batchTest` with its sets | `testNode`, `testNodes`, `probeNodesConcurrentlyWith`, `probeNodeTestJob`, `cancelTestNode(s)`, watchdog | sessions and the cache avoid failed nodes | deadline against result; cancel against registration; queue that stops; panic |
| **Node catalogue and quality cache** | `nodes`, `lastRefresh`, `proxyCache`, flags that keep refreshes single | `refreshNodes`, `refreshNodesInBackground`, `mergeRetainedNodesLocked`, `updateProxyCacheFromProbeResults` | read by all of the above | a list replaced while jobs refer to its nodes; statuses carried over |
| **Configuration and settings** | `config` in memory and the JSON file | `updateSettings`, `LoadConfig`, `SaveConfig`, bind in `connect` | sessions take a snapshot | read, save unlocked, assign |
| **Web login** | `authSessions` | `login`, `logout`, `authSession` | settings drop all sessions | a login checked against one configuration and entered under another |
| **SOCKS5 server** (`internal/socks`) | the listener, connections with their deadline, two copies each | `Serve`, `Close`, `handleClient`, `relay` | serves a session's listener, a dynamic proxy or the stand-alone gateway | half-close, one deadline for three phases, close before the listener is published |
| **VPN tunnel, netstack** (`internal/vpn`) | tunnel, TCP/IP stack | `Start`, `NewDialer`, `DialContext`, `Close` | owned by a backend or the gateway | closed by its owner and by its context at once |
| **Stand-alone gateway** (`internal/app`, `cmd/akiragate-gateway`) | its servers and their results | `main`, `App.Run`, `ValidateListeners` | tunnel, stack, servers | one server of several fails; signal against failure |
| Log buffer, VPNGate client, server command, web page, scripts | - | - | - | none that a model would reach |

What makes each correct, in a sentence:

* dynamic proxies: an exit address is not given to two requests within an hour; an open
  backend always has somebody who will close it; it is closed by one goroutine; an expired
  lease ends even if a Close fails; "released" means closed.
* sessions: whatever is not cancelled is the session in place; a replaced session changes
  nothing and gives its ports back; what is shown as running or active is so; no listener
  disappears from a session without the session ending.
* node tests: "testing" means that a test is going on and ends; the set of failed nodes is
  the set of nodes shown unavailable; a batch always ends; a result that comes too late is
  taken back; a cancel is not lost (it can be).
* catalogue: flags, results and failures say of a listed node what is true of it whatever
  lists come and go, and the background refresh drops no node in use.
* configuration: what is in force is valid and will be found again after a restart (but for
  values drawn at random that were not saved); a field left blank keeps its value (it may not).
* login: whoever is logged in was let in with the credentials in force.
* SOCKS5: a client gets an answer in time; a relay that nobody breaks delivers everything; a
  handler does not stay for ever, unless its peer never reads.
* gateway and backends: every way down ends, in order, with tunnel, stack and listeners gone.

The hazards behind these properties, each with its line, are in `PROJECT.json`.

## 2. Modules

### ProxyLease (and ExitIPLedger, ProxyLeaseRestart, ProxyLeaseProofs, ProxyLeaseHandleProofs)

A request is one call of `allocateProxy` and the ID of the allocation it makes. Its `pc`
follows the code: `Arrive` takes `now := time.Now()` *before* the lock; `Reserve`/`Refuse`
is `reserveProxyCandidate`, which sweeps cache and table with that old `now`, takes the first
eligible node and stamps its exit address with it; `StartOk`/`StartFails`/`WriteFails` is
the unlocked middle; `Commit`/`CommitFails` the second locked section; `AbortClose`,
`ReleaseReserved` and `MarkFailed` the clean-up in the order of the code. A releasing client
(`rpc`) marks, closes, drops the record, and unmarks in the deferred function. The janitor
(`jpc`) sweeps under the lock, closes the slice without it and puts a record back when Close
failed; shutdown drains without a look at the marks. `RefreshPick`/`RefreshStore` is the
cache refresh. A `Close` fails at most once per backend, for then everything in it is closed
and `net.ErrClosed` is filtered. `CommitFails` stands for any failure of the commit (its only
error is the random number generator).

`ExitIPLedger` is what the API promises: a lease is granted once, with an address whose
window is over, and ends once. `ProxyLease` refines it: a lease is granted in `Commit` and
ends when its backend closes. `ProxyLeaseRestart` adds a crash, which `NewServer` makes of
every map an empty one.

### Session

Sessions are numbered as they are made, `s.session` is one of the numbers. `Connect` covers
the three forms of the call (configuration as it is, a node's own file, a node bound to one
listener) and the replacement of a session; `AutoCheck` and `AutoStart` are the two locked
sections of an auto-connect attempt. `RegisterListener` is the loop of `runSession`,
`ConsumeError`/`FinishError`/`FinishStopped` are `consumeListenerResults` with `finishSession`.
A worker goes through selection (`ResolveStatic`, `ResolveNode`, `ResolveFails`), start
(`StartOk`, `StartFails`, `PortBusy`), `CheckOk`/`CheckFails`, `Unwind` (the deferred closes)
and the failover steps. `Update` is `updateListenerBackendState` whole: comparison with
`s.session`, active flags and aggregate status. The variables `status`, `backends` and
`active` belong to the session in place: no reader ever sees those of another. Which node a
listener may use is `Allowed`: its policy's own node, country and networks come before what the
routing mode says, and the failed nodes are left out (`Candidates`). `ResolveNode` takes one candidate
and marks those before it, whose probes have failed; without a candidate the nodes are refreshed
first (`SelectRefresh`). A configuration is chosen anew at every start: the server may have been given another one.

`SessionView` is what a client of the state API may see: one session at a time, none that comes back, and
for each listener the statuses of one worker in their order. `Session` implements it with `session`,
`created` and `backends`; the workers of replaced sessions must therefore be invisible.

### NodeProbe (and NodeProbeCancel, NodeProbeProofs)

A job is one call of `probeNodeTestJob`, made by a call of `testNode` or for one node of a
batch; a batch is a call of `testNodes` or the refresh of the quality cache, which runs the
same engine without an entry in `batchTest`. The job's actions follow `probeNodeTestJob` and
`probeNodeWithTimeout` with every look at the context, the deferred `unregister` and the
recovery from a panic. The batch has its queue (`Enqueue`, `DropRest`), its workers
(`Dequeue`, bounded by `Workers`), its collector (`Collect`, `SweepStart`, `Sweep`,
`FinishBatch`) and its watchdog. `CancelNode` is the locked part of `cancelNodeTest`,
`CallCancel` the call of the cancel function after it. Contexts are `none`, `cancelled` or
`expired`, and end with their parents. `s.nodeTests` has one entry per node. `unregisterNodeTest` means to remove
only its own: it compares tokens (line 1923). But a `nodeTestToken` is a pointer to `struct{}` (line 60), and all
objects of size zero that the Go runtime allocates have one address, so that any two tokens are equal: `Unregister` removes
whatever entry there is. `NodeProbeCancel` adds the notes of nodes whose cancel fell into one of two gaps (`missed`) and of jobs that
shared the entry of their node with another (`beside`).

### NodeCatalog (and NodeCatalogBind, NodeCatalogProofs)

The list `s.nodes` with what refers to its nodes. `status` is `ProbeStatus` of a listed node; a
node that is not listed remembers how it left (`dropped` by the background refresh, `removed` by
the manual one), which only the properties read. `RefreshNodes` and `RefreshNodesInBackground`
share `Replace`, in the order of the code: `Preserve` carries results over (the manual refresh
hands on no failures, the background one `s.failed`), `Flags` takes the active nodes of session
and old list, `NewList` adds the retained nodes (`Retained`: active, leased, cached), `FailedOf`
rebuilds the failed nodes. The others are the actions of the other modules as far as they touch
the list: `Connect`, `ConnectBound`, `BackendRuns`/`BackendStops`, the two ends of a session, the
reservation, commit and end of a lease, tests from the API or for the cache, and the cache.
A worker, a lease or a test may finish with a node that has left the list (`MarkFailed` and `Mark`
look for it as the code does). Phases inside those operations are in the other modules.
`NodeCatalogBind` adds the note of nodes whose failure a binding has cleared.

### Settings (and SettingsProofs)

A configuration is six facts: `auto` and `openvpn`, the node a listener is fixed to, who has set the
fields that an update may leave blank (`kept`; `"raw"` is what only normalization makes usable: a
password in plain text, no hash), `secret`, and what `ValidateConfig` says of all the rest. `Normalize` is
`normalizeConfig`. `secret` stands for what it fills in at random, the path of the login page and the first
listener with its password: `Missing`, `Given`, drawn at a start (the number of the start), or `Redrawn` by a save, so that
normalizing one file at two starts gives two configurations. An update is `ReadKept` (locked), `Truncate` and `Write` (`os.WriteFile` outside the
lock, with its two steps) or `Reject`/`WriteFails`, and `Assign` (locked). A binding is `Bind`, which keeps the
mutex (`holder`) while it saves through the same actions. Of two writers the second truncates what
the first has written or writes over it (`over`), which may leave the longer tail of the first: the
file is then torn. `Start`, `StartFails` and `Crash` are the process; `LoadConfig` saves a
configuration that is missing or needs migration, and what was drawn does not count as a need (`NeedsMigration`).

### Login (and LoginProofs)

Extends `Settings` with `authSessions`. A login takes the snapshot that `route` hands it (`LoginReads`), checks
the password without the lock, and enters its session (`LoginEnters`); `SessionEnds` is a logout or the expiry that
`authSession` finds. The steps of an update are those of `Settings` with the user name: `UpdateReads` is the locked
section that finds the name and the kept password, `UpdateAssigns` the one that assigns and drops all logins
if a password was posted or the name is not the one it found. `overtaken` and `reverted` are notes for the property.

### SocksServer and Gateway (and GatewayProofs)

`SocksServer` has the servers, the dialer and the clients of one backend, `Gateway` its owner. `Serve` is `Listen`/`ListenFails`,
`Publish` (the locked section that stores the listener, and the goroutine that closes it with the context), `Accept`, and its two ends.
`CloseServer` finds a published listener only. The dialer's `once.Do` is `BeginClose` and `StackDown`, between which a second caller
waits. A handler (`pc`) has its deadline from `Accept` to `ReplyOk`, and goes through handshake, dial and reply, each of which may
fail; `Tick` lets no read and no dial outlast its limit. A relay is two copies (`up`, `down`). As `io.Copy` does, each reads a chunk
(`ReadUp`, `ReadDown`) and then writes it (`WrittenUp`, `WrittenDown`), and notices only the side it waits for: a copy that reads ends with its
source, one that writes ends with its destination, and what becomes of the source meanwhile does not reach it (`EndUp`, `EndDown`).

`Gateway` runs one of three owners: `App.Run` (`Configure` is `main` with `ValidateListeners`, `ReadResult`/`AllRead` the loop over `errCh`,
`Exit` the end of the process), `serveListenerBackend` of a session, and `startDynamicProxyBackend`. They share the way up (`TunnelOk`,
`StartServers`, `WaitOk`; `DialerFails` may leave a stack behind that nobody closes, `stack = "left"`) and the way down (`CancelContext`, `CloseNext`, `CloseDialer`, `DialerClosed`), which begins at a
different place in each: a stop cancels the context first, a failed wait does so first in a proxy and last in a session,
and the gateway's context is cancelled by signals only.
In `Session` and `ProxyLease` all of this is one outcome, "closed": `ClosedMeansDown` and `ListenerReleased` are what they rely on.

### MC modules

`MCProxyLease`, `MCProxyLeaseLive`, `MCSession`, `MCNodeProbe`, `MCNodeCatalog`, `MCSettings`, `MCLogin` and `MCGateway` declare the model
values, the configurations a session may find, and the symmetry where there is any (requests and
clients of the leases, nodes of the catalogue, updates). `MCSession`, `MCLogin`, `MCNodeProbe` and `MCProxyLeaseLive` hold two instances each, chosen in the initial state by a
variable `instance` that only restricts what the environment may ask for.

## 3. Runs

| run | instance | shows |
|---|---|---|
| ProxyLease | 2 requests, 2 clients, 1 node, 1 address, window 2, 4 instants; symmetric | `TypeOK`, `HandleOwned`, `SingleCloser`, `ReleasedIsClosed`, `OneHolderPerWindow`, and the ledger (`ImplementsLedger`) |
| ProxyLeaseLive | "expiry": 1 request, 1 client, 2 nodes, 2 countries, 4 instants; "calls": 2 requests, 2 clients, 1 node, 1 address, 2 instants; fair | `ExpiredIsClosed`, `CallsEnd` |
| ProxyLeaseRestart | 2 requests, restart | **violated**: `NotAllocatedTwiceInWindow` |
| Session | "replace": 2 sessions (the second without a node of its own), 1 listener, 1 node, 2 auto-connect attempts; "listeners": 1 session, 2 listeners, 2 nodes, policies; fair | `ActiveExact`, `NoOrphanSession`, `RunningIsServed`, `NoListenerAbandoned`, `NothingStuck`, `StaleSessionIsMute`, the view (`ImplementsView`), `CancelledDrains`, `AutoReconnects` |
| NodeProbe | 1 node, a test and a batch, either kind | `TestingIsTested`, `FailedIsShown`, `CancelFindsTest`, `CancelSticks`, `LateIsWithdrawn` |
| NodeProbeLive | "batch": 2 nodes, 1 batch, 1 worker; "tests": 2 tests of 1 node; fair | `BatchNeverStalls`, `BatchEnds`, `RequestsAnswered` |
| NodeProbeCancel | 1 node, 1 batch | **violated**: `BatchCancelSticks` |
| NodeCatalog | 2 nodes, symmetric, unbounded otherwise | `ActiveIsRunning`, `ShownMatchesAvoided`, `ResultKept`, `InUseStaysListed` |
| NodeCatalogBind | 2 nodes | **violated**: `BindSticks` |
| Settings | "file": 2 updates, 1 binding, 1 node, 2 starts; "login": 1 login, 2 updates, 2 user names, 1 start; symmetric | `ValidInForce`, `RestAgrees`, `SessionsCurrent` |
| SettingsBlank | 2 updates, 1 binding, 1 node, 2 starts | **violated**: `BlankKeeps` |
| Gateway | 3 owners; 2 servers without clients, or 1 server with 1 client; deadline 3, dial 2, 1 chunk each way; fair | `AnsweredInTime`, `OrderlyTransfer`, `ClosedMeansDown`, `NothingStuck`, `ListenerReleased`, `OwnerStops`, `HandlerEnds` |

Of the type invariants only that of ProxyLease is run; all of them are proved (`TypeCorrect`), and a run would add little.
That no node stays "testing" has no run either: it follows from `TestingIsTested` (somebody is under way or owes the result), `JobsReport` (who is under way
reports) and `BatchEnds` (who owes it pays).

Why the bounds are enough. Leases: the races need two requests for one address, two clients
on one record and the janitor; the window is two ticks so that "inside", "at the end" and
"after" differ, and a request may lag one tick behind (`InFlightLimit`), so that old and new
stamps meet; the clock reaches beyond one window. Sessions: two sessions are an old one and
its successor, two attempts are the loop's and the one after a failure, two listeners are
needed only for what one worker does to the session of another. That is why there are two instances: in "listeners" no
auto-connect is made, though the fairness of `Session` demands it, so that the leads-to properties are claimed of "replace" alone
(no behaviour of "listeners" in which auto-connect stays possible is fair, and they hold there for nothing). Whether a call is answered does not depend on windows: two instants
are an old `now` and a new one ("calls"), and two requests and two clients can hold each other up. Tests: two jobs on one node
meet in all tables; the queue needs two nodes to be ahead of its one worker. Catalogue: a list with
one node and without the other is all a refresh can tell apart, and nothing there needs a bound.
Settings: three writers of which two hold no lock overlap in every order, and the second start finds
what a crash between any two steps of the first left, and draws again what the first did not save.
Logins: one login is overtaken by each of two updates, or by one that undoes the other; the binding and the crashes are in "file".
Gateway: handlers meet the owner only in the context and the stack, whose state is the same for one server as for two, so that
clients come to a backend with one server and two servers fail, begin and stop without clients (`Small`). A deadline of 3 and a dial of 2
leave handshakes that end in time for the dial (0, 1) and too late for it (2, 3); one chunk each way tells "delivered" from "cut off" and from "read and not taken".
Bounds in guards: `Chunks` (what a side of a relay sends), `MaxTime` (`Tick`), `MaxSessions` (`NewSession`), `MaxStarts` (`Start`); each request,
test, batch and settings call is used once. `CHECK_DEADLOCK FALSE` wherever such a bound, or a
shutdown, ends the instance; NodeCatalog has neither and is checked for deadlock.

Fairness. `FairSpec` of each module says that goroutines that have something to do go on:
the runtime schedules them, dials and probes have their own timeouts, the janitor's ticker
fires. There is no fairness for arriving requests, cancels, connects or panics, none for the
success of a check or a start, and none that a serving worker ever fails; only a `select`
with a finished context is eventually taken. Time passes in "expiry" of ProxyLeaseLive; in "calls" it may stop.
`Session` assumes auto-connect on: every tick of `maintenanceLoop`, and every session that ends in an error, calls `tryAutoConnect`. `Gateway` assumes
that timers fire (`Tick`; a handshake or a dial past its limit ends) and that `vpn.Start` and `waitSocksAddress` return; nobody has to speak, to close, to read
what a copy writes to him (`Taken` has no fairness), or to release a proxy.
Weak fairness says nothing of an action that is never enabled. `NothingStuck`, an invariant of the runs Session and Gateway,
says of each fair action in which states it is: where a goroutine has to go on, it can. A goroutine that sends where nobody receives, say, violates it (the mutant `UnwindBlocks`).
The `NothingStuck` of `ProxyLease` and of `NodeProbe` follows from the shape of the guards, whose cases are complementary, and no run repeats it: it is in the proof modules, as a hypothesis.
That somebody has to go on at all, while a batch waits for a result, is `BatchNeverStalls`.

### What the violated runs say

* **NotAllocatedTwiceInWindow** - `src/README.md:62` promises an hour without a repetition of an
  exit address. The table of reservations is in memory: after a restart the address is free.
* **BatchCancelSticks** - a single node cancelled in a batch should end as cancelled
  (`server_test.go:941`). A worker looks for the cancellation (line 1880) and enters its
  cancel function (line 1886) in two locked sections. A cancel in between is answered
  "cancelled", finds no function to call and nobody looks again: the node is tested and
  reported available. `CancelSticks` (run NodeProbe, proved for every instance) is the extent: beside this gap there is only
  that between `cancelNodeTest`'s unlock and its call of the function (line 1967), in which the test may look at its context
  for the last time. Any other cancel of one node sticks, as long as
  nobody else tests the node.
* **BindSticks** - binding a node to a listener clears its failure (`server_test.go:537`), but only in
  `s.failed` (line 1413). The node still says "unavailable", and the next refresh rebuilds `s.failed` from
  the nodes (lines 1481, 2692): the listener then avoids the only node it may use.
* **BlankKeeps** - an update that leaves the password blank keeps the one there is (`server_test.go:134`).
  `updateSettings` reads it (line 1317), saves without the lock, and assigns the whole configuration
  (line 1356). What another update has set and answered for in between is undone.

Observed beside these, without a run of their own. Of two tests of one node the second takes over the entry in `s.nodeTests`, and the first of them to
end removes it (tokens of size zero, lines 60 and 1923): a cancel is then answered that the node has no test (line 1704) while one goes on;
`CancelFindsTest` says which tests are found. A file without `secret_path` or without listeners gets another login path or another listener password
at every start, until something is saved (`config.go:83-86`, `227-229`, `268-270`), which is why `RestAgrees` normalizes the file with what this start has drawn.
`NewDialer` closes neither the stack it has made nor its link endpoint when a later step of it fails (`netstack.go:63-76`): `ClosedMeansDown` has the exception and says that nothing
is served through it. A copy that writes to a client which does not read has no deadline left (`socks/server.go:136`, `341`) and
notices neither its target nor the tunnel: it stays, with its handler, for as long as the client does (`HandlerEnds` has the exception). Two updates whose saves overlap may leave the
file with the configuration of one and memory with that of the other, both answered as saved; this is
the case that `disturbed` takes out of `RestAgrees`. A manual refresh drops nodes that leases and sessions use and
forgets failures that no status shows. `README.md:61` and `:114` describe auto-connect as bound to a local
OpenVPN file, while the code and `config_test.go:140` also accept a listener policy; the model follows the code.
`ValidateListeners` compares addresses as written (`internal/config/config.go`), so that `0.0.0.0` and `127.0.0.1` with one port pass and the second
listener fails in `Serve`: `Configure` and `ListenFails` have the case, `OwnerStops` says that the gateway then stops. A client whose handshake
comes late may be connected to its target and never be told (`AnsweredInTime` states exactly how late). A relay whose client neither sends nor closes outlives
the tunnel until it does: the copy from the client notices nothing (`HandlerEnds` asks for a client that has stopped sending).

## 4. Proofs

`ProxyLeaseProofs` proves for every number of requests, clients, nodes and addresses and for
all time bounds that satisfy `ProxyLeaseAssumption`:

* `TypeCorrect`: `Spec => []TypeOK`;
* `ReuseWindowHolds`: `Spec => []OneHolderPerWindow`;
* `ReservationHolds`: `Spec => []ReservationKept` (the middle of the argument below, which no run repeats).

Neither window property is inductive: a new reservation is checked against the table
`recentExitIPs` and not against the other requests, and a deletion by address would remove
somebody else's entry if two could hold it. The inductive invariant ties the two together: every
request that holds an address, and whose window has not passed, owns the table's entry with
exactly its stamp, and an entry in use belongs to one request. The assumption that makes
it work is `InFlightLimit < ReuseWindow`: a request that fails does so before its own window is
over (its start has a limit of 160 s, the window is an hour), so that what it deletes is its own
entry; and its stamp is never ahead of the clock.

`ProxyLeaseHandleProofs` proves under the same assumption `NoBackendLost` (`HandleOwned`), `OneCloser` (`SingleCloser`),
`ReleasedStaysClosed` (`ReleasedIsClosed`), `ReuseIsSpaced` (`ReuseSpaced`) and `LedgerImplemented` (`ImplementsLedger`).
(`ReuseSpaced`, too, is proved and not run: it is the ledger's rule for one step of the code.) The first three follow from one invariant, `HandleInv`. To the types it adds what the two tables and the janitor's slice
mean to each other: a release from its mark to its unmark is the only one with that mark (`Marks`); a lease has a record or
is in the slice, never both (`Slice`); until shutdown the record of a lease that is being released stays where it is
(`Records`), because the sweep skips marked ones; and a backend said to be closed is closed, its record neither
in the table nor in a slice that could bring it back (`SaidClosed`). `ReuseIsSpaced` needs the invariant of the reuse window only.
The refinement needs both: `Commit` is a grant of the ledger because the backend is open and the request is still inside
its own window, so that `OneHolderPerWindow` leaves nobody else in theirs; a `Close` of an open lease is its end;
every other step leaves the leases alone.
`RestartKeepsHandles` is of `RestartSpec`, which violates the window: a restart, wherever it cuts calls off, preserves `HandleInv`, so that
`HandleOwned`, `SingleCloser` and `ReleasedIsClosed` hold over any number of them. What a restart costs is the reservations; as long as there is
none, `ReuseIsSpaced` is `NotAllocatedTwiceInWindow`.

That calls end is proved from `FairSpec` and `[]NothingStuck` of ProxyLease: `EachRequestEnds`, `EachReleaseEnds`, and from the two `CallsDoEnd` (`CallsEnd`). Nobody but the
call itself moves it (`OthersLeaveCalls`, `OthersLeaveReleases`), so that each of its steps takes it nearer to its answer for good; the last step of a release is its answer and takes
the mark back, whether its Close succeeded or not.

`NodeProbeProofs` proves for every set of nodes, tests and batches and any number of workers `TypeCorrect`,
`FailedShown` (`FailedIsShown`) and `TestingTested` (`TestingIsTested`), and of `CancelSpec` `CancelsFindTests` (`CancelFindsTest`). Types need
that a job about to write a result has one (`OutcomeKnown`). Every step gives one node a status, marks some as in test, or leaves the
nodes alone (`NodeStep`), from which `FailedIsShown` follows. `CancelFindsTest` needs `Shape`: jobs of a batch
that has not begun are idle, so that its start restarts none; and that `beside` has every job that shares its node at the moment (`SharesNoted`), for
only such a job can lose its entry to another's `Unregister`. `TestingIsTested` is too weak to be inductive, for a job
counts as under way after its last word; `TestedInv` names who still owes the node one: a job from its mark
to its result, or a collector whose job has yet to speak or carries an error, which the collector turns into a mark.
`EndReachesTests` is the invariant `ContextsFollow`: a registered job whose request has timed out, or whose batch has ended, has an ended context, though it may have been
registered before or after. It gives `LateResultWithdrawn` (`LateIsWithdrawn`): from then on no job gets a result, and one that has written its result
takes it back before it reports, with the error. Only a cancel of one node (`BatchCancelSticks`) can miss its job.

How far that goes is `OnlyBeforeRegistration` (`CancelSticks`), a theorem of `CancelSpec`. `CancelReaches` says what becomes of a job whose node was
cancelled by itself outside the two gaps, as long as nobody else tests the node: it is not about to register, its context is ended or its cancel function is about to
be called while it is watched, and it does not leave the node available. It rests on `OwnEntry` (the entry of the only job on a node is its own, so that
the cancel finds the right function) and on `Begun` (nobody has a word on a node without having begun).
`NoBatchStalls` (`BatchNeverStalls`) is that no batch waits for nobody: `Accounted` gives every node a batch has no result for a job, or else the
context has ended (a node is dropped from the queue for nothing less), and of the jobs that wait for the queue or for a worker the one with the least
node is next (`LeastNode`). If no job has its turn, no worker is busy and the least one can be taken. The number of workers is any positive one.

Two liveness theorems assume `FairSpec` and `[]NothingStuck` of NodeProbe. `JobsReport`: a job whose turn has come reports; its phases have a rank, each step
of its own lowers it, whether it is cancelled, times out or panics (`ProbeSinks`), and nobody else moves it before its result is received (`OthersKeep`).
`TestsAreAnswered` (`RequestsAnswered`) adds `OverIsAnswered` and the answer: every request for a test is answered, by result or deadline.

`NodeCatalogProofs` proves for every set of nodes `TypeCorrect`, `ActiveShown` (`ActiveIsRunning`),
`ShownIsAvoided` (`ShownMatchesAvoided`), `InUseKept` (`InUseStaysListed`) and `ResultsKept` (`ResultKept`). The first two are inductive:
`ActiveIsRunning` because a refresh takes its flags from `running` and from the old flags, which
are a part of `running` by induction. The other three are about steps and need the
types only: one case per action, and for `InUseKept` that the nodes a background refresh keeps include all that
`Retained` names. `OnlyARefreshUnbinds` is the extent of the finding `BindSticks`, a theorem of `BindSpec`: while nothing is found against a bound node, it is failed only
when it is still shown as unavailable (`ShownFailed`), and it enters `s.failed` by a refresh and by no other step.

`SettingsProofs` proves for any number of updates, bindings, nodes and starts `TypeCorrect`,
`ForceIsValid` (`ValidInForce`) and `FileAgrees` (`RestAgrees`). `Inv` adds to the types: whatever a call has computed,
and what is in force, is normalized, and what it has begun to save is valid (`InMemory`: the reason why the assignment
needs no check of its own); as long as nothing is disturbed at most one call saves, nobody has written over
it, and what it has written is what it will assign (`FileFollows`); no call lives while the process is down (`DownIsQuiet`);
a missing file counts as the default (`FileDefault`). `RestAgrees` alone is not inductive: the
assignment restores it, and only `FileFollows` says that the file holds what is assigned. Both compare what is in force with the file as it
is when the values of this start are filled in, for a start does not save them. The lemma
`NormalIsFixed` is that `Normalize` changes nothing the second time, whatever is drawn, which `SaveConfig` relies on.

`LoginProofs` extends `SettingsProofs`: `LoginKeepsSettings` (`LoginSpec => Spec`) makes every theorem of Settings one of Login, and
`LoggedInIsCurrent` (`SessionsCurrent`) rests on `LInv`: an update that nobody has overtaken has found the name and the password in force
(`ReadUpdates`), so that what it leaves alone stays and what it changes clears; a login that nobody has overtaken was checked against what is in
force, before and after it is entered (`LoggedIn`); a binding keeps the mutex, so that nothing changes under it (`HeldBinds`).
The same invariant gives `BlankKeptUnlessOvertaken`, the extent of the finding `BlankKeeps`: it holds until an update is assigned that was under way when another one
changed the user name or the password.

`SessionProofs` proves for any number of sessions, listeners, nodes, attempts and every set of configurations `TypeCorrect`, `ActiveShown` (`ActiveExact`),
`NoOrphan` (`NoOrphanSession`), `RunningServed` (`RunningIsServed`), `NoneAbandoned` (`NoListenerAbandoned`), `StaleIsMute` (`StaleSessionIsMute`) and
`ViewImplemented` (`ImplementsView`). The inductive invariant adds what ties a worker's control to what is shown: `ShownFits` gives for each
state of a worker the statuses its listener may have (and a serving worker is shown on its own node), `PortHeld` says that a worker that checks or serves has its
address, `NilIsCancelled` that a worker ends without an error only when it was cancelled, and `Numbered` that sessions not made yet have done nothing.
Workers' actions share one lemma (`MovedInv`): a step that moves one worker and shows what fits keeps the invariant.
The refinement follows from `ShownFits`: the status before a step is known from the worker's state, so that the one after it is among `After`.
`DroppedAreCancelled` says that every session made and not in place is cancelled; with it goes that a runner about to end in an error has cancelled its session.

The liveness of Session is proved in part, from `FairSpec` and `[]NothingStuck`: the provers know nothing of `ENABLED`, so that this hypothesis is what the
run Session checks as an invariant, and the rest is for every value of the constants. `WorkerDrains` gives each phase of a worker a rank, from selecting (10) to done (0). A
step of a cancelled session's worker lowers it or ends it (`OwnStepSinks`), a step of anybody else leaves it (`WorkerSinks`), so that it falls at each step the worker must take
(`MustStepSinks`, `RankSinks`); that no step raises it is the action property `CancelledNeverRises`. At rank 0 the address is free because of `Late`, proved as
`LateHolds`: an address belongs to a worker in a phase that holds it. `DroppedDrain` is the same of every session not in place, `RunnerEnds` of `runSession`.
`GatewayReconnects` (`AutoReconnects`) assumes that there is an attempt to connect and a configuration to connect with: a session in place that is cancelled is about to end in an
error (`Late`), its end leaves none, and without one either an attempt checks and then starts a session, or somebody else has.

`GatewayProofs` proves for any number of servers and clients and every choice of the timeouts `TypeCorrect`, `ClosedIsDown` (`ClosedMeansDown`),
`ClientsAreAnswered` (`AnsweredInTime`) and `TransferIsOrderly` (`OrderlyTransfer`). `Owned` says what of tunnel and stack there is in each state of the owner, and that nothing is served or handled without a stack or with one that was left;
`Timely` that a handler before its relay has its deadline and its dial is within its timeout; `Relayed` that a copy which is done though nothing broke has seen the end of its source and delivered all.

Its liveness is proved from the same kind of hypothesis, `FairSpec` and `[]NothingStuck` of Gateway. `Left` (`LeftHolds`) says what each state of the owner has left of a listener and of its
`Serve`, so that what remains open has a fair step that ends it: `ListenersAreReleased` (`ListenerReleased`, of each owner, also when a listener is closed before it is published),
`SessionBackendStops` (the way down of `serveListenerBackend`, from each phase of its start), `DialsEnd` and `CutOffRelaysEnd` (a handler from its dial to its relay, and
a relay whose target is gone or whose tunnel is down and whose client has stopped sending: it ends, or waits for ever in a write to a client that does not read, `Unread`).

Only model-checked:

* `NothingStuck`: `ENABLED` is out of the provers' reach. Every theorem with a leads-to has it as a hypothesis. Those of Session and Gateway are invariants of their runs; those
  of NodeProbe and ProxyLease are read off the guards and defined beside the theorems that use them.
* What needs induction over a number inside temporal logic, which no installed prover can instantiate: `CancelledDrains` as a whole (`WorkerDrains` and `RunnerEnds` are its
  parts; that `runSession` starts the listeners one by one to the last is not proved), `OwnerStops` (servers stop one by one; `SessionBackendStops` is the owner that waits for none), the
  rounds of a handshake and the chunks of a relay in `HandlerEnds` (`DialsEnd` and `CutOffRelaysEnd` are the rest), `ExpiredIsClosed` (the janitor closes its slice one by
  one), `BatchEnds` (queue, collector and sweep go node by node; `JobsReport` and `NoBatchStalls` are the parts of one node and of one state).

## 5. Not modelled, or abstracted

* Bodies, messages, latencies, country lookups, the bytes of a SOCKS handshake (its outcome is a choice), the bytes of a relay (chunks are counted),
  password hashing, tokens and cookies; of a listener's validation everything but addresses, wildcard hosts and credentials (`wellFormed`).
* The list of nodes is fixed in ProxyLease, Session and NodeProbe, where a refresh changes flags only; NodeCatalog is
  where lists change.
* `Session` lets workers and `connect` write `failed`; in `NodeProbe` the tests do. Probes started
  by a worker (`selectAndProbeListenerNode`) call `probeNode` without an entry in `nodeTests`;
  they are a part of `ResolveNode`, not of `NodeProbe`. The order of the candidates is their position in the list.
* A session with no enabled listener: `ValidateListeners` refuses it.
* A commit after the shutdown has drained leaves an open backend with a record; the process
  ends soon after. The model allows it and no property forbids it.
* The packets: `Tunnel.Read` and `Write` hand them to minivpn, gVisor's own link endpoint pumps them; the code waits for its end in `Dialer.Close`, which is `StackDown`.
  The configuration of the stack (addresses, routes) and name resolution are parts of `StartServers`/`DialerFails` and of the dial.
* The VPNGate client: one GET and a CSV parse, a function of its input; `Fetched` in NodeCatalog is any result. The server command: flags, then
  `Start` and `Crash` of Settings.
* The log buffer: a ring behind one mutex whose every operation is one locked section and which nothing else reads.
* The web page and the install and container scripts: clients and set-up of the server, without state it relies on.

## 6. Plan

Done: `ProxyLease` with `ExitIPLedger`; `Session` with `SessionView`; `NodeProbe`; `NodeCatalog`; `Settings` with `Login`; `SocksServer` with `Gateway`;
the theorems of section 4. Worth doing next, in this order:

1. `Session` with `NodeCatalog` in one module: workers that choose among nodes of a list that is replaced meanwhile (today each half has the other as a choice);
2. `listenerNodeCandidates` and the sort of the nodes as operators, checked against a plain definition.
