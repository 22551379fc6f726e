------------------------------ MODULE Gateway ------------------------------
(***************************************************************************)
(* SocksServer with the three owners of a backend: the stand-alone gateway *)
(* (cmd/akiragate-gateway/main.go, internal/app: App.Run, several servers  *)
(* on one tunnel), a listener of a session (serveListenerBackend in        *)
(* internal/manager/server.go) and a dynamic proxy                         *)
(* (startDynamicProxyBackend).  The owner validates its listeners, starts  *)
(* tunnel and stack, starts the servers, waits, and takes all of it down.  *)
(***************************************************************************)
EXTENDS SocksServer

CONSTANTS Addresses   \* host:port of listeners, as written

VARIABLES
  kind,     \* which owner this is
  owner,    \* its control
  enabled,  \* servers it has made
  toClose,  \* servers its deferred function has yet to close
  read      \* servers whose result App.Run has taken from errCh

ownerVars == <<kind, owner, enabled, toClose, read>>
vars == <<socksVars, ownerVars>>

Kinds == {"gateway", "session", "dynamic"}
OwnerStates == {"new", "starting", "tunnelled", "waiting", "running", "cancelling",
                "servers", "dialer", "closed", "exited"}

Init ==
  /\ SocksInit
  /\ kind \in Kinds /\ owner = "new"
  /\ enabled = {} /\ toClose = {} /\ read = {}

-----------------------------------------------------------------------------
(* ValidateListeners.  Of a listener: its address, whether the host is an   *)
(* unspecified one, whether host, port and policy are well formed, and      *)
(* which of user name and password are set.                                 *)
ListenerType ==
  [address : Addresses, public : BOOLEAN, wellFormed : BOOLEAN,
   auth : {"none", "half", "both"}, enabled : BOOLEAN]

EnabledOf(ls) == {s \in Servers : ls[s].enabled}
ValidListener(l) ==
  /\ l.wellFormed
  /\ l.public => l.auth # "none"
  /\ l.auth # "half"
ValidListeners(ls) ==
  /\ EnabledOf(ls) # {}
  /\ \A s \in EnabledOf(ls) : ValidListener(ls[s])
  /\ \A s, t \in EnabledOf(ls) : s # t => ls[s].address # ls[t].address

(* main: the flags or the environment have given some listeners, two files  *)
(* and two timeouts; a bad configuration ends the process                   *)
Configure ==
  /\ kind = "gateway" /\ owner = "new"
  /\ \E ls \in [Servers -> ListenerType], rest \in BOOLEAN :
       IF rest /\ ValidListeners(ls) THEN owner' = "starting" /\ enabled' = EnabledOf(ls)
                                     ELSE owner' = "exited" /\ UNCHANGED enabled
  /\ UNCHANGED <<socksVars, kind, toClose, read>>

(* the manager's backends have one listener, from a validated configuration *)
(* or with a free port                                                      *)
Begin ==
  /\ kind # "gateway" /\ owner = "new" /\ owner' = "starting"
  /\ \E s \in Servers : enabled' = {s}
  /\ UNCHANGED <<socksVars, kind, toClose, read>>

-----------------------------------------------------------------------------
(* vpn.Start, vpn.NewDialer, and a goroutine for each Serve *)

TunnelOk ==
  /\ owner = "starting" /\ owner' = "tunnelled" /\ tunnel' = "open"
  /\ UNCHANGED <<ctxDone, serverVars, stack, clientVars, kind, enabled, toClose, read>>
TunnelFails ==
  /\ owner = "starting" /\ owner' = "closed"
  /\ UNCHANGED <<socksVars, kind, enabled, toClose, read>>

StartServers ==
  /\ owner = "tunnelled" /\ stack' = "open"
  /\ owner' = IF kind = "gateway" THEN "running" ELSE "waiting"
  /\ serve' = [s \in Servers |-> IF s \in enabled THEN "called" ELSE serve[s]]
  /\ UNCHANGED <<ctxDone, socket, published, tunnel, clientVars, kind, enabled, toClose, read>>
DialerFailsQuiet ==   \* mutant: the tunnel is left open
  /\ owner = "tunnelled" /\ owner' = "closed"
  /\ UNCHANGED <<socksVars, kind, enabled, toClose, read>>
(* NewDialer has made a stack before it fails, and does not close it *)
DialerFails ==
  /\ owner = "tunnelled" /\ owner' = "closed" /\ tunnel' = "closed" /\ stack' = "left"
  /\ ctxDone' = (ctxDone \/ kind # "gateway")
  /\ UNCHANGED <<serverVars, clientVars, kind, enabled, toClose, read>>

-----------------------------------------------------------------------------
(* App.Run: the first result that comes before the context is done, or all  *)
(* of them, end the loop                                                    *)
ReadNone(s) ==   \* mutant: a result is taken for granted
  /\ kind = "gateway" /\ owner = "running"
  /\ s \in enabled \ read /\ serve[s] = "returned" /\ read' = read \cup {s}
  /\ UNCHANGED <<socksVars, kind, owner, enabled, toClose>>
ReadResult(s) ==
  /\ kind = "gateway" /\ owner = "running"
  /\ s \in enabled \ read /\ serve[s] = "returned"
  /\ IF ctxDone THEN read' = read \cup {s} /\ UNCHANGED <<owner, toClose>>
                ELSE owner' = "servers" /\ toClose' = enabled /\ UNCHANGED read
  /\ UNCHANGED <<socksVars, kind, enabled>>
AllRead ==
  /\ kind = "gateway" /\ owner = "running" /\ ctxDone /\ read = enabled
  /\ owner' = "servers" /\ toClose' = enabled
  /\ UNCHANGED <<socksVars, kind, enabled, read>>

(* waitSocksAddress; on its failure a dynamic proxy cancels first, a        *)
(* session's backend last                                                   *)
WaitOk ==
  /\ owner = "waiting" /\ enabled \subseteq published /\ owner' = "running"
  /\ UNCHANGED <<socksVars, kind, enabled, toClose, read>>
WaitFails ==
  /\ owner = "waiting"
  /\ owner' = IF kind = "dynamic" THEN "cancelling" ELSE "servers"
  /\ toClose' = IF kind = "dynamic" THEN toClose ELSE enabled
  /\ UNCHANGED <<socksVars, kind, enabled, read>>

(* a session's backend stops when its context is done, its server or a      *)
(* health check has failed; a dynamic proxy when it is released, and nobody *)
(* reads the result of its server                                           *)
Stop ==
  /\ kind # "gateway" /\ owner = "running" /\ owner' = "cancelling"
  /\ UNCHANGED <<socksVars, kind, enabled, toClose, read>>
MustStop == kind = "session" /\ (ctxDone \/ \E s \in enabled : serve[s] = "returned")

(* a signal, or the end of the session *)
Cancel ==
  /\ kind # "dynamic" /\ owner \notin {"new", "closed", "exited"} /\ ~ctxDone
  /\ ctxDone' = TRUE
  /\ UNCHANGED <<serverVars, stackVars, clientVars, ownerVars>>

-----------------------------------------------------------------------------
(* Taking down: cancel, the servers in order, the dialer *)

CancelContext ==
  /\ owner = "cancelling" /\ owner' = "servers"
  /\ ctxDone' = TRUE /\ toClose' = enabled
  /\ UNCHANGED <<serverVars, stackVars, clientVars, kind, enabled, read>>
CloseNextWaits(s) ==   \* mutant: the end of a Serve is waited for before its listener is closed
  /\ owner = "servers" /\ s \in toClose /\ \A t \in toClose : s <= t
  /\ serve[s] = "returned"
  /\ CloseServer(s) /\ toClose' = toClose \ {s}
  /\ UNCHANGED <<ctxDone, serve, published, stackVars, clientVars, kind, owner, enabled, read>>
CloseNext(s) ==
  /\ owner = "servers" /\ s \in toClose /\ \A t \in toClose : s <= t
  /\ CloseServer(s) /\ toClose' = toClose \ {s}
  /\ UNCHANGED <<ctxDone, serve, published, stackVars, clientVars, kind, owner, enabled, read>>
CloseDialer ==
  /\ owner = "servers" /\ toClose = {} /\ owner' = "dialer" /\ BeginClose
  /\ UNCHANGED <<ctxDone, serverVars, tunnel, clientVars, kind, enabled, toClose, read>>

DialerClosedNoCancel ==   \* mutant: the context is not cancelled on this path
  /\ owner = "dialer" /\ stack = "closed" /\ owner' = "closed"
  /\ UNCHANGED <<socksVars, kind, enabled, toClose, read>>
DialerClosed ==
  /\ owner = "dialer" /\ stack = "closed" /\ owner' = "closed"
  /\ ctxDone' = (ctxDone \/ kind # "gateway")
  /\ UNCHANGED <<serverVars, stackVars, clientVars, kind, enabled, toClose, read>>

(* main returns or calls os.Exit: every goroutine and socket is gone        *)
Exit ==
  /\ kind = "gateway" /\ owner = "closed" /\ owner' = "exited"
  /\ serve' = [s \in Servers |-> IF serve[s] = "none" THEN "none" ELSE "returned"]
  /\ socket' = [s \in Servers |-> IF socket[s] = "none" THEN "none" ELSE "closed"]
  /\ pc' = [c \in Clients |-> IF pc[c] \in {"idle", "over"} THEN pc[c] ELSE "killed"]
  /\ up' = [c \in Clients |-> "off"] /\ down' = [c \in Clients |-> "off"]
  /\ UNCHANGED <<ctxDone, published, stackVars, timeVars, answer, dataVars,
                 kind, enabled, toClose, read>>

OwnerStep ==
  \/ TunnelOk \/ TunnelFails \/ StartServers \/ DialerFails
  \/ (\E s \in Servers : ReadResult(s)) \/ AllRead \/ WaitOk \/ WaitFails
  \/ CancelContext \/ (\E s \in Servers : CloseNext(s)) \/ CloseDialer \/ DialerClosed \/ Exit

Next ==
  \/ SocksNext /\ owner # "exited" /\ UNCHANGED ownerVars
  \/ Configure \/ Begin \/ OwnerStep \/ Stop \/ Cancel

Spec == Init /\ [][Next]_vars

(* vpn.Start and waitSocksAddress have timeouts; a select that finds the    *)
(* context done or a result takes it.  A release need not come.             *)
FairSpec == Spec /\ SocksFairness /\ WF_vars(OwnerStep) /\ WF_vars(Stop /\ MustStop)

(* Where a goroutine of a server, the stack or the owner is not waiting for *)
(* somebody else                                                            *)
CanServe(s) ==
  \/ serve[s] \in {"called", "bound"}
  \/ serve[s] = "accepting" /\ socket[s] = "closed"
  \/ ctxDone /\ s \in published /\ socket[s] = "open"
CanOwn ==
  \/ owner \in {"starting", "tunnelled", "waiting", "cancelling", "servers"}
  \/ kind = "gateway" /\ owner = "running" /\ ctxDone /\ read = enabled
  \/ owner = "dialer" /\ stack = "closed"
  \/ kind = "gateway" /\ owner = "closed"
CanStop == owner = "running" /\ MustStop
StackGoesDown == stack = "closing"
CanEndUp(c) ==
  \/ up[c] = "reading" /\ client[c] # "open"
  \/ up[c] = "writing" /\ Broken(c)
CanEndDown(c) ==
  \/ down[c] = "reading" /\ (target[c] # "open" \/ Broken(c))
  \/ down[c] = "writing" /\ client[c] = "gone"
CanEndRelay(c) == pc[c] = "relay" /\ up[c] = "done" /\ down[c] = "done"

-----------------------------------------------------------------------------
(* Every variable has its type. *)
TypeOK ==
  /\ SocksTypeOK
  /\ kind \in Kinds /\ owner \in OwnerStates
  /\ enabled \subseteq Servers /\ toClose \subseteq enabled /\ read \subseteq enabled

(* When the owner says that the backend is closed, its tunnel is down, and  *)
(* its stack too, also if the goroutine of the context had begun to close   *)
(* them and was not through; only a stack whose Dialer could not be made is *)
(* still there, with nobody who would close it, but nobody is served by it. *)
(* What allocations and sessions call closed relies on it.                  *)
ClosedMeansDown ==
  owner \in {"closed", "exited"} =>
    /\ tunnel # "open" /\ stack \notin {"open", "closing"}
    /\ stack = "left" => \A s \in Servers : serve[s] = "none"

(* Nothing that has begun is stuck: where the owner, a server, the stack or *)
(* a handler is not waiting for a peer or for each other, its next step is  *)
(* possible, and neither an error nor a cancellation takes it away.         *)
NothingStuck ==
  /\ \A s \in Servers : CanServe(s) => ENABLED <<ServeStep(s)>>_socksVars
  /\ StackGoesDown => ENABLED <<StackDown>>_socksVars
  /\ CanOwn => ENABLED <<OwnerStep>>_vars
  /\ CanStop => ENABLED <<Stop /\ MustStop>>_vars
  /\ \A c \in Clients :
       /\ pc[c] = "dial" => ENABLED <<Dial(c)>>_socksVars
       /\ pc[c] \in {"dialed", "refused"} => ENABLED <<Reply(c)>>_socksVars
       /\ CanEndUp(c) => ENABLED <<CopyingUp(c)>>_socksVars
       /\ CanEndDown(c) => ENABLED <<CopyingDown(c)>>_socksVars
       /\ CanEndRelay(c) => ENABLED <<RelayOver(c)>>_socksVars

(* A closed backend gives its addresses back and leaves no Serve behind,    *)
(* even if it was closed before Serve had published its listener, so that   *)
(* Server.Close found nothing to close.                                     *)
ListenerReleased ==
  \A s \in Servers :
    owner = "closed" ~> socket[s] # "open" /\ serve[s] \in {"none", "returned"}

(* A gateway or a session's backend whose context is done, or one of whose  *)
(* servers has ended, is taken down, whatever it was starting, and whichever *)
(* of its servers had failed, served or not begun.                          *)
OwnerStops ==
  /\ kind # "dynamic" /\ ctxDone ~> owner \in {"closed", "exited"}
  /\ kind # "dynamic" /\ (\E s \in enabled : serve[s] = "returned") ~> owner \in {"closed", "exited"}
=============================================================================
