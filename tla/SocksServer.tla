---------------------------- MODULE SocksServer ----------------------------
(***************************************************************************)
(* The SOCKS5 servers of one OpenVPN backend and its TCP/IP stack          *)
(* (src/userspace-gateway/internal/socks/server.go, internal/vpn/          *)
(* netstack.go): Serve opens its listener, publishes it for Close and      *)
(* Address, and accepts; each client has a handler that shakes hands,      *)
(* dials through the stack, replies, and relays both directions.           *)
(* Dialer.Close is called by the owner of the backend and by the goroutine *)
(* that waits for the context.                                             *)
(*                                                                         *)
(* This module has the actions; Gateway composes them with the owner.      *)
(* A tick is the unit of Deadline and ConnectTimeout.  Chunks bounds what  *)
(* each side of a relay sends; a client is used once.                      *)
(***************************************************************************)
EXTENDS Naturals, FiniteSets

CONSTANTS
  Servers,         \* socks.Server objects, in the order of the listeners
  Clients,         \* client connections
  Deadline,        \* of a client connection until its relay starts (30 s)
  ConnectTimeout,  \* of a dial (20 s)
  Chunks

ASSUME SocksAssumption ==
  /\ Servers \subseteq Nat /\ IsFiniteSet(Servers)
  /\ Deadline \in Nat /\ ConnectTimeout \in Nat /\ Chunks \in Nat

VARIABLES
  ctxDone,    \* the context of Serve, of the handlers and of the dialer
  serve,      \* server: the call of Serve
  socket,     \* server: its net.Listener
  published,  \* servers with s.listener set
  tunnel,     \* the OpenVPN tunnel
  stack,      \* the TCP/IP stack: "closing" while one caller is inside once.Do of its
              \* Dialer, "left" if it was made but NewDialer failed
  pc,         \* client: handleClient
  age,        \* client: ticks since Accept
  began,      \* client: age when its handshake was complete, or Deadline
  deadline,   \* clients with SetDeadline in force
  answer,     \* client: the reply it was sent
  client,     \* client: "open", "half" (its writing side is closed) or "gone"
  target,     \* client: the same of the host it is connected to
  sentUp, gotUp, sentDown, gotDown,  \* client: chunks sent and delivered
  up, down    \* client: the copy client -> target, and target -> client

serverVars == <<serve, socket, published>>
stackVars  == <<tunnel, stack>>
timeVars   == <<age, began, deadline>>
dataVars   == <<client, target, sentUp, gotUp, sentDown, gotDown>>
clientVars == <<pc, timeVars, answer, dataVars, up, down>>
socksVars  == <<ctxDone, serverVars, stackVars, clientVars>>

-----------------------------------------------------------------------------
StackStates  == {"none", "open", "closing", "closed", "left"}
ServeStates  == {"none", "called", "bound", "accepting", "returned"}
ClientStates == {"idle", "handshake", "dial", "dialed", "refused", "relay", "over", "killed"}
Sides        == {"open", "half", "gone"}
Copies       == {"off", "reading", "writing", "done"}   \* writing: with a chunk in hand

SocksInit ==
  /\ ctxDone = FALSE
  /\ serve = [s \in Servers |-> "none"] /\ socket = [s \in Servers |-> "none"]
  /\ published = {}
  /\ tunnel = "none" /\ stack = "none"
  /\ pc = [c \in Clients |-> "idle"]
  /\ age = [c \in Clients |-> 0] /\ began = [c \in Clients |-> Deadline]
  /\ deadline = {} /\ answer = [c \in Clients |-> "none"]
  /\ client = [c \in Clients |-> "open"] /\ target = [c \in Clients |-> "open"]
  /\ sentUp = [c \in Clients |-> 0] /\ gotUp = [c \in Clients |-> 0]
  /\ sentDown = [c \in Clients |-> 0] /\ gotDown = [c \in Clients |-> 0]
  /\ up = [c \in Clients |-> "off"] /\ down = [c \in Clients |-> "off"]

-----------------------------------------------------------------------------
(* Serve and Close *)

ServeGoto(s, from, to) == serve[s] = from /\ serve' = [serve EXCEPT ![s] = to]

Listen(s) ==
  /\ ServeGoto(s, "called", "bound")
  /\ socket' = [socket EXCEPT ![s] = "open"]
  /\ UNCHANGED <<ctxDone, published, stackVars, clientVars>>
ListenFails(s) ==
  /\ ServeGoto(s, "called", "returned")
  /\ UNCHANGED <<ctxDone, socket, published, stackVars, clientVars>>

(* s.listener is set, and the goroutine that waits for the context starts *)
Publish(s) ==
  /\ ServeGoto(s, "bound", "accepting")
  /\ published' = published \cup {s}
  /\ UNCHANGED <<ctxDone, socket, stackVars, clientVars>>

CloseOnDone(s) ==
  /\ ctxDone /\ s \in published /\ socket[s] = "open"
  /\ socket' = [socket EXCEPT ![s] = "closed"]
  /\ UNCHANGED <<ctxDone, serve, published, stackVars, clientVars>>

(* Accept on a closed listener; any other error leaves the listener open *)
AcceptClosed(s) ==
  /\ ServeGoto(s, "accepting", "returned") /\ socket[s] = "closed"
  /\ UNCHANGED <<ctxDone, socket, published, stackVars, clientVars>>
AcceptError(s) ==
  /\ ServeGoto(s, "accepting", "returned") /\ socket[s] = "open"
  /\ UNCHANGED <<ctxDone, socket, published, stackVars, clientVars>>

AcceptWithoutDeadline(s, c) ==   \* mutant: no SetDeadline
  /\ serve[s] = "accepting" /\ socket[s] = "open"
  /\ pc[c] = "idle" /\ pc' = [pc EXCEPT ![c] = "handshake"]
  /\ UNCHANGED <<ctxDone, serverVars, stackVars, timeVars, answer, dataVars, up, down>>
Accept(s, c) ==
  /\ serve[s] = "accepting" /\ socket[s] = "open"
  /\ pc[c] = "idle" /\ pc' = [pc EXCEPT ![c] = "handshake"]
  /\ deadline' = deadline \cup {c}
  /\ UNCHANGED <<ctxDone, serverVars, stackVars, age, began, answer, dataVars, up, down>>

(* Server.Close, for the owner: a listener that is not published is missed *)
CloseServer(s) ==
  socket' = [socket EXCEPT ![s] = IF s \in published /\ @ = "open" THEN "closed" ELSE @]

ServeStep(s) == Listen(s) \/ ListenFails(s) \/ Publish(s) \/ CloseOnDone(s) \/ AcceptClosed(s)

-----------------------------------------------------------------------------
(* The Dialer *)

(* Dialer.Close up to once.Do; whoever comes second waits inside it *)
BeginClose == stack' = IF stack = "open" THEN "closing" ELSE stack

CloseWhenContextDone ==
  /\ ctxDone /\ stack = "open" /\ BeginClose
  /\ UNCHANGED <<ctxDone, serverVars, tunnel, clientVars>>

(* tunnel.Close, linkEP.Close, stack.Close and the waits for their ends *)
StackDown ==
  /\ stack = "closing" /\ stack' = "closed" /\ tunnel' = "closed"
  /\ UNCHANGED <<ctxDone, serverVars, clientVars>>

-----------------------------------------------------------------------------
(* handleClient up to the relay *)

Expired(c) == c \in deadline /\ age[c] >= Deadline
Goto(c, from, to) == pc[c] = from /\ pc' = [pc EXCEPT ![c] = to]

HandshakeOk(c) ==
  /\ ~Expired(c) /\ client[c] # "gone"
  /\ Goto(c, "handshake", "dial")
  /\ began' = [began EXCEPT ![c] = age[c]]
  /\ UNCHANGED <<ctxDone, serverVars, stackVars, age, deadline, answer, dataVars, up, down>>

(* wrong version, method, credentials, command or address, a client that    *)
(* closes too early; or the deadline                                        *)
HandshakeFails(c) ==
  /\ Goto(c, "handshake", "over")
  /\ UNCHANGED <<ctxDone, serverVars, stackVars, timeVars, answer, dataVars, up, down>>

(* DialContext; it may have connected just before the stack closed *)
DialOk(c) ==
  /\ Goto(c, "dial", "dialed") /\ stack # "closed"
  /\ UNCHANGED <<ctxDone, serverVars, stackVars, timeVars, answer, dataVars, up, down>>
DialFails(c) ==
  /\ Goto(c, "dial", "refused")
  /\ UNCHANGED <<ctxDone, serverVars, stackVars, timeVars, answer, dataVars, up, down>>

(* sendReply(client, 0x00) and the end of the deadline; nothing looks at    *)
(* the times of this client any more                                        *)
ReplyOk(c) ==
  /\ Goto(c, "dialed", "relay") /\ ~Expired(c)
  /\ answer' = [answer EXCEPT ![c] = "ok"]
  /\ deadline' = deadline \ {c}
  /\ age' = [age EXCEPT ![c] = 0] /\ began' = [began EXCEPT ![c] = Deadline]
  /\ up' = [up EXCEPT ![c] = "reading"] /\ down' = [down EXCEPT ![c] = "reading"]
  /\ UNCHANGED <<ctxDone, serverVars, stackVars, dataVars>>
ReplyLost(c) ==
  /\ Goto(c, "dialed", "over") /\ (Expired(c) \/ client[c] = "gone")
  /\ UNCHANGED <<ctxDone, serverVars, stackVars, timeVars, answer, dataVars, up, down>>

(* sendReply(client, 0x04), whose error is ignored *)
ReplyRefused(c) ==
  /\ Goto(c, "refused", "over")
  /\ answer' = [answer EXCEPT ![c] = IF Expired(c) \/ client[c] = "gone" THEN @ ELSE "failed"]
  /\ UNCHANGED <<ctxDone, serverVars, stackVars, timeVars, dataVars, up, down>>

(* Time: a read past the deadline and a dial past its timeout end at once,  *)
(* and a reply follows its dial at once                                     *)
Timed(c) == pc[c] \in {"handshake", "dial"} \/ (pc[c] = "relay" /\ c \in deadline /\ ~Expired(c))
MayPassAnyDial(c) ==   \* mutant: DialContext without a timeout
  /\ pc[c] \notin {"dialed", "refused"}
  /\ pc[c] = "handshake" => age[c] < Deadline
MayPass(c) ==
  /\ pc[c] \notin {"dialed", "refused"}
  /\ pc[c] = "handshake" => age[c] < Deadline
  /\ pc[c] = "dial" => age[c] < began[c] + ConnectTimeout
Tick ==
  /\ \A c \in Clients : MayPass(c)
  /\ \E c \in Clients : Timed(c)
  /\ age' = [c \in Clients |-> IF Timed(c) THEN age[c] + 1 ELSE age[c]]
  /\ UNCHANGED <<ctxDone, serverVars, stackVars, pc, began, deadline, answer, dataVars, up, down>>

-----------------------------------------------------------------------------
(* The client and its target.  What a client sends before the relay starts  *)
(* waits in the socket, as if it were sent then; that it is gone shows in   *)
(* the handshake and in the reply.                                          *)

Present == {"handshake", "dial", "dialed", "refused", "relay"}

ClientSends(c) ==
  /\ pc[c] = "relay" /\ client[c] = "open" /\ sentUp[c] < Chunks
  /\ sentUp' = [sentUp EXCEPT ![c] = @ + 1]
  /\ UNCHANGED <<ctxDone, serverVars, stackVars, pc, timeVars, answer, client, target,
                 gotUp, sentDown, gotDown, up, down>>
ClientCloses(c, how) ==
  /\ \/ how = "half" /\ pc[c] = "relay" /\ client[c] = "open"
     \/ how = "gone" /\ pc[c] \in Present /\ client[c] # "gone"
  /\ client' = [client EXCEPT ![c] = how]
  /\ UNCHANGED <<ctxDone, serverVars, stackVars, pc, timeVars, answer, target, sentUp,
                 gotUp, sentDown, gotDown, up, down>>
TargetSends(c) ==
  /\ pc[c] = "relay" /\ target[c] = "open" /\ sentDown[c] < Chunks
  /\ sentDown' = [sentDown EXCEPT ![c] = @ + 1]
  /\ UNCHANGED <<ctxDone, serverVars, stackVars, pc, timeVars, answer, client, target,
                 sentUp, gotUp, gotDown, up, down>>
TargetCloses(c, how) ==
  /\ pc[c] = "relay" /\ target[c] # "gone" /\ target[c] # how
  /\ target' = [target EXCEPT ![c] = how]
  /\ UNCHANGED <<ctxDone, serverVars, stackVars, pc, timeVars, answer, client, sentUp,
                 gotUp, sentDown, gotDown, up, down>>

Peers(c) ==
  \/ ClientSends(c) \/ TargetSends(c)
  \/ \E how \in {"half", "gone"} : ClientCloses(c, how) \/ TargetCloses(c, how)

-----------------------------------------------------------------------------
(* relay: two copyAndClose *)

Broken(c) == target[c] = "gone" \/ stack \in {"closing", "closed"}   \* upstream may fail
Dead(c)   == target[c] = "gone" \/ stack = "closed"                  \* upstream must fail

(* io.Copy reads a chunk and then writes it.  While it waits for its source *)
(* it does not notice that the destination is gone, and while it waits in a *)
(* Write it does not notice what becomes of the source.                     *)
ReadUp(c) ==
  /\ up[c] = "reading" /\ gotUp[c] < sentUp[c] /\ ~Expired(c)
  /\ up' = [up EXCEPT ![c] = "writing"]
  /\ UNCHANGED <<ctxDone, serverVars, stackVars, pc, timeVars, answer, dataVars, down>>
ReadDown(c) ==
  /\ down[c] = "reading" /\ gotDown[c] < sentDown[c] /\ ~Dead(c)
  /\ down' = [down EXCEPT ![c] = "writing"]
  /\ UNCHANGED <<ctxDone, serverVars, stackVars, pc, timeVars, answer, dataVars, up>>

(* A Write returns when the peer, or its buffer, has taken the chunk *)
WrittenUp(c) ==
  /\ up[c] = "writing" /\ ~Dead(c)
  /\ up' = [up EXCEPT ![c] = "reading"] /\ gotUp' = [gotUp EXCEPT ![c] = @ + 1]
  /\ UNCHANGED <<ctxDone, serverVars, stackVars, pc, timeVars, answer, client, target,
                 sentUp, sentDown, gotDown, down>>
WrittenDown(c) ==
  /\ down[c] = "writing" /\ client[c] # "gone" /\ ~Expired(c)
  /\ down' = [down EXCEPT ![c] = "reading"] /\ gotDown' = [gotDown EXCEPT ![c] = @ + 1]
  /\ UNCHANGED <<ctxDone, serverVars, stackVars, pc, timeVars, answer, client, target,
                 sentUp, gotUp, sentDown, up>>
Taken(c) == WrittenUp(c) \/ WrittenDown(c)

(* The end of the source, or an error of the side that is waited for;       *)
(* closeWrite(dst) and closeRead(src) follow                                *)
EndUp(c) ==
  /\ \/ up[c] = "reading" /\ (client[c] = "gone" \/ Expired(c))
     \/ up[c] = "reading" /\ client[c] = "half" /\ gotUp[c] = sentUp[c]
     \/ up[c] = "writing" /\ Broken(c)
  /\ up' = [up EXCEPT ![c] = "done"]
  /\ UNCHANGED <<ctxDone, serverVars, stackVars, pc, timeVars, answer, dataVars, down>>
EndDown(c) ==
  /\ \/ down[c] = "reading" /\ Broken(c)
     \/ down[c] = "reading" /\ target[c] = "half" /\ gotDown[c] = sentDown[c]
     \/ down[c] = "writing" /\ (client[c] = "gone" \/ Expired(c))
  /\ down' = [down EXCEPT ![c] = "done"]
  /\ UNCHANGED <<ctxDone, serverVars, stackVars, pc, timeVars, answer, dataVars, up>>

(* wg.Wait, then the deferred Close of both connections *)
RelayOverEarly(c) ==   \* mutant: the first copy that ends ends the relay
  /\ Goto(c, "relay", "over") /\ (up[c] = "done" \/ down[c] = "done")
  /\ UNCHANGED <<ctxDone, serverVars, stackVars, timeVars, answer, dataVars, up, down>>
RelayOver(c) ==
  /\ Goto(c, "relay", "over") /\ up[c] = "done" /\ down[c] = "done"
  /\ UNCHANGED <<ctxDone, serverVars, stackVars, timeVars, answer, dataVars, up, down>>

Shake(c) == HandshakeOk(c) \/ HandshakeFails(c)
Dial(c) == DialOk(c) \/ DialFails(c)
Reply(c) == ReplyOk(c) \/ ReplyLost(c) \/ ReplyRefused(c)
CopyingUp(c)   == ReadUp(c) \/ EndUp(c)
CopyingDown(c) == ReadDown(c) \/ EndDown(c)
Handler(c) == Shake(c) \/ Dial(c) \/ Reply(c) \/ CopyingUp(c) \/ CopyingDown(c) \/ RelayOver(c)

SocksNext ==
  \/ \E s \in Servers : ServeStep(s) \/ AcceptError(s)
  \/ \E s \in Servers, c \in Clients : Accept(s, c)
  \/ CloseWhenContextDone \/ StackDown \/ Tick
  \/ \E c \in Clients : Handler(c) \/ Taken(c) \/ Peers(c)

(* Goroutines go on; the dial and the reads of a handshake have timeouts,   *)
(* and the runtime's timers fire.  Nobody has to accept, speak or close,    *)
(* nor to take what a copy writes to it.                                    *)
ServerGoesOn(s) == WF_socksVars(ServeStep(s))
HandlerGoesOn(c) ==
  /\ WF_socksVars(HandshakeFails(c) /\ (Expired(c) \/ client[c] = "gone"))
  /\ WF_socksVars(Dial(c)) /\ WF_socksVars(Reply(c))
  /\ WF_socksVars(CopyingUp(c)) /\ WF_socksVars(CopyingDown(c)) /\ WF_socksVars(RelayOver(c))
ServersGoOn  == \A s \in Servers : ServerGoesOn(s)
HandlersGoOn == \A c \in Clients : HandlerGoesOn(c)
SocksFairness ==
  /\ ServersGoOn /\ HandlersGoOn
  /\ WF_socksVars(CloseWhenContextDone) /\ WF_socksVars(StackDown) /\ WF_socksVars(Tick)

-----------------------------------------------------------------------------
(* Every variable has its type. *)
SocksTypeOK ==
  /\ ctxDone \in BOOLEAN
  /\ serve \in [Servers -> ServeStates] /\ socket \in [Servers -> {"none", "open", "closed"}]
  /\ published \subseteq Servers
  /\ tunnel \in {"none", "open", "closed"} /\ stack \in StackStates
  /\ pc \in [Clients -> ClientStates]
  /\ age \in [Clients -> 0 .. Deadline + ConnectTimeout] /\ began \in [Clients -> 0 .. Deadline]
  /\ deadline \subseteq Clients /\ answer \in [Clients -> {"none", "ok", "failed"}]
  /\ client \in [Clients -> Sides] /\ target \in [Clients -> Sides]
  /\ sentUp \in [Clients -> 0 .. Chunks] /\ gotUp \in [Clients -> 0 .. Chunks]
  /\ sentDown \in [Clients -> 0 .. Chunks] /\ gotDown \in [Clients -> 0 .. Chunks]
  /\ up \in [Clients -> Copies] /\ down \in [Clients -> Copies]

(* A client that stays gets an answer unless its handshake left less of the *)
(* deadline than a dial may take: handleClient sets the deadline once for   *)
(* handshake, dial and reply, and a reply that comes later is lost.         *)
AnsweredInTime ==
  \A c \in Clients :
    pc[c] = "over" /\ answer[c] = "none" /\ client[c] # "gone" =>
      began[c] + ConnectTimeout >= Deadline

(* Half-closing loses nothing: when a relay is over and nobody broke it, all *)
(* that either side has sent has reached the other, in whichever order and  *)
(* however early the two sides closed.                                      *)
OrderlyTransfer ==
  \A c \in Clients :
    /\ pc[c] = "over" /\ answer[c] = "ok" /\ stack = "open"
    /\ client[c] # "gone" /\ target[c] # "gone"
    => gotUp[c] = sentUp[c] /\ gotDown[c] = sentDown[c]

(* A copy waits in a Write for a peer that is there. *)
AwaitsPeer(c) ==
  \/ up[c] = "writing" /\ ~Dead(c)
  \/ down[c] = "writing" /\ client[c] # "gone"

(* No handler stays for ever: one that has not come to its relay ends or    *)
(* comes there, and a relay ends once its client has stopped sending and    *)
(* its target has, or the tunnel is down; unless a copy waits for ever for  *)
(* a peer that does not take what is written to it, since no deadline is    *)
(* left by then.                                                            *)
HandlerEnds ==
  \A c \in Clients :
    /\ pc[c] \in {"handshake", "dial", "dialed", "refused"} ~>
         pc[c] \in {"relay", "over", "killed"}
    /\ (pc[c] = "relay" /\ client[c] # "open" /\ (target[c] # "open" \/ stack = "closed")) ~>
         (pc[c] \in {"over", "killed"} \/ []AwaitsPeer(c))
=============================================================================
