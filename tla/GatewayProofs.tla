--------------------------- MODULE GatewayProofs ---------------------------
(***************************************************************************)
(* Theorems about Gateway, for every number of servers and clients, every  *)
(* deadline and dial timeout, and any amount of data.                      *)
(***************************************************************************)
EXTENDS Gateway, TLAPS

USE DEF serverVars, stackVars, timeVars, dataVars, ownerVars, StackStates

LEMMA Bounds == Deadline \in Nat /\ ConnectTimeout \in Nat /\ Chunks \in Nat
BY SocksAssumption DEF SocksAssumption

-----------------------------------------------------------------------------
(* The invariant *)

(* Where the owner is, and what of tunnel and stack there is by then;       *)
(* nothing is served before there is a stack, nor through one that is left. *)
Owned ==
  /\ owner = "new" => toClose = {} /\ read = {}
  /\ owner \in {"new", "starting"} => tunnel = "none"
  /\ owner \in {"new", "starting", "tunnelled"} => stack = "none"
  /\ owner \in {"waiting", "running", "cancelling", "servers"} => stack \in {"open", "closing", "closed"}
  /\ owner = "dialer" => stack \in {"closing", "closed"}
  /\ stack = "closed" => tunnel = "closed"
  /\ stack \in {"none", "left"} => (\A s \in Servers : serve[s] = "none") /\ (\A c \in Clients : pc[c] = "idle")

(* A handler that has no relay yet has its deadline, and a dial takes no    *)
(* longer than its timeout.                                                 *)
Before == {"idle", "handshake", "dial", "dialed", "refused"}
Timely(c) ==
  /\ pc[c] \in Before \ {"idle"} => c \in deadline
  /\ pc[c] \in Before => answer[c] = "none"
  /\ pc[c] \in {"idle", "handshake"} => began[c] = Deadline
  /\ pc[c] \in {"dial", "dialed", "refused"} => age[c] <= began[c] + ConnectTimeout
  /\ pc[c] = "over" /\ answer[c] = "none" /\ client[c] # "gone" =>
       began[c] + ConnectTimeout >= Deadline

(* A copy that is done though nothing broke has seen the end of its source. *)
Whole(c) == stack = "open" /\ client[c] # "gone" /\ target[c] # "gone"
Relayed(c) ==
  /\ pc[c] = "relay" => answer[c] = "ok" /\ c \notin deadline /\ up[c] # "off" /\ down[c] # "off"
  /\ pc[c] = "idle" => up[c] = "off" /\ down[c] = "off"
  /\ up[c] \in {"reading", "writing"} \/ down[c] \in {"reading", "writing"} => pc[c] = "relay"
  /\ up[c] = "writing" => gotUp[c] < sentUp[c]
  /\ down[c] = "writing" => gotDown[c] < sentDown[c]
  /\ up[c] = "done" /\ Whole(c) => client[c] = "half" /\ gotUp[c] = sentUp[c]
  /\ down[c] = "done" /\ Whole(c) => target[c] = "half" /\ gotDown[c] = sentDown[c]
  /\ pc[c] = "over" /\ answer[c] = "ok" /\ Whole(c) =>
       gotUp[c] = sentUp[c] /\ gotDown[c] = sentDown[c]

Served == \A c \in Clients : Timely(c) /\ Relayed(c)

Inv == TypeOK /\ Owned /\ ClosedMeansDown /\ Served

LEMMA InitInv == Init => Inv
<1> SUFFICES ASSUME Init PROVE Inv
  OBVIOUS
<1>1. TypeOK
  <2>1. 0 \in 0 .. Chunks /\ 0 \in 0 .. Deadline + ConnectTimeout /\ Deadline \in 0 .. Deadline
    BY Bounds
  <2>2. /\ age \in [Clients -> 0 .. Deadline + ConnectTimeout] /\ began \in [Clients -> 0 .. Deadline]
        /\ sentUp \in [Clients -> 0 .. Chunks] /\ gotUp \in [Clients -> 0 .. Chunks]
        /\ sentDown \in [Clients -> 0 .. Chunks] /\ gotDown \in [Clients -> 0 .. Chunks]
    BY <2>1 DEF Init, SocksInit
  <2> QED
    BY <2>2 DEF Init, SocksInit, TypeOK, SocksTypeOK, Kinds, OwnerStates, ServeStates, ClientStates,
       Sides, Copies
<1>2. Owned /\ ClosedMeansDown
  BY DEF Init, SocksInit, Owned, ClosedMeansDown
<1>3. Served
  BY DEF Init, SocksInit, Served, Timely, Relayed, Before
<1> QED
  BY <1>1, <1>2, <1>3 DEF Inv

-----------------------------------------------------------------------------
(* The servers, the stack and the owner                                     *)

(* A step that leaves the clients alone keeps what holds of them, unless it *)
(* makes the stack.                                                         *)
LEMMA ServedStays ==
  ASSUME Served, UNCHANGED clientVars, stack' = "open" => stack = "open" PROVE Served'
BY DEF Served, Timely, Relayed, Whole, clientVars

LEMMA ServeInv ==
  ASSUME Inv, NEW s \in Servers, ServeStep(s) \/ AcceptError(s), UNCHANGED ownerVars
  PROVE  Inv'
<1> USE DEF Inv, ServeGoto
<1>1. UNCHANGED <<stackVars, clientVars, ownerVars, ctxDone>>
  BY DEF ServeStep, Listen, ListenFails, Publish, CloseOnDone, AcceptClosed, AcceptError
<1>2. serve' \in [Servers -> ServeStates] /\ (serve[s] # "none" \/ serve' = serve)
  BY DEF ServeStep, Listen, ListenFails, Publish, CloseOnDone, AcceptClosed, AcceptError,
         TypeOK, SocksTypeOK, ServeStates
<1>3. socket' \in [Servers -> {"none", "open", "closed"}] /\ published' \subseteq Servers
  BY DEF ServeStep, Listen, ListenFails, Publish, CloseOnDone, AcceptClosed, AcceptError,
         TypeOK, SocksTypeOK
<1>4. TypeOK'
  BY <1>1, <1>2, <1>3 DEF TypeOK, SocksTypeOK, clientVars
<1>5. Owned' /\ ClosedMeansDown'
  BY <1>1, <1>2 DEF Owned, ClosedMeansDown, clientVars
<1> QED
  BY <1>1, <1>4, <1>5, ServedStays

LEMMA StackInv ==
  ASSUME Inv, CloseWhenContextDone \/ StackDown, UNCHANGED ownerVars PROVE Inv'
<1> USE DEF Inv, CloseWhenContextDone, StackDown, BeginClose
<1>1. TypeOK'
  BY DEF TypeOK, SocksTypeOK, clientVars
<1>2. Owned' /\ ClosedMeansDown'
  BY DEF Owned, ClosedMeansDown, clientVars
<1> QED
  BY <1>1, <1>2, ServedStays

LEMMA OwnerInv == ASSUME Inv, Configure \/ Begin \/ OwnerStep \/ Stop \/ Cancel PROVE Inv'
<1> USE DEF Inv
<1>1. ASSUME Configure \/ Begin PROVE Inv'
  <2>1. UNCHANGED socksVars /\ owner = "new" /\ owner' \in {"starting", "exited"}
        /\ UNCHANGED <<kind, toClose, read>> /\ enabled' \subseteq Servers
    <3>1. CASE Configure
      BY <3>1 DEF Configure, EnabledOf, TypeOK
    <3>2. CASE Begin
      BY <3>2 DEF Begin
    <3> QED
      BY <1>1, <3>1, <3>2
  <2>2. TypeOK'
    BY <2>1 DEF TypeOK, SocksTypeOK, socksVars, clientVars, OwnerStates, Owned
  <2>3. Owned' /\ ClosedMeansDown'
    BY <2>1 DEF Owned, ClosedMeansDown, socksVars, clientVars
  <2> QED
    BY <2>1, <2>2, <2>3, ServedStays DEF socksVars
<1>2. ASSUME TunnelOk \/ TunnelFails \/ DialerFails \/ DialerClosed PROVE Inv'
  <2>1. UNCHANGED <<serverVars, clientVars, kind, enabled, toClose, read>>
        /\ ctxDone' \in BOOLEAN /\ owner # "new" /\ tunnel' \in {tunnel, "open", "closed"}
        /\ stack' \in {stack, "left"}
        /\ owner' \in {"tunnelled", "closed"}
    BY <1>2 DEF TunnelOk, TunnelFails, DialerFails, DialerClosed, socksVars, TypeOK, SocksTypeOK
  <2>2. TypeOK'
    BY <2>1 DEF TypeOK, SocksTypeOK, clientVars, OwnerStates
  <2>3. Owned' /\ ClosedMeansDown'
    BY <1>2 DEF TunnelOk, TunnelFails, DialerFails, DialerClosed, Owned, ClosedMeansDown,
                socksVars, clientVars
  <2> QED
    BY <2>1, <2>2, <2>3, ServedStays
<1>3. ASSUME StartServers PROVE Inv'
  <2>1. TypeOK'
    BY <1>3 DEF StartServers, TypeOK, SocksTypeOK, clientVars, OwnerStates, ServeStates
  <2>2. Owned' /\ ClosedMeansDown'
    BY <1>3 DEF StartServers, Owned, ClosedMeansDown
  <2>3. \A c \in Clients : pc[c] = "idle"
    BY <1>3 DEF StartServers, Owned
  <2>4. Served'
    BY <1>3, <2>3 DEF StartServers, Served, Timely, Relayed, Before, clientVars
  <2> QED
    BY <2>1, <2>2, <2>4
<1>4. ASSUME \/ \E s \in Servers : ReadResult(s)
             \/ AllRead \/ WaitOk \/ WaitFails \/ CancelContext \/ Stop \/ Cancel
      PROVE  Inv'
  <2>1. UNCHANGED <<serverVars, stackVars, clientVars, kind, enabled>> /\ ctxDone' \in BOOLEAN
        /\ owner # "new" /\ toClose' \in {toClose, enabled}
    BY <1>4 DEF ReadResult, AllRead, WaitOk, WaitFails, CancelContext, Stop, Cancel, socksVars,
                TypeOK, SocksTypeOK
  <2>2. read' \subseteq enabled
    BY <1>4 DEF ReadResult, AllRead, WaitOk, WaitFails, CancelContext, Stop, Cancel, TypeOK
  <2>3. \/ owner' = owner /\ owner \notin {"closed", "exited"}
        \/ owner \in {"waiting", "running", "cancelling"} /\ owner' \in {"servers", "running", "cancelling"}
    BY <1>4 DEF ReadResult, AllRead, WaitOk, WaitFails, CancelContext, Stop, Cancel
  <2>4. TypeOK'
    BY <2>1, <2>2, <2>3 DEF TypeOK, SocksTypeOK, clientVars, OwnerStates
  <2>5. Owned' /\ ClosedMeansDown'
    BY <2>1, <2>3 DEF Owned, ClosedMeansDown, clientVars
  <2> QED
    BY <2>1, <2>4, <2>5, ServedStays
<1>5. ASSUME NEW s \in Servers, CloseNext(s) PROVE Inv'
  <2>1. TypeOK'
    BY <1>5 DEF CloseNext, CloseServer, TypeOK, SocksTypeOK, clientVars
  <2>2. Owned' /\ ClosedMeansDown'
    BY <1>5 DEF CloseNext, Owned, ClosedMeansDown, clientVars
  <2> QED
    BY <1>5, <2>1, <2>2, ServedStays DEF CloseNext
<1>6. ASSUME CloseDialer PROVE Inv'
  <2>1. stack' \in {"closing", "closed"} /\ (stack' = "closed" => stack = "closed")
    BY <1>6 DEF CloseDialer, BeginClose, Owned
  <2>2. TypeOK'
    BY <1>6, <2>1 DEF CloseDialer, TypeOK, SocksTypeOK, clientVars, OwnerStates
  <2>3. Owned' /\ ClosedMeansDown'
    BY <1>6, <2>1 DEF CloseDialer, Owned, ClosedMeansDown, clientVars
  <2> QED
    BY <1>6, <2>1, <2>2, <2>3, ServedStays DEF CloseDialer
<1>7. ASSUME Exit PROVE Inv'
  <2>1. TypeOK'
    BY <1>7 DEF Exit, TypeOK, SocksTypeOK, OwnerStates, ServeStates, ClientStates, Copies
  <2>2. Owned' /\ ClosedMeansDown'
    BY <1>7 DEF Exit, Owned, ClosedMeansDown
  <2>3. Served'
    BY <1>7 DEF Exit, Served, Timely, Relayed, Whole, Before
  <2> QED
    BY <2>1, <2>2, <2>3
<1> QED
  BY <1>1, <1>2, <1>3, <1>4, <1>5, <1>6, <1>7 DEF OwnerStep

-----------------------------------------------------------------------------
(* The clients                                                              *)

(* What a step of one client leaves of another.                             *)
Same(d) ==
  /\ pc'[d] = pc[d] /\ answer'[d] = answer[d]
  /\ age'[d] = age[d] /\ began'[d] = began[d] /\ (d \in deadline' <=> d \in deadline)
  /\ client'[d] = client[d] /\ target'[d] = target[d]
  /\ sentUp'[d] = sentUp[d] /\ gotUp'[d] = gotUp[d] /\ up'[d] = up[d]
  /\ sentDown'[d] = sentDown[d] /\ gotDown'[d] = gotDown[d] /\ down'[d] = down[d]

LEMMA OneClient ==
  ASSUME Inv, NEW c \in Clients, UNCHANGED <<ctxDone, serverVars, stackVars, ownerVars>>,
         SocksTypeOK', \A d \in Clients \ {c} : Same(d), Timely(c)', Relayed(c)',
         stack \in {"none", "left"} => pc'[c] = "idle"
  PROVE  Inv'
<1> USE DEF Inv
<1>1. TypeOK'
  BY DEF TypeOK
<1>2. Owned' /\ ClosedMeansDown'
  BY DEF Owned, ClosedMeansDown, Same
<1>3. ASSUME NEW d \in Clients PROVE Timely(d)' /\ Relayed(d)'
  <2>1. CASE d = c
    BY <2>1
  <2>2. CASE d # c
    BY <2>2 DEF Same, Served, Timely, Relayed, Whole
  <2> QED
    BY <2>1, <2>2
<1> QED
  BY <1>1, <1>2, <1>3 DEF Served

LEMMA ShakeInv ==
  ASSUME Inv, NEW c \in Clients, (\E s \in Servers : Accept(s, c)) \/ Shake(c), UNCHANGED ownerVars
  PROVE  Inv'
<1> USE DEF Inv, Goto
<1>1. Timely(c) /\ Relayed(c) /\ TypeOK /\ SocksTypeOK
  BY DEF Served, TypeOK
<1>2. ASSUME NEW s \in Servers, Accept(s, c) PROVE Inv'
  <2>1. SocksTypeOK'
    BY <1>1, <1>2 DEF Accept, SocksTypeOK, ClientStates
  <2>2. Timely(c)' /\ Relayed(c)'
    BY <1>1, <1>2 DEF Accept, SocksTypeOK, Timely, Relayed, Whole, Before
  <2>3. \A d \in Clients \ {c} : Same(d)
    BY <1>1, <1>2 DEF Accept, SocksTypeOK, Same
  <2>4. stack \notin {"none", "left"}
    BY <1>2 DEF Accept, Owned
  <2> QED
    BY <1>2, <2>1, <2>2, <2>3, <2>4, OneClient DEF Accept
<1>3. CASE HandshakeOk(c)
  <2>1. age[c] <= Deadline /\ c \in deadline
    BY <1>1, <1>3, Bounds DEF HandshakeOk, Expired, Timely, SocksTypeOK, Before
  <2>2. SocksTypeOK'
    BY <1>1, <1>3, <2>1, Bounds DEF HandshakeOk, SocksTypeOK, ClientStates
  <2>3. Timely(c)' /\ Relayed(c)'
    BY <1>1, <1>3, <2>1, Bounds DEF HandshakeOk, SocksTypeOK, Timely, Relayed, Whole, Before
  <2>4. \A d \in Clients \ {c} : Same(d)
    BY <1>1, <1>3 DEF HandshakeOk, SocksTypeOK, Same
  <2>5. stack \notin {"none", "left"}
    BY <1>3 DEF HandshakeOk, Owned
  <2> QED
    BY <1>3, <2>2, <2>3, <2>4, <2>5, OneClient DEF HandshakeOk
<1>4. CASE HandshakeFails(c)
  <2>1. SocksTypeOK'
    BY <1>1, <1>4 DEF HandshakeFails, SocksTypeOK, ClientStates
  <2>2. Timely(c)' /\ Relayed(c)'
    BY <1>1, <1>4, Bounds DEF HandshakeFails, SocksTypeOK, Timely, Relayed, Whole, Before
  <2>3. \A d \in Clients \ {c} : Same(d)
    BY <1>1, <1>4 DEF HandshakeFails, SocksTypeOK, Same
  <2>4. stack \notin {"none", "left"}
    BY <1>4 DEF HandshakeFails, Owned
  <2> QED
    BY <1>4, <2>1, <2>2, <2>3, <2>4, OneClient DEF HandshakeFails
<1> QED
  BY <1>2, <1>3, <1>4 DEF Shake

LEMMA ReplyInv ==
  ASSUME Inv, NEW c \in Clients, Dial(c) \/ Reply(c), UNCHANGED ownerVars
  PROVE  Inv'
<1> USE DEF Inv, Goto
<1>1. Timely(c) /\ Relayed(c) /\ TypeOK /\ SocksTypeOK
  BY DEF Served, TypeOK
<1>2. stack \notin {"none", "left"}
  BY DEF Dial, DialOk, DialFails, Reply, ReplyOk, ReplyLost, ReplyRefused, Owned
<1>3. UNCHANGED <<ctxDone, serverVars, stackVars>>
  BY DEF Dial, DialOk, DialFails, Reply, ReplyOk, ReplyLost, ReplyRefused
<1>4. \A d \in Clients \ {c} : Same(d)
  BY <1>1 DEF Dial, DialOk, DialFails, Reply, ReplyOk, ReplyLost, ReplyRefused, SocksTypeOK, Same
<1>5. CASE Dial(c)
  <2>1. SocksTypeOK'
    BY <1>1, <1>5 DEF Dial, DialOk, DialFails, SocksTypeOK, ClientStates
  <2>2. Timely(c)' /\ Relayed(c)'
    BY <1>1, <1>5 DEF Dial, DialOk, DialFails, SocksTypeOK, Timely, Relayed, Whole, Before
  <2> QED
    BY <1>2, <1>3, <1>4, <2>1, <2>2, OneClient
<1>6. CASE ReplyOk(c)
  <2>1. 0 \in 0 .. Deadline + ConnectTimeout /\ Deadline \in 0 .. Deadline
    BY Bounds
  <2>2. SocksTypeOK'
    BY <1>1, <1>6, <2>1 DEF ReplyOk, SocksTypeOK, ClientStates, Copies
  <2>3. Timely(c)' /\ Relayed(c)'
    BY <1>1, <1>6 DEF ReplyOk, SocksTypeOK, Timely, Relayed, Whole, Before
  <2> QED
    BY <1>2, <1>3, <1>4, <2>2, <2>3, OneClient
<1>7. CASE ReplyLost(c)
  <2>1. SocksTypeOK'
    BY <1>1, <1>7 DEF ReplyLost, SocksTypeOK, ClientStates
  <2>2. age[c] \in Nat /\ began[c] \in Nat
    BY <1>1, Bounds DEF SocksTypeOK
  <2>3. Timely(c)' /\ Relayed(c)'
    BY <1>1, <1>7, <2>2, Bounds DEF ReplyLost, Expired, SocksTypeOK, Timely, Relayed, Whole, Before
  <2> QED
    BY <1>2, <1>3, <1>4, <2>1, <2>3, OneClient
<1>8. CASE ReplyRefused(c)
  <2>1. SocksTypeOK'
    BY <1>1, <1>8 DEF ReplyRefused, SocksTypeOK, ClientStates
  <2>2. age[c] \in Nat /\ began[c] \in Nat
    BY <1>1, Bounds DEF SocksTypeOK
  <2>3. Timely(c)' /\ Relayed(c)'
    BY <1>1, <1>8, <2>2, Bounds DEF ReplyRefused, Expired, SocksTypeOK, Timely, Relayed, Whole, Before
  <2> QED
    BY <1>2, <1>3, <1>4, <2>1, <2>3, OneClient
<1> QED
  BY <1>5, <1>6, <1>7, <1>8 DEF Reply

LEMMA RelayInv ==
  ASSUME Inv, NEW c \in Clients, CopyingUp(c) \/ CopyingDown(c) \/ RelayOver(c), UNCHANGED ownerVars
  PROVE  Inv'
<1> USE DEF Inv, Goto
<1>1. Timely(c) /\ Relayed(c) /\ TypeOK /\ SocksTypeOK
  BY DEF Served, TypeOK
<1>2. pc[c] = "relay" /\ UNCHANGED <<ctxDone, serverVars, stackVars, timeVars, answer>>
  BY <1>1 DEF CopyingUp, ReadUp, EndUp, CopyingDown, ReadDown, EndDown, RelayOver, Relayed
<1>3. stack \notin {"none", "left"} /\ c \notin deadline
  BY <1>1, <1>2 DEF Owned, Relayed
<1>4. \A d \in Clients \ {c} : Same(d)
  BY <1>1 DEF CopyingUp, ReadUp, EndUp, CopyingDown, ReadDown, EndDown, RelayOver, SocksTypeOK, Same
<1>5. CASE ReadUp(c) \/ ReadDown(c)
  <2>1. SocksTypeOK'
    BY <1>1, <1>5 DEF ReadUp, ReadDown, SocksTypeOK, Copies
  <2>2. Timely(c)' /\ Relayed(c)'
    BY <1>1, <1>2, <1>5 DEF ReadUp, ReadDown, SocksTypeOK, Timely, Relayed, Whole, Before
  <2> QED
    BY <1>2, <1>3, <1>4, <2>1, <2>2, OneClient
<1>6. CASE EndUp(c) \/ EndDown(c)
  <2>1. SocksTypeOK'
    BY <1>1, <1>6 DEF EndUp, EndDown, SocksTypeOK, Copies
  <2>2. Timely(c)' /\ Relayed(c)'
    BY <1>1, <1>2, <1>3, <1>6 DEF EndUp, EndDown, Broken, Expired, SocksTypeOK, Timely, Relayed, Whole, Before
  <2> QED
    BY <1>2, <1>3, <1>4, <2>1, <2>2, OneClient
<1>7. CASE RelayOver(c)
  <2>1. SocksTypeOK'
    BY <1>1, <1>7 DEF RelayOver, SocksTypeOK, ClientStates
  <2>2. Timely(c)' /\ Relayed(c)'
    BY <1>1, <1>7 DEF RelayOver, SocksTypeOK, Timely, Relayed, Whole, Before
  <2> QED
    BY <1>2, <1>3, <1>4, <1>7, <2>1, <2>2, OneClient DEF RelayOver
<1> QED
  BY <1>5, <1>6, <1>7 DEF CopyingUp, CopyingDown

LEMMA PeersInv ==
  ASSUME Inv, NEW c \in Clients, Peers(c), UNCHANGED ownerVars PROVE Inv'
<1> USE DEF Inv
<1>1. Timely(c) /\ Relayed(c) /\ TypeOK /\ SocksTypeOK
  BY DEF Served, TypeOK
<1>2. pc[c] \in Present /\ UNCHANGED <<ctxDone, serverVars, stackVars, pc, timeVars, answer, up, down>>
  BY DEF Peers, ClientSends, ClientCloses, TargetSends, TargetCloses, Present
<1>3. stack \notin {"none", "left"}
  BY <1>2 DEF Owned, Present
<1>4. \A d \in Clients \ {c} : Same(d)
  BY <1>1 DEF Peers, ClientSends, ClientCloses, TargetSends, TargetCloses, SocksTypeOK, Same
<1>5. CASE ClientSends(c) \/ TargetSends(c)
  <2>1. SocksTypeOK'
    BY <1>1, <1>5, Bounds DEF ClientSends, TargetSends, SocksTypeOK
  <2>2. Timely(c)' /\ Relayed(c)'
    BY <1>1, <1>5 DEF ClientSends, TargetSends, SocksTypeOK, Timely, Relayed, Whole, Before
  <2> QED
    BY <1>2, <1>3, <1>4, <2>1, <2>2, OneClient
<1>6. ASSUME NEW how \in {"half", "gone"}, ClientCloses(c, how) \/ TargetCloses(c, how) PROVE Inv'
  <2>1. SocksTypeOK'
    BY <1>1, <1>6 DEF ClientCloses, TargetCloses, SocksTypeOK, Sides
  <2>2. Timely(c)' /\ Relayed(c)'
    BY <1>1, <1>6 DEF ClientCloses, TargetCloses, SocksTypeOK, Timely, Relayed, Whole, Before, Present
  <2> QED
    BY <1>2, <1>3, <1>4, <2>1, <2>2, OneClient
<1> QED
  BY <1>5, <1>6 DEF Peers

LEMMA TakenInv ==
  ASSUME Inv, NEW c \in Clients, Taken(c), UNCHANGED ownerVars PROVE Inv'
<1> USE DEF Inv
<1>1. Timely(c) /\ Relayed(c) /\ TypeOK /\ SocksTypeOK
  BY DEF Served, TypeOK
<1>2. pc[c] = "relay" /\ UNCHANGED <<ctxDone, serverVars, stackVars, pc, timeVars, answer>>
  BY <1>1 DEF Taken, WrittenUp, WrittenDown, Relayed
<1>3. stack \notin {"none", "left"}
  BY <1>2 DEF Owned
<1>4. \A d \in Clients \ {c} : Same(d)
  BY <1>1 DEF Taken, WrittenUp, WrittenDown, SocksTypeOK, Same
<1>5. SocksTypeOK'
  BY <1>1, Bounds DEF Taken, WrittenUp, WrittenDown, Relayed, SocksTypeOK, Copies
<1>6. Timely(c)' /\ Relayed(c)'
  BY <1>1, <1>2 DEF Taken, WrittenUp, WrittenDown, SocksTypeOK, Timely, Relayed, Whole, Before
<1> QED
  BY <1>2, <1>3, <1>4, <1>5, <1>6, OneClient

LEMMA TickInv == ASSUME Inv, Tick, UNCHANGED ownerVars PROVE Inv'
<1> USE DEF Inv, Tick
<1>1. TypeOK /\ SocksTypeOK
  BY DEF TypeOK
<1>2. ASSUME NEW c \in Clients
      PROVE  /\ age'[c] \in 0 .. Deadline + ConnectTimeout
             /\ age'[c] = age[c] \/ age'[c] = age[c] + 1
             /\ pc[c] = "dial" => age'[c] <= began[c] + ConnectTimeout
             /\ pc[c] \in {"dialed", "refused"} => age'[c] = age[c]
  <2>1. age[c] \in 0 .. Deadline + ConnectTimeout /\ began[c] \in 0 .. Deadline /\ MayPass(c)
    BY <1>1 DEF SocksTypeOK
  <2>2. CASE Timed(c)
    <3>1. age'[c] = age[c] + 1
      BY <2>2
    <3>2. age[c] < Deadline \/ age[c] < began[c] + ConnectTimeout
      BY <2>1, <2>2, Bounds DEF Timed, MayPass, Expired
    <3> QED
      BY <2>1, <3>1, <3>2, Bounds DEF MayPass
  <2>3. CASE ~Timed(c)
    BY <2>1, <2>3 DEF Timed
  <2> QED
    BY <2>2, <2>3
<1>3. age' \in [Clients -> 0 .. Deadline + ConnectTimeout]
  BY <1>2
<1>4. TypeOK'
  BY <1>1, <1>3 DEF TypeOK, SocksTypeOK
<1>5. Owned' /\ ClosedMeansDown'
  BY DEF Owned, ClosedMeansDown
<1>6. Served'
  BY <1>2 DEF Served, Timely, Relayed, Whole, Before
<1> QED
  BY <1>4, <1>5, <1>6

LEMMA NextInv == Inv /\ [Next]_vars => Inv'
<1> SUFFICES ASSUME Inv, [Next]_vars PROVE Inv'
  OBVIOUS
<1>1. CASE UNCHANGED vars
  <2>1. TypeOK' /\ Owned' /\ ClosedMeansDown'
    BY <1>1 DEF vars, socksVars, clientVars, Inv, TypeOK, SocksTypeOK, Owned, ClosedMeansDown
  <2> QED
    BY <1>1, <2>1, ServedStays DEF vars, socksVars, Inv
<1>2. CASE SocksNext /\ UNCHANGED ownerVars
  BY <1>2, ServeInv, StackInv, ShakeInv, ReplyInv, RelayInv, TakenInv, PeersInv, TickInv
     DEF SocksNext, Handler
<1>3. CASE Configure \/ Begin \/ OwnerStep \/ Stop \/ Cancel
  BY <1>3, OwnerInv
<1> QED
  BY <1>1, <1>2, <1>3 DEF Next

(* The invariant holds: what the owner has, what is timely, what is relayed.*)
THEOREM InvHolds == Spec => []Inv
BY InitInv, NextInv, PTL DEF Spec

-----------------------------------------------------------------------------
(* Every variable has its type in every reachable state.                    *)
THEOREM TypeCorrect == Spec => []TypeOK
<1>1. Inv => TypeOK
  BY DEF Inv
<1> QED
  BY <1>1, InvHolds, PTL

(* Tunnel and stack are down when the owner says so, whoever closed them.   *)
THEOREM ClosedIsDown == Spec => []ClosedMeansDown
<1>1. Inv => ClosedMeansDown
  BY DEF Inv
<1> QED
  BY <1>1, InvHolds, PTL

(* A client whose handshake leaves the time of a dial is answered, for all  *)
(* lengths of the deadline and of the timeout.                              *)
THEOREM ClientsAreAnswered == Spec => []AnsweredInTime
<1>1. Inv => AnsweredInTime
  BY DEF Inv, Served, Timely, AnsweredInTime
<1> QED
  BY <1>1, InvHolds, PTL

(* A relay that nothing broke has delivered all that was sent.              *)
THEOREM TransferIsOrderly == Spec => []OrderlyTransfer
<1>1. Inv => OrderlyTransfer
  BY DEF Inv, Served, Relayed, Whole, OrderlyTransfer
<1> QED
  BY <1>1, InvHolds, PTL
-----------------------------------------------------------------------------
(* What goes on until it ends.  A fair action's step is taken again and     *)
(* again unless it is impossible again and again; that it is possible where *)
(* NothingStuck says so is the hypothesis of the theorems below, since the  *)
(* provers know nothing of ENABLED.                                         *)

(* What a listener and its Serve have come to, and what a closed owner has  *)
(* left: a context that is done, or no server that had begun.               *)
ListenerFits(s) ==
  /\ serve[s] \in {"none", "called"} => socket[s] = "none"
  /\ serve[s] = "bound" => socket[s] = "open"
  /\ serve[s] = "accepting" => s \in published /\ socket[s] # "none"
  /\ serve[s] = "returned" /\ socket[s] = "open" => s \in published
  /\ s \in published => serve[s] \in {"accepting", "returned"}
OwnerLeaves ==
  /\ owner = "new" => ~ctxDone
  /\ kind # "gateway" => owner # "exited"
  /\ owner = "closed" /\ kind # "gateway" => ctxDone \/ stack = "none"
  /\ owner = "exited" => \A s \in Servers : serve[s] \in {"none", "returned"} /\ socket[s] # "open"
  /\ kind # "gateway" => \A s, t \in enabled : s = t
Left == OwnerLeaves /\ \A s \in Servers : ListenerFits(s)

LEMMA LeftInit == Init => Left
BY DEF Init, SocksInit, Left, OwnerLeaves, ListenerFits

LEMMA LeftNext == Inv /\ Left /\ [Next]_vars => Left'
<1> SUFFICES ASSUME Inv, Left, [Next]_vars PROVE Left'
  OBVIOUS
<1> USE DEF Inv
<1>1. CASE UNCHANGED <<serverVars, ownerVars, stack>> /\ ctxDone' = ctxDone
  BY <1>1 DEF Left, OwnerLeaves, ListenerFits
<1>2. ASSUME NEW s \in Servers, ServeStep(s) \/ AcceptError(s), UNCHANGED ownerVars, owner # "exited"
      PROVE  Left'
  <2>1. UNCHANGED <<ctxDone, stack>>
    BY <1>2 DEF ServeStep, Listen, ListenFails, Publish, CloseOnDone, AcceptClosed, AcceptError
  <2>2. OwnerLeaves'
    BY <1>2, <2>1 DEF Left, OwnerLeaves
  <2>3. ListenerFits(s)'
    BY <1>2 DEF ServeStep, Listen, ListenFails, Publish, CloseOnDone, AcceptClosed, AcceptError,
                ServeGoto, Left, ListenerFits, TypeOK, SocksTypeOK
  <2>4. ASSUME NEW t \in Servers, t # s PROVE ListenerFits(t)'
    BY <1>2, <2>4 DEF ServeStep, Listen, ListenFails, Publish, CloseOnDone, AcceptClosed,
                      AcceptError, ServeGoto, Left, ListenerFits, TypeOK, SocksTypeOK
  <2> QED
    BY <2>2, <2>3, <2>4 DEF Left
<1>3. CASE (CloseWhenContextDone \/ StackDown) /\ UNCHANGED ownerVars
  BY <1>3 DEF CloseWhenContextDone, StackDown, BeginClose, Left, OwnerLeaves, ListenerFits
<1>4. CASE Configure \/ Begin
  <2>1. UNCHANGED socksVars /\ stack = "none" /\ kind' = kind
    BY <1>4 DEF Configure, Begin, Owned
  <2>2. OwnerLeaves'
    BY <1>4, <2>1 DEF Configure, Begin, Left, OwnerLeaves, ListenerFits, Owned, socksVars
  <2> QED
    BY <2>1, <2>2 DEF Left, ListenerFits, socksVars
<1>5. CASE \/ TunnelOk \/ TunnelFails \/ DialerFails \/ AllRead \/ WaitOk \/ WaitFails
           \/ CancelContext \/ CloseDialer \/ DialerClosed \/ Stop \/ Cancel
           \/ \E s \in Servers : ReadResult(s)
  <2>1. UNCHANGED <<serverVars, kind, enabled>> /\ owner # "new" /\ owner' \notin {"new", "exited"}
    BY <1>5 DEF TunnelOk, TunnelFails, DialerFails, AllRead, WaitOk, WaitFails, CancelContext,
                CloseDialer, DialerClosed, Stop, Cancel, ReadResult, socksVars, TypeOK, OwnerStates
  <2>2. owner' = "closed" /\ kind # "gateway" => ctxDone' \/ stack' = "none"
    BY <1>5 DEF TunnelOk, TunnelFails, DialerFails, AllRead, WaitOk, WaitFails, CancelContext,
                CloseDialer, DialerClosed, Stop, Cancel, ReadResult, socksVars, Owned, OwnerLeaves, Left
  <2> QED
    BY <2>1, <2>2 DEF Left, OwnerLeaves, ListenerFits
<1>6. CASE StartServers
  BY <1>6 DEF StartServers, Left, OwnerLeaves, ListenerFits, Owned, TypeOK, SocksTypeOK
<1>7. ASSUME NEW s \in Servers, CloseNext(s) PROVE Left'
  BY <1>7 DEF CloseNext, CloseServer, Left, OwnerLeaves, ListenerFits, TypeOK, SocksTypeOK
<1>8. CASE Exit
  BY <1>8 DEF Exit, Left, OwnerLeaves, ListenerFits, TypeOK, SocksTypeOK
<1>9. CASE /\ \/ \E s \in Servers, c \in Clients : Accept(s, c)
              \/ Tick \/ \E c \in Clients : Handler(c) \/ Taken(c) \/ Peers(c)
           /\ UNCHANGED ownerVars
  <2>1. UNCHANGED <<serverVars, stack>> /\ ctxDone' = ctxDone
    BY <1>9 DEF Accept, Tick, Handler, Shake, HandshakeOk, HandshakeFails, Dial, DialOk, DialFails,
                Reply, ReplyOk, ReplyLost, ReplyRefused, CopyingUp, ReadUp, EndUp, CopyingDown,
                ReadDown, EndDown, RelayOver, Taken, WrittenUp, WrittenDown, Peers, ClientSends,
                ClientCloses, TargetSends, TargetCloses
  <2> QED
    BY <1>1, <1>9, <2>1
<1> QED
  BY <1>1, <1>2, <1>3, <1>4, <1>5, <1>6, <1>7, <1>8, <1>9
     DEF Next, SocksNext, OwnerStep, vars, socksVars

(* A listener and the goroutine of its Serve are where the state of their    *)
(* owner has left them, and nothing is open once the process has ended.      *)
THEOREM LeftHolds == Spec => []Left
BY LeftInit, LeftNext, InvHolds, PTL DEF Spec

LEMMA FairIsSpec == FairSpec => Spec /\ []Inv /\ []Left /\ [][Next]_vars
BY InvHolds, LeftHolds, PTL DEF FairSpec, Spec

(* The fair actions, by what makes them possible *)
LEMMA ServeGoesOn ==
  ASSUME NEW s \in Servers
  PROVE  FairSpec /\ []NothingStuck => []<>~CanServe(s) \/ []<><<ServeStep(s)>>_socksVars
<1>1. ServersGoOn => ServerGoesOn(s)
  BY DEF ServersGoOn
<1>2. NothingStuck => (CanServe(s) => ENABLED <<ServeStep(s)>>_socksVars)
  BY DEF NothingStuck
<1> QED
  BY <1>1, <1>2, PTL DEF FairSpec, SocksFairness, ServerGoesOn

LEMMA OwnerGoesOn == FairSpec /\ []NothingStuck => []<>~CanOwn \/ []<><<OwnerStep>>_vars
<1>1. NothingStuck => (CanOwn => ENABLED <<OwnerStep>>_vars)
  BY DEF NothingStuck
<1> QED
  BY <1>1, PTL DEF FairSpec

LEMMA StackGoesOn == FairSpec /\ []NothingStuck => []<>~StackGoesDown \/ []<><<StackDown>>_socksVars
<1>1. NothingStuck => (StackGoesDown => ENABLED <<StackDown>>_socksVars)
  BY DEF NothingStuck
<1> QED
  BY <1>1, PTL DEF FairSpec, SocksFairness

LEMMA StopGoesOn == FairSpec /\ []NothingStuck => []<>~CanStop \/ []<><<Stop /\ MustStop>>_vars
<1>1. NothingStuck => (CanStop => ENABLED <<Stop /\ MustStop>>_vars)
  BY DEF NothingStuck
<1> QED
  BY <1>1, PTL DEF FairSpec

(* After the end of a backend only Serve itself and an error of its listener *)
(* touch the listener, unless the process ends.                              *)
ServeMoves(s) ==
  \/ serve[s] = "called" /\ serve'[s] = "bound" /\ socket'[s] = "open"
  \/ serve[s] = "called" /\ serve'[s] = "returned" /\ socket'[s] = socket[s]
  \/ serve[s] = "bound" /\ serve'[s] = "accepting" /\ socket'[s] = socket[s]
  \/ serve[s] \in {"accepting", "returned"} /\ serve'[s] = serve[s]
       /\ socket[s] = "open" /\ socket'[s] = "closed"
  \/ serve[s] = "accepting" /\ serve'[s] = "returned"
       /\ socket[s] = "closed" /\ socket'[s] = "closed"
ListenerBreaks(s) ==
  serve[s] = "accepting" /\ serve'[s] = "returned" /\ socket[s] = "open" /\ socket'[s] = "open"

LEMMA ServeStepMoves ==
  ASSUME Inv, Left, NEW s \in Servers
  PROVE  (ServeStep(s) => ServeMoves(s)) /\ (AcceptError(s) => ListenerBreaks(s))
BY DEF ServeStep, Listen, ListenFails, Publish, CloseOnDone, AcceptClosed, AcceptError, ServeGoto,
       Inv, TypeOK, SocksTypeOK, Left, ListenerFits, ServeMoves, ListenerBreaks

LEMMA ClosedStep ==
  ASSUME Inv, Left, NEW s \in Servers, kind # "gateway", owner = "closed", ctxDone, [Next]_vars
  PROVE  /\ kind' # "gateway" /\ owner' = "closed" /\ ctxDone'
         /\ ServeMoves(s) \/ ListenerBreaks(s) \/ UNCHANGED <<serve[s], socket[s]>>
<1>1. CASE UNCHANGED vars
  BY <1>1 DEF vars, socksVars
<1>2. ASSUME NEW t \in Servers, ServeStep(t) \/ AcceptError(t), UNCHANGED ownerVars
      PROVE  /\ kind' # "gateway" /\ owner' = "closed" /\ ctxDone'
             /\ ServeMoves(s) \/ ListenerBreaks(s) \/ UNCHANGED <<serve[s], socket[s]>>
  <2>1. ctxDone' /\ kind' # "gateway" /\ owner' = "closed"
    BY <1>2 DEF ServeStep, Listen, ListenFails, Publish, CloseOnDone, AcceptClosed, AcceptError
  <2>2. CASE t = s
    BY <1>2, <2>1, <2>2, ServeStepMoves
  <2>3. CASE t # s
    BY <1>2, <2>1, <2>3 DEF ServeStep, Listen, ListenFails, Publish, CloseOnDone, AcceptClosed,
       AcceptError, ServeGoto, Inv, TypeOK, SocksTypeOK
  <2> QED
    BY <2>2, <2>3
<1>3. CASE SocksNext /\ UNCHANGED ownerVars /\ ~\E t \in Servers : ServeStep(t) \/ AcceptError(t)
  BY <1>3 DEF SocksNext, CloseWhenContextDone, StackDown, Accept, Tick, Handler, Shake, HandshakeOk,
              HandshakeFails, Dial, DialOk, DialFails, Reply, ReplyOk, ReplyLost, ReplyRefused,
              CopyingUp, ReadUp, EndUp, CopyingDown, ReadDown, EndDown, RelayOver, Taken,
              WrittenUp, WrittenDown, Peers,
              ClientSends, ClientCloses, TargetSends, TargetCloses
<1>4. ~(Configure \/ Begin \/ OwnerStep \/ Stop \/ Cancel)
  BY DEF Configure, Begin, OwnerStep, TunnelOk, TunnelFails, StartServers, DialerFails, ReadResult,
         AllRead, WaitOk, WaitFails, CancelContext, CloseNext, CloseDialer, DialerClosed, Exit, Stop, Cancel
<1> QED
  BY <1>1, <1>2, <1>3, <1>4 DEF Next

LEMMA ManagersListener ==
  ASSUME NEW s \in Servers
  PROVE  FairSpec /\ []NothingStuck =>
           (owner = "closed" /\ kind # "gateway" ~> socket[s] # "open" /\ serve[s] \in {"none", "returned"})
<1> DEFINE Z == owner = "closed" /\ kind # "gateway"
           Y == Z /\ ctxDone
           A == Y /\ serve[s] = "called"
           B == Y /\ serve[s] = "bound" /\ socket[s] = "open"
           C == Y /\ serve[s] = "accepting" /\ socket[s] = "open"
           D == Y /\ \/ serve[s] = "accepting" /\ socket[s] = "closed"
                     \/ serve[s] = "returned" /\ socket[s] = "open"
           R == socket[s] # "open" /\ serve[s] \in {"none", "returned"}
           Moved == ServeMoves(s)
           Inv2 == Inv /\ Left
<1>1. Inv2 /\ Z => A \/ B \/ C \/ D \/ R
  BY DEF Inv, Left, OwnerLeaves, ListenerFits, Owned, TypeOK, SocksTypeOK, ServeStates
<1>2. Inv2 /\ (A \/ B \/ C \/ D) => CanServe(s)
  BY DEF Left, ListenerFits, CanServe
<1>3. Inv2 /\ Y /\ [Next]_vars =>
        Y' /\ (Moved \/ ListenerBreaks(s) \/ UNCHANGED <<serve[s], socket[s]>>)
  BY ClosedStep
<1>4. Inv2 /\ <<ServeStep(s)>>_socksVars => Moved
  BY ServeStepMoves
<1>5. Inv2 /\ A => socket[s] = "none"
  BY DEF Left, ListenerFits
<1> HIDE DEF Inv2, Y
<1>6. Inv2 /\ A /\ [Next]_vars => A' \/ B' \/ R'
  BY <1>3, <1>5 DEF ServeMoves, ListenerBreaks
<1>7. Inv2 /\ A /\ [Next]_vars /\ Moved => B' \/ R'
  BY <1>3, <1>5 DEF ServeMoves
<1>8. Inv2 /\ B /\ [Next]_vars => B' \/ C'
  BY <1>3 DEF ServeMoves, ListenerBreaks
<1>9. Inv2 /\ B /\ [Next]_vars /\ Moved => C'
  BY <1>3 DEF ServeMoves
<1>10. Inv2 /\ C /\ [Next]_vars => C' \/ D'
  BY <1>3 DEF ServeMoves, ListenerBreaks
<1>11. Inv2 /\ C /\ [Next]_vars /\ Moved => D'
  BY <1>3 DEF ServeMoves
<1>12. Inv2 /\ D /\ [Next]_vars => D' \/ R'
  BY <1>3 DEF ServeMoves, ListenerBreaks
<1>13. Inv2 /\ D /\ [Next]_vars /\ Moved => R'
  BY <1>3 DEF ServeMoves
<1>14. Inv /\ Left => Inv2
  BY DEF Inv2
<1>15. FairSpec /\ []NothingStuck => []<>~CanServe(s) \/ []<><<ServeStep(s)>>_socksVars
  BY ServeGoesOn
<1> HIDE DEF Z, A, B, C, D, R, Moved
<1>16. FairSpec /\ []NothingStuck => (Z ~> R)
  BY <1>1, <1>2, <1>4, <1>6, <1>7, <1>8, <1>9, <1>10, <1>11, <1>12, <1>13, <1>14, <1>15,
     FairIsSpec, PTL
<1> QED
  BY <1>16 DEF Z, R

LEMMA ProcessListener ==
  ASSUME NEW s \in Servers
  PROVE  FairSpec /\ []NothingStuck =>
           (owner = "closed" /\ kind = "gateway" ~> socket[s] # "open" /\ serve[s] \in {"none", "returned"})
<1> DEFINE Z == owner = "closed" /\ kind = "gateway"
           X == owner = "exited"
           R == socket[s] # "open" /\ serve[s] \in {"none", "returned"}
<1>1. Z /\ [Next]_vars => Z' \/ X'
  BY DEF Next, vars, ownerVars, Configure, Begin, OwnerStep, TunnelOk, TunnelFails, StartServers,
         DialerFails, ReadResult, AllRead, WaitOk, WaitFails, CancelContext, CloseNext, CloseDialer,
         DialerClosed, Exit, Stop, Cancel
<1>2. Z /\ <<OwnerStep>>_vars => X'
  BY DEF OwnerStep, TunnelOk, TunnelFails, StartServers, DialerFails, ReadResult, AllRead, WaitOk,
         WaitFails, CancelContext, CloseNext, CloseDialer, DialerClosed, Exit
<1>3. Left /\ X => R
  BY DEF Left, OwnerLeaves
<1>4. Z => CanOwn
  BY DEF CanOwn
<1> HIDE DEF Z, X, R
<1>5. FairSpec /\ []NothingStuck => (Z ~> R)
  BY <1>1, <1>2, <1>3, <1>4, FairIsSpec, OwnerGoesOn, PTL
<1> QED
  BY <1>5 DEF Z, R

(* A closed backend gives its addresses back and leaves no Serve behind, for *)
(* any number of servers.                                                   *)
THEOREM ListenersAreReleased == FairSpec /\ []NothingStuck => ListenerReleased
<1> SUFFICES ASSUME NEW s \in Servers
             PROVE  FairSpec /\ []NothingStuck =>
                      (owner = "closed" ~> socket[s] # "open" /\ serve[s] \in {"none", "returned"})
  BY DEF ListenerReleased
<1> DEFINE Z1 == owner = "closed" /\ kind # "gateway"
           Z2 == owner = "closed" /\ kind = "gateway"
           Z == owner = "closed"
           R == socket[s] # "open" /\ serve[s] \in {"none", "returned"}
<1>1. FairSpec /\ []NothingStuck => (Z1 ~> R)
  BY ManagersListener
<1>2. FairSpec /\ []NothingStuck => (Z2 ~> R)
  BY ProcessListener
<1>3. Z => Z1 \/ Z2
  OBVIOUS
<1> HIDE DEF Z1, Z2, Z, R
<1>4. FairSpec /\ []NothingStuck => (Z ~> R)
  BY <1>1, <1>2, <1>3, PTL
<1> QED
  BY <1>4 DEF Z, R

-----------------------------------------------------------------------------
LEMMA SocksKeepContext == SocksNext => ctxDone' = ctxDone
<1>1. ASSUME NEW s \in Servers, ServeStep(s) \/ AcceptError(s) PROVE ctxDone' = ctxDone
  BY <1>1 DEF ServeStep, Listen, ListenFails, Publish, CloseOnDone, AcceptClosed, AcceptError
<1>2. ASSUME NEW c \in Clients, (\E s \in Servers : Accept(s, c)) \/ Shake(c) \/ Dial(c) \/ Reply(c)
      PROVE  ctxDone' = ctxDone
  BY <1>2 DEF Accept, Shake, HandshakeOk, HandshakeFails, Dial, DialOk, DialFails, Reply, ReplyOk,
              ReplyLost, ReplyRefused
<1>3. ASSUME NEW c \in Clients, CopyingUp(c) \/ CopyingDown(c) \/ RelayOver(c) \/ Taken(c) \/ Peers(c)
      PROVE  ctxDone' = ctxDone
  BY <1>3 DEF CopyingUp, ReadUp, EndUp, CopyingDown, ReadDown, EndDown, RelayOver, Taken,
              WrittenUp, WrittenDown, Peers,
              ClientSends, ClientCloses, TargetSends, TargetCloses
<1>4. ASSUME CloseWhenContextDone \/ StackDown \/ Tick PROVE ctxDone' = ctxDone
  BY <1>4 DEF CloseWhenContextDone, StackDown, Tick
<1> QED
  BY <1>1, <1>2, <1>3, <1>4 DEF SocksNext, Handler

LEMMA SocksKeepStack == SocksNext /\ stack = "closed" => stack' = "closed"
<1> SUFFICES ASSUME SocksNext, stack = "closed" PROVE stack' = "closed"
  OBVIOUS
<1>1. ASSUME NEW s \in Servers, ServeStep(s) \/ AcceptError(s) PROVE stack' = stack
  BY <1>1 DEF ServeStep, Listen, ListenFails, Publish, CloseOnDone, AcceptClosed, AcceptError
<1>2. ASSUME NEW c \in Clients, (\E s \in Servers : Accept(s, c)) \/ Shake(c) \/ Dial(c) \/ Reply(c)
      PROVE  stack' = stack
  BY <1>2 DEF Accept, Shake, HandshakeOk, HandshakeFails, Dial, DialOk, DialFails, Reply, ReplyOk,
              ReplyLost, ReplyRefused
<1>3. ASSUME NEW c \in Clients, CopyingUp(c) \/ CopyingDown(c) \/ RelayOver(c) \/ Taken(c) \/ Peers(c)
      PROVE  stack' = stack
  BY <1>3 DEF CopyingUp, ReadUp, EndUp, CopyingDown, ReadDown, EndDown, RelayOver, Taken,
              WrittenUp, WrittenDown, Peers,
              ClientSends, ClientCloses, TargetSends, TargetCloses
<1>4. ASSUME CloseWhenContextDone \/ StackDown \/ Tick PROVE stack' = "closed"
  BY <1>4 DEF CloseWhenContextDone, StackDown, Tick
<1> QED
  BY <1>1, <1>2, <1>3, <1>4 DEF SocksNext, Handler

(* A session's backend has one server, so that no order among servers has to *)
(* be followed: where it must stop, it goes through a fixed chain of states. *)
OwnerAt(o) == MustStop /\ owner = o

LEMMA MustStopStays == Inv /\ Left /\ MustStop /\ [Next]_vars => MustStop'
<1> SUFFICES ASSUME Inv, Left, MustStop, [Next]_vars PROVE MustStop'
  OBVIOUS
<1>1. kind' = kind /\ (ctxDone => ctxDone')
  <2>1. ASSUME SocksNext, UNCHANGED ownerVars PROVE kind' = kind /\ ctxDone' = ctxDone
    BY <2>1, SocksKeepContext
  <2>2. ASSUME Configure \/ Begin \/ OwnerStep \/ Stop \/ Cancel
        PROVE  kind' = kind /\ (ctxDone => ctxDone')
    <3>1. CASE Configure \/ Begin \/ Stop \/ Cancel
      BY <3>1 DEF Configure, Begin, Stop, Cancel, socksVars, Inv, TypeOK, SocksTypeOK
    <3>2. CASE OwnerStep
      BY <3>2 DEF OwnerStep, TunnelOk, TunnelFails, StartServers, DialerFails, ReadResult, AllRead,
         WaitOk, WaitFails, CancelContext, CloseNext, CloseDialer, DialerClosed, Exit, socksVars,
         Inv, TypeOK, SocksTypeOK
    <3> QED
      BY <2>2, <3>1, <3>2
  <2> QED
    BY <2>1, <2>2 DEF Next, vars, socksVars
<1>2. CASE ctxDone
  BY <1>1, <1>2 DEF MustStop
<1>3. CASE ~ctxDone
  <2>1. PICK s \in enabled : serve[s] = "returned"
    BY <1>3 DEF MustStop
  <2>2. s \in Servers /\ stack \notin {"none", "left"} /\ owner \notin {"new", "tunnelled"} /\ kind = "session"
    BY <2>1 DEF Inv, TypeOK, Owned, MustStop
  <2>3. enabled' = enabled /\ serve'[s] = "returned"
    <3>1. CASE UNCHANGED vars
      BY <2>1, <3>1 DEF vars, socksVars, serverVars, ownerVars
    <3>2. CASE SocksNext /\ UNCHANGED ownerVars
      BY <2>1, <2>2, <3>2
         DEF SocksNext, ServeStep, Listen, ListenFails, Publish, ServeGoto,
             CloseOnDone, AcceptClosed, AcceptError, CloseWhenContextDone, StackDown, Accept, Tick, Handler,
             Shake, HandshakeOk, HandshakeFails, Dial, DialOk, DialFails, Reply, ReplyOk, ReplyLost,
             ReplyRefused, CopyingUp, ReadUp, EndUp, CopyingDown, ReadDown, EndDown, RelayOver,
             Taken, WrittenUp, WrittenDown, Peers,
             ClientSends, ClientCloses, TargetSends, TargetCloses, Inv, TypeOK, SocksTypeOK
    <3>3. CASE Configure \/ Begin \/ OwnerStep \/ Stop \/ Cancel
      BY <2>1, <2>2, <3>3 DEF Configure, Begin, OwnerStep, TunnelOk,
         TunnelFails, StartServers, DialerFails, ReadResult, AllRead, WaitOk, WaitFails, CancelContext,
         CloseNext, CloseDialer, DialerClosed, Exit, Stop, Cancel, socksVars
    <3> QED
      BY <3>1, <3>2, <3>3 DEF Next
  <2> QED
    BY <1>1, <2>2, <2>3 DEF MustStop
<1> QED
  BY <1>2, <1>3

(* The steps of the owner of a manager's backend, and what others do to it  *)
OwnerMoves ==
  \/ owner = "starting" /\ owner' \in {"tunnelled", "closed"}
  \/ owner = "tunnelled" /\ owner' \in {"waiting", "closed"}
  \/ owner = "waiting" /\ owner' \in {"running", "servers"}
  \/ owner = "cancelling" /\ owner' = "servers"
  \/ owner = "servers" /\ toClose # {} /\ owner' = "servers" /\ toClose' = {}
  \/ owner = "servers" /\ toClose = {} /\ owner' = "dialer" /\ stack' \in {"closing", "closed"}
  \/ owner = "dialer" /\ stack = "closed" /\ owner' = "closed"

LEMMA OwnerStepMoves == ASSUME Inv, Left, kind = "session", OwnerStep PROVE OwnerMoves
BY DEF OwnerStep, TunnelOk, TunnelFails, StartServers, DialerFails, ReadResult, AllRead, WaitOk,
       WaitFails, CancelContext, CloseNext, CloseDialer, DialerClosed, Exit, BeginClose, OwnerMoves,
       Inv, Owned, TypeOK, Left, OwnerLeaves

LEMMA SessionStep ==
  ASSUME Inv, Left, kind = "session", owner # "new", [Next]_vars
  PROVE  \/ OwnerMoves
         \/ owner = "running" /\ owner' = "cancelling"
         \/ UNCHANGED <<owner, toClose>> /\ (stack' = stack \/ stack' \in {"closing", "closed"})
                                         /\ (stack = "closed" => stack' = "closed")
<1>1. CASE UNCHANGED vars
  BY <1>1 DEF vars, socksVars
<1>2. CASE SocksNext /\ UNCHANGED ownerVars
  BY <1>2 DEF SocksNext, ServeStep, Listen, ListenFails, Publish,
      CloseOnDone, AcceptClosed, AcceptError, CloseWhenContextDone, StackDown, BeginClose, Accept, Tick,
      Handler, Shake, HandshakeOk, HandshakeFails, Dial, DialOk, DialFails, Reply, ReplyOk, ReplyLost,
      ReplyRefused, CopyingUp, ReadUp, EndUp, CopyingDown, ReadDown, EndDown, RelayOver, Taken,
      WrittenUp, WrittenDown, Peers,
      ClientSends, ClientCloses, TargetSends, TargetCloses
<1>3. CASE OwnerStep
  BY <1>3, OwnerStepMoves
<1>4. CASE Configure \/ Begin \/ Stop \/ Cancel
  BY <1>4 DEF Configure, Begin, Stop, Cancel, socksVars
<1> QED
  BY <1>1, <1>2, <1>3, <1>4 DEF Next

(* A session's backend whose context is done or whose server has ended is    *)
(* taken down, whatever it was starting.                                     *)
THEOREM SessionBackendStops == FairSpec /\ []NothingStuck => (MustStop ~> owner = "closed")
<1> DEFINE S1 == OwnerAt("starting")
           S2 == OwnerAt("tunnelled")
           S3 == OwnerAt("waiting")
           S4 == OwnerAt("running")
           S5 == OwnerAt("cancelling")
           S6 == OwnerAt("servers") /\ toClose # {}
           S7 == OwnerAt("servers") /\ toClose = {}
           S8 == OwnerAt("dialer") /\ stack = "closing"
           S9 == OwnerAt("dialer") /\ stack = "closed"
           Z == owner = "closed"
           Inv2 == Inv /\ Left
           Acts == S1 \/ S2 \/ S3 \/ S5 \/ S6 \/ S7 \/ S9
           Own == OwnerMoves
<1>1. Inv2 /\ MustStop => Acts \/ S4 \/ S8 \/ Z
  BY DEF OwnerAt, MustStop, Inv, TypeOK, OwnerStates, Owned, Left, OwnerLeaves
<1>2. Acts => CanOwn
  BY DEF OwnerAt, CanOwn
<1>3. (S4 => CanStop) /\ (S8 => StackGoesDown)
  BY DEF OwnerAt, CanStop, StackGoesDown
<1>4. MustStop => kind = "session"
  BY DEF MustStop
<1>5. Inv2 /\ MustStop /\ [Next]_vars => MustStop'
  BY MustStopStays
<1>6. Inv2 /\ MustStop /\ owner # "new" /\ [Next]_vars =>
         \/ OwnerMoves
         \/ owner = "running" /\ owner' = "cancelling"
         \/ UNCHANGED <<owner, toClose>> /\ (stack' = stack \/ stack' \in {"closing", "closed"})
                                         /\ (stack = "closed" => stack' = "closed")
  BY <1>4, SessionStep
<1>7. Inv2 /\ MustStop /\ <<OwnerStep>>_vars => Own
  BY <1>4, OwnerStepMoves
<1>8. <<StackDown>>_socksVars => stack' = "closed"
  BY DEF StackDown
<1>9. <<Stop /\ MustStop>>_vars => owner' = "cancelling"
  BY DEF Stop
<1>10. Inv /\ Left => Inv2
  OBVIOUS
<1> HIDE DEF Inv2
<1> USE DEF OwnerAt, OwnerMoves
<1>12. Inv2 /\ S1 /\ [Next]_vars => S1' \/ S2' \/ Z'
  BY <1>5, <1>6
<1>13. Inv2 /\ S1 /\ [Next]_vars /\ Own => S2' \/ Z'
  BY <1>5
<1>14. Inv2 /\ S2 /\ [Next]_vars => S2' \/ S3' \/ Z'
  BY <1>5, <1>6
<1>15. Inv2 /\ S2 /\ [Next]_vars /\ Own => S3' \/ Z'
  BY <1>5
<1>16. Inv2 /\ S3 /\ [Next]_vars => S3' \/ S4' \/ S6' \/ S7'
  BY <1>5, <1>6
<1>17. Inv2 /\ S3 /\ [Next]_vars /\ Own => S4' \/ S6' \/ S7'
  BY <1>5
<1>18. Inv2 /\ S4 /\ [Next]_vars => S4' \/ S5'
  BY <1>5, <1>6
<1>19. Inv2 /\ S4 /\ [Next]_vars /\ <<Stop /\ MustStop>>_vars => S5'
  BY <1>5, <1>9
<1>20. Inv2 /\ S5 /\ [Next]_vars => S5' \/ S6' \/ S7'
  BY <1>5, <1>6
<1>21. Inv2 /\ S5 /\ [Next]_vars /\ Own => S6' \/ S7'
  BY <1>5
<1>22. Inv2 /\ S6 /\ [Next]_vars => S6' \/ S7'
  BY <1>5, <1>6
<1>23. Inv2 /\ S6 /\ [Next]_vars /\ Own => S7'
  BY <1>5
<1>24. Inv2 /\ S7 /\ [Next]_vars => S7' \/ S8' \/ S9'
  BY <1>5, <1>6
<1>25. Inv2 /\ S7 /\ [Next]_vars /\ Own => S8' \/ S9'
  BY <1>5
<1>26. Inv2 /\ S8 /\ [Next]_vars => S8' \/ S9'
  BY <1>5, <1>6
<1>27. Inv2 /\ S8 /\ [Next]_vars /\ <<StackDown>>_socksVars => S9'
  BY <1>5, <1>6, <1>8
<1>28. Inv2 /\ S9 /\ [Next]_vars => S9' \/ Z'
  BY <1>5, <1>6
<1>29. Inv2 /\ S9 /\ [Next]_vars /\ Own => Z'
  BY <1>5
<1> HIDE DEF S1, S2, S3, S4, S5, S6, S7, S8, S9, Z, Own
<1>30. FairSpec /\ []NothingStuck => (MustStop ~> Z)
  BY <1>1, <1>2, <1>3, <1>5, <1>7, <1>10, <1>12, <1>13, <1>14, <1>15, <1>16, <1>17, <1>18, <1>19,
     <1>20, <1>21, <1>22, <1>23, <1>24, <1>25, <1>26, <1>27, <1>28, <1>29,
     FairIsSpec, OwnerGoesOn, StackGoesOn, StopGoesOn, PTL
<1> QED
  BY <1>30 DEF Z
-----------------------------------------------------------------------------
(* A client's handler, its peers and the end of the process are all that     *)
(* move it.                                                                 *)
ClientFrame(c) == <<pc[c], client[c], target[c], up[c], down[c]>>

LEMMA ClientMoves ==
  ASSUME Inv, NEW c \in Clients, pc[c] # "idle", [Next]_vars
  PROVE  Handler(c) \/ Taken(c) \/ Peers(c) \/ Exit \/ UNCHANGED ClientFrame(c)
<1> USE DEF ClientFrame
<1>1. CASE UNCHANGED clientVars
  BY <1>1 DEF clientVars
<1>2. CASE Tick
  BY <1>2 DEF Tick
<1>3. ASSUME NEW d \in Clients, (\E s \in Servers : Accept(s, d)) \/ Handler(d) \/ Taken(d) \/ Peers(d)
      PROVE  Handler(c) \/ Taken(c) \/ Peers(c) \/ Exit \/ UNCHANGED ClientFrame(c)
  <2>1. CASE d = c
    BY <1>3, <2>1 DEF Accept
  <2>2. CASE d # c
    <3>1. ASSUME (\E s \in Servers : Accept(s, d)) \/ Shake(d) \/ Dial(d) \/ Reply(d)
          PROVE  UNCHANGED ClientFrame(c)
      BY <2>2, <3>1 DEF Accept, Shake, HandshakeOk, HandshakeFails, Dial, DialOk, DialFails, Reply,
                        ReplyOk, ReplyLost, ReplyRefused, Goto, Inv, TypeOK, SocksTypeOK
    <3>2. ASSUME CopyingUp(d) \/ CopyingDown(d) \/ RelayOver(d) \/ Taken(d) \/ Peers(d)
          PROVE  UNCHANGED ClientFrame(c)
      BY <2>2, <3>2 DEF CopyingUp, ReadUp, EndUp, CopyingDown, ReadDown, EndDown, RelayOver, Goto,
                        Taken, WrittenUp, WrittenDown, Peers, ClientSends, ClientCloses,
                        TargetSends, TargetCloses,
                        Inv, TypeOK, SocksTypeOK
    <3> QED
      BY <1>3, <3>1, <3>2 DEF Handler
  <2> QED
    BY <2>1, <2>2
<1>4. ASSUME NEW s \in Servers, ServeStep(s) \/ AcceptError(s) PROVE UNCHANGED clientVars
  BY <1>4 DEF ServeStep, Listen, ListenFails, Publish, CloseOnDone, AcceptClosed, AcceptError
<1>5. ASSUME CloseWhenContextDone \/ StackDown PROVE UNCHANGED clientVars
  BY <1>5 DEF CloseWhenContextDone, StackDown
<1>6. ASSUME OwnerStep, ~Exit PROVE UNCHANGED clientVars
  BY <1>6 DEF OwnerStep, TunnelOk, TunnelFails, StartServers, DialerFails, ReadResult, AllRead,
     WaitOk, WaitFails, CancelContext, CloseNext, CloseDialer, DialerClosed, socksVars
<1>7. ASSUME Configure \/ Begin \/ Stop \/ Cancel PROVE UNCHANGED clientVars
  BY <1>7 DEF Configure, Begin, Stop, Cancel, socksVars
<1> QED
  BY <1>1, <1>2, <1>3, <1>4, <1>5, <1>6, <1>7 DEF Next, SocksNext, vars, socksVars

LEMMA ExitKills ==
  ASSUME NEW c \in Clients, Exit, pc[c] \notin {"idle", "over"} PROVE pc'[c] = "killed"
BY DEF Exit

(* A client that has been heard is connected, refused or cut off: a dial and *)
(* the reply to it do not hang.                                              *)
THEOREM DialsEnd ==
  FairSpec /\ []NothingStuck =>
    \A c \in Clients :
      pc[c] \in {"dial", "dialed", "refused"} ~> pc[c] \in {"relay", "over", "killed"}
<1> SUFFICES ASSUME NEW c \in Clients
             PROVE  FairSpec /\ []NothingStuck =>
                      (pc[c] \in {"dial", "dialed", "refused"} ~> pc[c] \in {"relay", "over", "killed"})
  OBVIOUS
<1> DEFINE P == pc[c] \in {"dial", "dialed", "refused"}
           A == pc[c] = "dial"
           B == pc[c] \in {"dialed", "refused"}
           R == pc[c] \in {"relay", "over", "killed"}
<1>1. P => A \/ B
  OBVIOUS
<1>2. NothingStuck => (A => ENABLED <<Dial(c)>>_socksVars) /\ (B => ENABLED <<Reply(c)>>_socksVars)
  BY DEF NothingStuck
<1>3. HandlersGoOn => HandlerGoesOn(c)
  BY DEF HandlersGoOn
<1>4. Inv /\ A /\ [Next]_vars => A' \/ B' \/ R'
  BY ClientMoves, ExitKills DEF ClientFrame, Handler, Shake, HandshakeOk, HandshakeFails, Dial, DialOk,
     DialFails, Reply, ReplyOk, ReplyLost, ReplyRefused, CopyingUp, ReadUp, EndUp, CopyingDown,
     ReadDown, EndDown, RelayOver, Taken, WrittenUp, WrittenDown, Peers, ClientSends,
     ClientCloses, TargetSends, TargetCloses,
     Goto, Inv, TypeOK, SocksTypeOK
<1>5. Inv /\ A /\ <<Dial(c)>>_socksVars => B'
  BY DEF Dial, DialOk, DialFails, Goto, Inv, TypeOK, SocksTypeOK
<1>6. Inv /\ B /\ [Next]_vars => B' \/ R'
  BY ClientMoves, ExitKills DEF ClientFrame, Handler, Shake, HandshakeOk, HandshakeFails, Dial, DialOk,
     DialFails, Reply, ReplyOk, ReplyLost, ReplyRefused, CopyingUp, ReadUp, EndUp, CopyingDown,
     ReadDown, EndDown, RelayOver, Taken, WrittenUp, WrittenDown, Peers, ClientSends,
     ClientCloses, TargetSends, TargetCloses,
     Goto, Inv, TypeOK, SocksTypeOK
<1>7. Inv /\ B /\ <<Reply(c)>>_socksVars => R'
  BY DEF Reply, ReplyOk, ReplyLost, ReplyRefused, Goto, Inv, TypeOK, SocksTypeOK
<1> HIDE DEF P, A, B, R
<1>8. FairSpec /\ []NothingStuck => (P ~> R)
  BY <1>1, <1>2, <1>3, <1>4, <1>5, <1>6, <1>7, FairIsSpec, PTL DEF FairSpec, SocksFairness, HandlerGoesOn
<1> QED
  BY <1>8 DEF P, R

(* A relay whose client has stopped and whose target is gone or whose tunnel *)
(* is down, what its copies do then, and where nothing can end it: a Write   *)
(* to a client that is there and does not take it.                           *)
CutOff(c) == pc[c] = "relay" /\ client[c] # "open" /\ Dead(c)
Ended(c) == pc[c] \in {"over", "killed"}
Unread(c) == down[c] = "writing" /\ client[c] # "gone"

UpMoves(c) ==
  \/ up'[c] = up[c]
  \/ up[c] = "reading" /\ up'[c] = "writing"
  \/ up[c] \in {"reading", "writing"} /\ up'[c] = "done"
DownMoves(c) ==
  \/ down'[c] = down[c]
  \/ down[c] = "writing" /\ down'[c] = "reading"
  \/ down[c] \in {"reading", "writing"} /\ down'[c] = "done"

LEMMA CutOffStep ==
  ASSUME Inv, NEW c \in Clients, CutOff(c), [Next]_vars
  PROVE  \/ Ended(c)'
         \/ CutOff(c)' /\ UpMoves(c) /\ DownMoves(c) /\ (client[c] = "gone" => client'[c] = "gone")
<1>1. stack = "closed" => stack' = "closed"
  <2>1. CASE UNCHANGED vars
    BY <2>1 DEF vars, socksVars
  <2>2. CASE SocksNext
    BY <2>2, SocksKeepStack
  <2>3. CASE Configure \/ Begin \/ OwnerStep \/ Stop \/ Cancel
    BY <2>3 DEF Configure, Begin, OwnerStep, TunnelOk, TunnelFails, StartServers, DialerFails,
       ReadResult, AllRead, WaitOk, WaitFails, CancelContext, CloseNext, CloseDialer, DialerClosed,
       Exit, Stop, Cancel, BeginClose, socksVars, Inv, Owned
  <2> QED
    BY <2>1, <2>2, <2>3 DEF Next
<1> USE DEF CutOff, Ended, Dead, UpMoves, DownMoves, Goto, Inv, TypeOK, SocksTypeOK
<1>2. CASE Handler(c)
  BY <1>1, <1>2 DEF Handler, Shake, HandshakeOk, HandshakeFails, Dial, DialOk, DialFails, Reply,
     ReplyOk, ReplyLost, ReplyRefused, CopyingUp, ReadUp, EndUp, CopyingDown, ReadDown, EndDown,
     RelayOver
<1>3. CASE Taken(c) \/ Peers(c)
  BY <1>1, <1>3 DEF Taken, WrittenUp, WrittenDown, Peers, ClientSends, ClientCloses, TargetSends,
                    TargetCloses
<1>4. CASE Exit
  BY <1>4, ExitKills
<1>5. CASE UNCHANGED ClientFrame(c)
  BY <1>1, <1>5 DEF ClientFrame
<1> QED
  BY <1>2, <1>3, <1>4, <1>5, ClientMoves

(* A relay that is cut off comes to its end, whatever is still to be copied: *)
(* both copies end on the errors, one after the other in either order;       *)
(* unless its client stays and never takes what is written to it.            *)
THEOREM CutOffRelaysEnd ==
  FairSpec /\ []NothingStuck => \A c \in Clients : CutOff(c) ~> (Ended(c) \/ []Unread(c))
<1> SUFFICES ASSUME NEW c \in Clients
             PROVE  FairSpec /\ []NothingStuck => (CutOff(c) ~> (Ended(c) \/ []Unread(c)))
  OBVIOUS
<1> DEFINE P == CutOff(c)
           A1 == P /\ up[c] = "reading"
           A2 == P /\ up[c] = "writing"
           Q == P /\ up[c] = "done"
           B == Q /\ Unread(c)
           B1 == Q /\ down[c] = "writing" /\ client[c] = "gone"
           B2 == Q /\ down[c] = "reading"
           C == Q /\ down[c] = "done"
           R == Ended(c)
           U == Unread(c)
           Same1 == P' /\ UpMoves(c) /\ DownMoves(c) /\ (client[c] = "gone" => client'[c] = "gone")
<1> USE DEF Unread
<1>1. Inv /\ P => /\ A1 \/ A2 \/ Q
                  /\ down[c] \in {"reading", "writing", "done"}
  BY DEF CutOff, Inv, Served, Relayed, TypeOK, SocksTypeOK, Copies
<1>2. Inv /\ Q => B \/ B1 \/ B2 \/ C
  BY <1>1
<1>3. NothingStuck => /\ A1 \/ A2 => ENABLED <<CopyingUp(c)>>_socksVars
                      /\ B1 \/ B2 => ENABLED <<CopyingDown(c)>>_socksVars
                      /\ C => ENABLED <<RelayOver(c)>>_socksVars
  BY DEF CutOff, NothingStuck, CanEndUp, CanEndDown, CanEndRelay, Broken, Dead
<1>4. HandlersGoOn => HandlerGoesOn(c)
  BY DEF HandlersGoOn
<1>5. Inv /\ A1 /\ <<CopyingUp(c)>>_socksVars => up'[c] \in {"writing", "done"}
  BY DEF CopyingUp, ReadUp, EndUp, Inv, TypeOK, SocksTypeOK
<1>6. Inv /\ A2 /\ <<CopyingUp(c)>>_socksVars => up'[c] = "done"
  BY DEF CopyingUp, ReadUp, EndUp, Inv, TypeOK, SocksTypeOK
<1>7. Inv /\ (B1 \/ B2) /\ <<CopyingDown(c)>>_socksVars => down'[c] = "done"
  BY DEF CutOff, CopyingDown, ReadDown, EndDown, Inv, TypeOK, SocksTypeOK
<1>8. Inv /\ <<RelayOver(c)>>_socksVars => R'
  BY DEF RelayOver, Goto, Ended, Inv, TypeOK, SocksTypeOK
<1>9. Inv /\ P /\ [Next]_vars => R' \/ Same1
  BY CutOffStep
<1> USE DEF UpMoves, DownMoves
<1> HIDE DEF P, R
<1>10. Inv /\ A1 /\ [Next]_vars => R' \/ A1' \/ A2' \/ Q'
  BY <1>9
<1>11. Inv /\ A1 /\ [Next]_vars /\ <<CopyingUp(c)>>_socksVars => R' \/ A2' \/ Q'
  BY <1>5, <1>9
<1>12. Inv /\ A2 /\ [Next]_vars => R' \/ A2' \/ Q'
  BY <1>9
<1>13. Inv /\ A2 /\ [Next]_vars /\ <<CopyingUp(c)>>_socksVars => R' \/ Q'
  BY <1>6, <1>9
<1>14. Inv /\ Q /\ [Next]_vars => R' \/ Q'
  BY <1>9
<1>15. Inv /\ B1 /\ [Next]_vars => R' \/ B1' \/ B2' \/ C'
  BY <1>9
<1>16. Inv /\ B1 /\ [Next]_vars /\ <<CopyingDown(c)>>_socksVars => R' \/ C'
  BY <1>7, <1>9
<1>17. Inv /\ B2 /\ [Next]_vars => R' \/ B2' \/ C'
  BY <1>9
<1>18. Inv /\ B2 /\ [Next]_vars /\ <<CopyingDown(c)>>_socksVars => R' \/ C'
  BY <1>7, <1>9
<1>19. Inv /\ C /\ [Next]_vars => R' \/ C'
  BY <1>9
<1>20. B => U
  OBVIOUS
<1> HIDE DEF A1, A2, Q, B, B1, B2, C, U
<1>21. FairSpec /\ []NothingStuck => (P ~> (R \/ []U))
  BY <1>1, <1>2, <1>3, <1>4, <1>8, <1>10, <1>11, <1>12, <1>13, <1>14, <1>15, <1>16, <1>17,
     <1>18, <1>19, <1>20, FairIsSpec, PTL DEF FairSpec, SocksFairness, HandlerGoesOn
<1> QED
  BY <1>21 DEF P, R, U
=============================================================================
