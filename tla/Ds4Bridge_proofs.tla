-------------------------- MODULE Ds4Bridge_proofs --------------------------
(* Proofs about Ds4Bridge and the modules it extends: the shared packet      *)
(* buffer, the reset of the dongle, and that the emulation's view of the     *)
(* radio is true, for every size of the buffers and every budget.            *)
EXTENDS Ds4Bridge, TLAPS
----------------------------------------------------------------------------
(* The packet buffer. *)

(* BufferIntact: hci_packet_buffer is never written while the transport still
   sends from it, whichever of the run loop, the handlers and ds4emu_task
   writes next. *)
THEOREM BufferSafe == Spec => []BufferIntact
<1>1. Init => BufferIntact
  BY DEF Init, CommandInit, BufferIntact
<1>2. BufferIntact /\ [Next]_vars => BufferIntact'
  <2> SUFFICES ASSUME BufferIntact, [Next]_vars PROVE BufferIntact'
    OBVIOUS
  <2> USE DEF BufferIntact
  <2>1. CASE UNCHANGED vars
    BY <2>1 DEF vars, radioVars, txVars
  <2>2. CASE StartUp
    BY <2>2 DEF StartUp, InitRun, CanSendCommand, TransportReady, Step, Custom, SendCommand, txVars
  <2>3. CASE Run
    BY <2>3 DEF Run, HciRun, CanSendCommand, TransportReady, SendCommand
  <2>4. CASE Respond
    BY <2>4 DEF Respond, Reply, CanSendAcl, TransportReady, SendAcl, txVars
  <2>5. ASSUME NEW c \in Chans, ChannelRun(c) \/ ChannelCreate(c) PROVE BufferIntact'
    BY <2>5 DEF ChannelRun, ChannelCreate, CallPeer, CanSendCommand, TransportReady,
                SendCommand, SendAcl, txVars
  <2>6. CASE Connect
    BY <2>6 DEF Connect, CallPeer, CanSendCommand, TransportReady, SendCommand, SendAcl, txVars
  <2>7. ASSUME NEW q \in Queues, Reroute(q) PROVE BufferIntact'
    BY <2>7 DEF Reroute, CanSendAcl, TransportReady, SendAcl, txVars
  <2>8. CASE Answer \/ OutDone \/ SpuriousStatus
    BY <2>8 DEF Answer, CommandAnswer, OutDone, SpuriousStatus, Nop, txVars
  <2>9. ASSUME NEW p \in Peers, IdleTimeout(p) PROVE BufferIntact'
    BY <2>9 DEF IdleTimeout, CanSendCommand, TransportReady, SendCommand
  <2>10. ASSUME NEW c \in Chans, RtxTimeout(c) PROVE BufferIntact'
    BY <2>10 DEF RtxTimeout, txVars
  <2>11. CASE Delivered
    BY <2>11 DEF Delivered, txVars
  <2>12. QED
    BY <2>1, <2>2, <2>3, <2>4, <2>5, <2>6, <2>7, <2>8, <2>9, <2>10, <2>11
       DEF Next, Loop, Dongle, Peer, Timers, ConnectionRequest, StrangerRequest, OtherRequest,
           SigOnly, ChannelRequest, ConfigureRequest, DisconnectionRequest, ConnectionResponse,
           ConfigureResponse, Receive, ConnectionComplete, EncryptionChange, FeaturesComplete,
           LinkKeyRequest, DisconnectionComplete, NumberOfCompletedPackets, Outcome
<1>3. QED
  BY <1>1, <1>2, PTL DEF Spec
----------------------------------------------------------------------------
(* The reset of the dongle.  ResetAlone says nothing of the steps before and
   after the reset, so the invariant ties them to substate. *)
Resetless(s) == \A i \in 1 .. Len(s) : s[i] # "reset"
ResetInv == /\ asked \in Seq(Kinds) /\ substate \in 0 .. LastSubstate
            /\ substate = 0 => Len(asked) = 0
            /\ substate = 1 => Len(asked) = 1 /\ asked[1] = "reset"
            /\ substate > 1 => Resetless(asked)

LEMMA AppendResetless ==
  ASSUME NEW s \in Seq(Kinds), Resetless(s), NEW k \in Kinds \ {"reset"}
  PROVE  Append(s, k) \in Seq(Kinds) /\ Resetless(Append(s, k))
BY DEF Resetless

LEMMA TailResetless ==
  ASSUME NEW s \in Seq(Kinds), Resetless(s), s # <<>>
  PROVE  Tail(s) \in Seq(Kinds) /\ Resetless(Tail(s))
BY DEF Resetless

(* A command other than the reset, sent when the reset has been answered. *)
LEMMA OtherSent ==
  ASSUME ResetInv, NEW k \in Kinds \ {"reset"}, SendCommand(k), substate > 1,
         substate' \in 2 .. LastSubstate
  PROVE  ResetInv'
BY AppendResetless DEF ResetInv, SendCommand, LastSubstate

LEMMA AnswerKeepsReset ==
  ASSUME ResetInv, CommandAnswer PROVE ResetInv'
<1>1. substate' = Advanced(Head(asked)) /\ asked' = Tail(asked) /\ asked # <<>>
  BY DEF CommandAnswer
<1>2. Head(asked) \in Kinds /\ Tail(asked) \in Seq(Kinds)
  BY <1>1 DEF ResetInv
<1>3. CASE substate = 1
  <2>1. Head(asked) = "reset" /\ Len(Tail(asked)) = 0
    BY <1>1, <1>3 DEF ResetInv
  <2>2. substate' = 2
    BY <1>1, <1>3, <2>1 DEF Advanced, Working, LastSubstate
  <2>3. QED
    BY <1>1, <1>2, <2>1, <2>2 DEF ResetInv, Resetless, LastSubstate
<1>4. CASE substate > 1
  <2>1. Resetless(Tail(asked))
    BY <1>1, <1>4, TailResetless DEF ResetInv
  <2>2. substate' \in 2 .. LastSubstate
    BY <1>1, <1>4 DEF ResetInv, Advanced, Working, LastSubstate
  <2>3. substate' \in 0 .. LastSubstate /\ substate' # 0 /\ substate' # 1
    BY <2>2 DEF LastSubstate
  <2>4. QED
    BY <1>1, <1>2, <2>1, <2>3 DEF ResetInv
<1>5. QED
  BY <1>1, <1>3, <1>4 DEF ResetInv, LastSubstate

LEMMA NopKeepsReset ==
  ASSUME ResetInv, Nop PROVE ResetInv'
<1>1. asked' = asked /\ substate' = Advanced("nop")
  BY DEF Nop
<1>2. /\ substate' \in 0 .. LastSubstate
      /\ substate' = 0 => substate = 0
      /\ substate' = 1 => substate = 1
      /\ substate' > 1 => substate > 1
  BY <1>1 DEF ResetInv, Advanced, Working, LastSubstate
<1>3. QED
  BY <1>1, <1>2 DEF ResetInv

LEMMA StepKeepsReset ==
  ASSUME ResetInv, InitRun PROVE ResetInv'
<1>1. CASE Step("reset", {0}, 1)
  <2>1. Len(asked') = 1 /\ asked'[1] = "reset" /\ asked' \in Seq(Kinds) /\ substate' = 1
    BY <1>1 DEF Step, SendCommand, ResetInv, Kinds
  <2>2. QED
    BY <2>1 DEF ResetInv, Kinds, LastSubstate
<1>2. CASE Custom
  <2>1. CASE substate' = 9 /\ SendCommand("other")
    BY <1>2, <2>1, OtherSent DEF Custom, Kinds, LastSubstate
  <2>2. CASE substate' \in {substate, 28} /\ asked' = asked
    BY <1>2, <2>2 DEF Custom, ResetInv, LastSubstate
  <2>3. QED
    BY <1>2, <2>1, <2>2 DEF Custom
<1>3. CASE Step("bdaddr", {2, 4}, 5)
  BY <1>3, OtherSent DEF Step, Kinds, Facts, LastSubstate
<1>4. CASE Step("bufsize", {6}, 7)
  BY <1>4, OtherSent DEF Step, Kinds, Facts, LastSubstate
<1>5. CASE Step("features", {8}, 9)
  BY <1>5, OtherSent DEF Step, Kinds, Facts, LastSubstate
<1>6. CASE Step("scan", {28}, LastSubstate)
  BY <1>6, OtherSent DEF Step, Kinds, LastSubstate
<1>7. QED
  BY <1>1, <1>2, <1>3, <1>4, <1>5, <1>6 DEF InitRun

(* ResetAlone: the dongle is being sent nothing else while it carries out the
   reset, whatever number of commands it can hold and whatever status events it
   sends meanwhile. *)
THEOREM ResetKept == Spec => []ResetAlone
<1>1. Init => ResetInv
  BY DEF Init, CommandInit, ResetInv, LastSubstate
<1>2. ResetInv /\ [Next]_vars => ResetInv'
  <2> SUFFICES ASSUME ResetInv, [Next]_vars PROVE ResetInv'
    OBVIOUS
  <2>1. CASE StartUp
    BY <2>1, StepKeepsReset DEF StartUp
  <2>2. CASE Answer
    BY <2>2, AnswerKeepsReset DEF Answer
  <2>3. CASE SpuriousStatus
    BY <2>3, NopKeepsReset DEF SpuriousStatus
  <2>4. CASE UNCHANGED <<substate, asked>>
    BY <2>4 DEF ResetInv
  <2>5. CASE Working /\ SendCommand("other") /\ UNCHANGED substate
    BY <2>5, OtherSent DEF Working, Kinds, LastSubstate
  <2>6. ASSUME NEW c \in Chans, ChannelRun(c) \/ ChannelCreate(c) PROVE ResetInv'
    BY <2>4, <2>5, <2>6 DEF ChannelRun, ChannelCreate, CallPeer, SendAcl, cmdVars
  <2>7. CASE Connect
    <3>1. Working /\ substate' = substate
      BY <2>7 DEF Connect
    <3>2. SendCommand("other") \/ asked' = asked
      BY <2>7 DEF Connect, CallPeer
    <3>3. QED
      BY <2>4, <2>5, <3>1, <3>2
  <2>8. ASSUME NEW q \in Queues, Reroute(q) PROVE ResetInv'
    BY <2>4, <2>8 DEF Reroute, cmdVars
  <2>9. ASSUME NEW p \in Peers, IdleTimeout(p) PROVE ResetInv'
    BY <2>5, <2>9 DEF IdleTimeout
  <2>10. CASE Delivered \/ UNCHANGED cmdVars
    BY <2>4, <2>10 DEF Delivered, cmdVars
  <2>11. QED
    BY <2>1, <2>2, <2>3, <2>4, <2>5, <2>6, <2>7, <2>8, <2>9, <2>10
       DEF Next, Loop, Dongle, Peer, Timers, ConnectionRequest, StrangerRequest, OtherRequest,
           SigOnly, ChannelRequest, ConfigureRequest, DisconnectionRequest, ConnectionResponse,
           ConfigureResponse, Receive, ConnectionComplete, EncryptionChange, FeaturesComplete,
           LinkKeyRequest, DisconnectionComplete, NumberOfCompletedPackets, Outcome, Run, HciRun,
           Respond, Reply, OutDone, RtxTimeout, vars, radioVars, cmdVars
<1>3. ResetInv => ResetAlone
  BY DEF ResetInv, ResetAlone, Resetless, LastSubstate
<1>4. QED
  BY <1>1, <1>2, <1>3, PTL DEF Spec
----------------------------------------------------------------------------
(* The emulation's view of the radio.  HandlesAgree, CidsTrue and PendingHasCause
   hold together or not at all: that a call of the console is always answered
   by an event needs that nothing else takes away the channel that waits for it
   (Waiting, CidSettled), that a channel beyond the wait is on a link (OnLink),
   and that the second channel is asked for when the first opens is no harm
   only because the second is not in use then (SecondAfterFirst). *)
Links == [st : {"none", "requested", "accepted", "creating", "open"},
          features : {"no", "wanted", "asked", "known"},
          enc : {"off", "wanted", "asked", "keyAsked", "keyed", "on"},
          block : BOOLEAN, sent : Int]
ChanStates == {"free", "willCreate", "waitComplete", "waitFeatures", "waitSecurity",
               "willRequest", "waitRsp", "willAccept", "config", "open", "willDiscRsp"}
Channels == [st : ChanStates,
             req : {"none", "send", "sent", "done"}, rsp : {"none", "send", "sent"},
             credit : Int]
ConnShape == conn \in [Peers -> Links]
ChanShape == chan \in [Chans -> Channels]
EmuShape == handle \in [Peers -> BOOLEAN] /\ cid \in [Chans -> BOOLEAN] /\ pending \in BOOLEAN
LinkSides == conn[Ds4].st # "creating" /\ conn[Ps4].st \notin {"requested", "accepted"}
Waiting == \A c \in Chans : chan[c].st \in AwaitLink => c = Ps4Ctrl /\ chan[c].req = "none"
PendingExact == pending <=> chan[Ps4Ctrl].st \in AwaitLink
CallPending == conn[Ps4].st = "creating" => pending
PendingNoLink == pending => conn[Ps4].st # "open"
OnLink == \A c \in Chans : chan[c].st \notin AwaitLink \cup {"free"} => IsOpen(c[1])
CidSettled == \A c \in Chans : cid[c] => chan[c].req = "none"
SecondAfterFirst == chan[Ps4Intr].st # "free"
                      => chan[Ps4Ctrl].st \in {"open", "willDiscRsp", "free"}
Shapes == ConnShape /\ ChanShape /\ EmuShape
View == /\ LinkSides /\ Waiting /\ PendingExact /\ CallPending /\ PendingNoLink /\ OnLink
        /\ CidSettled /\ SecondAfterFirst /\ HandlesAgree /\ CidsTrue
BridgeInv == Shapes /\ View

LEMMA TwoPeers ==
  /\ Peers = {Ds4, Ps4} /\ Ds4 # Ps4
  /\ Ps4Ctrl \in Chans /\ Ps4Intr \in Chans /\ Ps4Ctrl # Ps4Intr
  /\ Ps4Ctrl[1] = Ps4 /\ Ps4Intr[1] = Ps4
  /\ \A c \in Chans : c[1] \in Peers /\ (c[1] = Ps4 => c \in {Ps4Ctrl, Ps4Intr})
BY BridgeAssumption DEF Chans, Ps4Ctrl, Ps4Intr

LEMMA NewConn ==
  /\ NoConn \in Links /\ NoConn.st = "none"
  /\ RequestedConn(Ds4) \in Links /\ RequestedConn(Ds4).st = "requested"
<1>1. NoConn \in Links /\ NoConn.st = "none"
  BY DEF NoConn, Links
<1>2. QED
  BY <1>1 DEF RequestedConn, Links

LEMMA NewChan ==
  /\ NoChan \in Channels /\ NoChan.st = "free" /\ NoChan.req = "none"
  /\ \A s \in ChanStates : /\ InState(s) \in Channels
                           /\ InState(s).st = s /\ InState(s).req = "none"
<1>1. NoChan \in Channels /\ NoChan.st = "free" /\ NoChan.req = "none"
  BY DEF NoChan, Channels, ChanStates
<1>2. ASSUME NEW s \in ChanStates
      PROVE  InState(s) \in Channels /\ InState(s).st = s /\ InState(s).req = "none"
  BY <1>1 DEF InState, Channels
<1>3. QED
  BY <1>1, <1>2

(* A step that changes no state of a link or channel. *)
LEMMA QuietKeeps ==
  ASSUME BridgeInv, ConnShape', ChanShape', UNCHANGED emuVars,
         \A p \in Peers : conn'[p].st = conn[p].st,
         \A c \in Chans : chan'[c].st = chan[c].st /\ chan'[c].req = chan[c].req
  PROVE  BridgeInv'
<1>1. Shapes'
  BY DEF BridgeInv, Shapes, EmuShape, emuVars
<1>2. View'
  BY TwoPeers DEF BridgeInv, View, emuVars, LinkSides, Waiting, PendingExact, CallPending,
     PendingNoLink, OnLink, CidSettled, SecondAfterFirst, HandlesAgree, CidsTrue, AwaitLink, IsOpen
<1>3. QED
  BY <1>1, <1>2 DEF BridgeInv

(* Sending a packet touches no more than the counters. *)
LEMMA SendKeepsStates ==
  ASSUME NEW p, NEW x \in [Peers -> Links], SendAcl(p, x)
  PROVE  /\ ConnShape'
         /\ \A r \in Peers : conn'[r].st = x[r].st
BY DEF SendAcl, ConnShape, Links

LEMMA HandOutKeepsStates ==
  ASSUME NEW x, NEW y, NEW n, chan' = HandOut(x, y, n),
         x \in [Chans -> Channels]
  PROVE  /\ ChanShape'
         /\ \A c \in Chans : chan'[c].st = x[c].st /\ chan'[c].req = x[c].req
<1>1. \A c \in Chans : /\ chan'[c] \in Channels
                       /\ chan'[c].st = x[c].st /\ chan'[c].req = x[c].req
  BY DEF HandOut, Channels
<1>2. QED
  BY <1>1 DEF HandOut, ChanShape

LEMMA BridgeInit == Init => BridgeInv
<1> SUFFICES ASSUME Init PROVE BridgeInv
  OBVIOUS
<1>1. Shapes
  <2>1. ConnShape
    BY NewConn DEF Init, LinkInit, ConnShape
  <2>2. ChanShape
    BY NewChan DEF Init, L2capInit, ChanShape
  <2>3. EmuShape
    BY DEF Init, EmuShape
  <2>4. QED
    BY <2>1, <2>2, <2>3 DEF Shapes
<1>2. View
  BY TwoPeers DEF Init, LinkInit, L2capInit, NoConn, NoChan, View, LinkSides, Waiting, PendingExact,
     CallPending, PendingNoLink, OnLink, CidSettled, SecondAfterFirst, HandlesAgree, CidsTrue,
     AwaitLink, IsOpen
<1>3. QED
  BY <1>1, <1>2 DEF BridgeInv
(* A step of channels that neither wait for a link nor are known to the
   emulation, and do not open. *)
LEMMA ChannelMoves ==
  ASSUME BridgeInv, Shapes', UNCHANGED emuVars, SecondAfterFirst',
         \A p \in Peers : conn'[p].st = conn[p].st,
         \A c \in Chans :
            \/ chan'[c].st = chan[c].st /\ chan'[c].req = chan[c].req
            \/ /\ ~cid[c] /\ chan[c].st \notin AwaitLink
               /\ chan'[c].st \notin AwaitLink \cup {"open"}
               /\ chan'[c].st = "free" \/ IsOpen(c[1])
  PROVE  BridgeInv'
<1>1. View'
  BY TwoPeers DEF BridgeInv, View, emuVars, LinkSides, Waiting, PendingExact, CallPending,
     PendingNoLink, OnLink, CidSettled, HandlesAgree, CidsTrue, AwaitLink, IsOpen
<1>2. QED
  BY <1>1 DEF BridgeInv

LEMMA RequestKeeps == ASSUME BridgeInv, ConnectionRequest PROVE BridgeInv'
<1>1. conn' = [conn EXCEPT ![Ds4] = RequestedConn(Ds4)]
  BY TwoPeers DEF ConnectionRequest, LinkRequested
<1>2. Shapes'
  <2>1. ConnShape'
    BY <1>1, NewConn, TwoPeers DEF BridgeInv, Shapes, ConnShape
  <2>2. QED
    BY <2>1 DEF BridgeInv, Shapes, ChanShape, EmuShape, ConnectionRequest, chanVars, emuVars
<1>3. View'
  BY <1>1, TwoPeers DEF BridgeInv, Shapes, ConnShape, View, RequestedConn, NoConn, ConnectionRequest,
     chanVars, emuVars, LinkSides, Waiting, PendingExact, CallPending, PendingNoLink, OnLink,
     CidSettled, SecondAfterFirst, HandlesAgree, CidsTrue, AwaitLink, IsOpen
<1>4. QED
  BY <1>2, <1>3 DEF BridgeInv

(* hci_run: only a connection that was asked for changes its state. *)
LEMMA RunKeeps == ASSUME BridgeInv, Run PROVE BridgeInv'
<1>1. chan' = chan /\ UNCHANGED emuVars
  BY DEF Run, chanVars
<1>2. CASE conn' = conn
  BY <1>1, <1>2, QuietKeeps DEF BridgeInv, Shapes, ConnShape, ChanShape
<1>3. ASSUME NEW p \in Peers, NEW u \in Tasks, First(p, u), conn' = [conn EXCEPT ![p] = Done(@, u)]
      PROVE  BridgeInv'
  <2>1. u \in {"accept", "key", "features", "disconnect", "encrypt"}
    BY DEF Tasks, Order
  <2>2. ConnShape'
    <3>1. conn[p] \in Links
      BY DEF BridgeInv, Shapes, ConnShape
    <3>2. Done(conn[p], u) \in Links
      BY <2>1, <3>1 DEF Links, Done
    <3>3. QED
      BY <1>3, <3>2 DEF BridgeInv, Shapes, ConnShape
  <2>3. CASE u = "accept"
    <3>1. conn[p].st = "requested" /\ p = Ds4
      BY <1>3, <2>3, TwoPeers DEF First, Due, BridgeInv, View, LinkSides
    <3>2. conn' = [conn EXCEPT ![Ds4].st = "accepted"]
      BY <1>3, <2>3, <3>1 DEF Done
    <3>3. Shapes'
      BY <1>1, <2>2 DEF BridgeInv, Shapes, ChanShape, EmuShape, emuVars
    <3>4. View'
      BY <1>1, <3>1, <3>2, TwoPeers DEF BridgeInv, Shapes, ConnShape, Links, View, emuVars,
         LinkSides, Waiting, PendingExact, CallPending, PendingNoLink, OnLink, CidSettled,
         SecondAfterFirst, HandlesAgree, CidsTrue, AwaitLink, IsOpen
    <3>5. QED
      BY <3>3, <3>4 DEF BridgeInv
  <2>4. CASE u # "accept"
    <3>1. \A r \in Peers : conn'[r].st = conn[r].st
      BY <1>3, <2>1, <2>4 DEF BridgeInv, Shapes, ConnShape, Links, Done
    <3>2. QED
      BY <1>1, <2>2, <3>1, QuietKeeps DEF BridgeInv, Shapes, ChanShape
  <2>5. QED
    BY <2>3, <2>4
<1>4. QED
  BY <1>2, <1>3 DEF Run, HciRun
(* CONNECTION_COMPLETE: the channel that waited goes on, or is gone. *)
LEMMA CompleteKeeps ==
  ASSUME BridgeInv, NEW p \in Peers, NEW ok \in BOOLEAN, ConnectionComplete(p, ok)
  PROVE  BridgeInv'
<1> DEFINE Moved(c) == c[1] = p /\ chan[c].st \in AwaitLink
<1>1. conn[p].st \in {"accepted", "creating"}
  BY DEF ConnectionComplete
<1>2. /\ handle' = [handle EXCEPT ![p] = ok] /\ pending' = (pending /\ p # Ps4) /\ cid' = cid
  BY DEF ConnectionComplete, Connected, PendingAfter
<1>3. /\ ConnShape' /\ \A r \in Peers : r # p => conn'[r] = conn[r]
      /\ conn'[p].st = IF ok THEN "open" ELSE "none"
  BY NewConn DEF ConnectionComplete, LinkOpened, LinkFailed, BridgeInv, Shapes, ConnShape, Links
<1>4. /\ ChanShape' /\ \A c \in Chans : ~Moved(c) => chan'[c] = chan[c]
      /\ \A c \in Chans : Moved(c) => /\ chan'[c].req = "none"
                                     /\ chan'[c].st = IF ok THEN "waitFeatures" ELSE "free"
  BY NewChan DEF ConnectionComplete, LinkUp, LinkDown, BridgeInv, Shapes, ChanShape, ChanStates
<1>5. EmuShape'
  BY <1>2 DEF BridgeInv, Shapes, EmuShape
<1>6. p = Ds4 => \A c \in Chans : ~Moved(c)
  BY TwoPeers DEF BridgeInv, View, Waiting
<1>7. View'
  <2> USE TwoPeers DEF BridgeInv, View, Shapes, EmuShape
  <2>1. (LinkSides /\ Waiting /\ PendingExact /\ CallPending)'
    BY <1>1, <1>2, <1>3, <1>4, <1>6 DEF LinkSides, Waiting, PendingExact, CallPending, AwaitLink
  <2>2. (PendingNoLink /\ OnLink /\ HandlesAgree)'
    BY <1>1, <1>2, <1>3, <1>4, <1>6
       DEF LinkSides, PendingNoLink, PendingExact, OnLink, HandlesAgree, IsOpen, AwaitLink
  <2>3. (CidSettled /\ SecondAfterFirst /\ CidsTrue)'
    BY <1>1, <1>2, <1>3, <1>4, <1>6
       DEF CidSettled, SecondAfterFirst, CidsTrue, HandlesAgree, OnLink, Waiting, IsOpen, AwaitLink
  <2>4. QED
    BY <2>1, <2>2, <2>3
<1>8. QED
  BY <1>3, <1>4, <1>5, <1>7 DEF BridgeInv, Shapes

(* DISCONNECTION_COMPLETE: nobody waits for a link that is open, so all of its
   channels go. *)
LEMMA DisconnectKeeps ==
  ASSUME BridgeInv, NEW p \in Peers, DisconnectionComplete(p) PROVE BridgeInv'
<1>1. conn[p].st = "open"
  BY DEF DisconnectionComplete, IsOpen
<1>2. /\ handle' = [handle EXCEPT ![p] = FALSE] /\ pending' = (pending /\ p # Ps4)
      /\ cid' = [c \in Chans |-> cid[c] /\ c[1] # p]
  BY DEF DisconnectionComplete, Disconnected, ClosedHandle
<1>3. /\ ConnShape' /\ \A r \in Peers : r # p => conn'[r] = conn[r]
      /\ conn'[p].st = "none"
  BY NewConn DEF DisconnectionComplete, LinkGone, BridgeInv, Shapes, ConnShape
<1>4. \A c \in Chans : c[1] = p => chan[c].st \notin AwaitLink
  BY <1>1, TwoPeers DEF BridgeInv, View, Waiting, PendingExact, PendingNoLink
<1>5. /\ ChanShape'
      /\ \A c \in Chans : chan'[c] = IF c[1] = p THEN NoChan ELSE chan[c]
  BY <1>4, NewChan DEF DisconnectionComplete, Closed, BridgeInv, Shapes, ChanShape
<1>6. EmuShape'
  BY <1>2, ZenonT(20) DEF BridgeInv, Shapes, EmuShape
<1>7. View'
  <2> USE TwoPeers, NewChan DEF BridgeInv, View, Shapes, EmuShape
  <2>1. (LinkSides /\ Waiting /\ PendingExact /\ CallPending)'
    BY <1>1, <1>2, <1>3, <1>4, <1>5
       DEF LinkSides, Waiting, PendingExact, PendingNoLink, CallPending, AwaitLink
  <2>2. (PendingNoLink /\ OnLink /\ HandlesAgree)'
    BY <1>1, <1>2, <1>3, <1>5 DEF LinkSides, PendingNoLink, OnLink, HandlesAgree, IsOpen, AwaitLink
  <2>3. (CidSettled /\ SecondAfterFirst)'
    BY <1>2, <1>5 DEF CidSettled, SecondAfterFirst
  <2>4. CidsTrue'
    <3> SUFFICES ASSUME NEW c \in Chans
                 PROVE  /\ cid'[c] => handle'[c[1]]
                        /\ chan'[c].st = "open" => cid'[c]
                        /\ cid'[c] => chan'[c].st \in {"open", "willDiscRsp"}
      BY DEF CidsTrue
    <3>1. CASE c[1] = p
      BY <1>2, <1>5, <3>1
    <3>2. CASE c[1] # p
      BY <1>2, <1>5, <3>2 DEF CidsTrue
    <3>3. QED
      BY <3>1, <3>2
  <2>5. QED
    BY <2>1, <2>2, <2>3, <2>4
<1>8. QED
  BY <1>3, <1>5, <1>6, <1>7 DEF BridgeInv, Shapes
LEMMA FeaturesKeep ==
  ASSUME BridgeInv, NEW p \in Peers, FeaturesComplete(p) PROVE BridgeInv'
<1>1. UNCHANGED emuVars
  BY DEF FeaturesComplete
<1>2. ConnShape' /\ \A r \in Peers : conn'[r].st = conn[r].st
  BY DEF FeaturesComplete, FeaturesReceived, BridgeInv, Shapes, ConnShape, Links
<1>3. CASE chan' = chan
  BY <1>1, <1>2, <1>3, QuietKeeps DEF BridgeInv, Shapes, ChanShape
<1>4. ASSUME NEW c \in Chans, chan[c].st = "waitFeatures",
             chan' = [chan EXCEPT ![c] = InState(AfterFeatures(p))]
      PROVE  BridgeInv'
  <2>1. /\ InState(AfterFeatures(p)) \in Channels
        /\ InState(AfterFeatures(p)).st \in {"waitSecurity", "willRequest"}
    BY NewChan DEF AfterFeatures, ChanStates
  <2>2. Shapes'
    BY <1>1, <1>2, <1>4, <2>1 DEF BridgeInv, Shapes, ChanShape, EmuShape, emuVars
  <2>3. SecondAfterFirst'
    BY <1>4, <2>1, TwoPeers DEF BridgeInv, View, Shapes, ChanShape, SecondAfterFirst
  <2>4. ~cid[c] /\ IsOpen(c[1])
    BY <1>4 DEF BridgeInv, View, CidsTrue, OnLink, AwaitLink
  <2>5. QED
    BY <1>1, <1>2, <1>4, <2>1, <2>2, <2>3, <2>4, ChannelMoves
       DEF BridgeInv, Shapes, ChanShape, AwaitLink
<1>5. QED
  BY <1>3, <1>4 DEF FeaturesComplete

LEMMA EncryptionKeeps ==
  ASSUME BridgeInv, NEW p \in Peers, NEW ok \in BOOLEAN, EncryptionChange(p, ok)
  PROVE  BridgeInv'
<1>1. UNCHANGED emuVars /\ chan' = Secured(p)
  BY DEF EncryptionChange
<1>2. ConnShape' /\ \A r \in Peers : conn'[r].st = conn[r].st
  BY DEF EncryptionChange, Encryption, BridgeInv, Shapes, ConnShape, Links
<1>3. InState("willRequest") \in Channels /\ InState("willRequest").st = "willRequest"
  BY NewChan DEF ChanStates
<1>4. \A c \in Chans : \/ chan'[c] = chan[c]
                       \/ chan[c].st = "waitSecurity" /\ chan'[c] = InState("willRequest")
  BY <1>1 DEF Secured
<1>5. ChanShape'
  BY <1>1, <1>3 DEF Secured, BridgeInv, Shapes, ChanShape
<1>6. Shapes'
  BY <1>1, <1>2, <1>5 DEF BridgeInv, Shapes, EmuShape, emuVars
<1>7. SecondAfterFirst'
  BY <1>3, <1>4, TwoPeers DEF BridgeInv, View, SecondAfterFirst
<1>8. \A c \in Chans : chan[c].st = "waitSecurity" => ~cid[c] /\ IsOpen(c[1])
  BY DEF BridgeInv, View, CidsTrue, OnLink, AwaitLink
<1>9. QED
  BY <1>1, <1>2, <1>3, <1>4, <1>6, <1>7, <1>8, ChannelMoves DEF AwaitLink

(* The channel of one peer alone moves. *)
LEMMA OneMoves ==
  ASSUME BridgeInv, NEW c \in Chans, NEW x \in Channels, UNCHANGED emuVars,
         ConnShape', \A r \in Peers : conn'[r].st = conn[r].st,
         chan' = [chan EXCEPT ![c] = x], ~cid[c], chan[c].st \notin AwaitLink,
         x.st \notin AwaitLink \cup {"open"}, x.st = "free" \/ IsOpen(c[1]),
         c = Ps4Ctrl => x.st \in {"free", "willDiscRsp"} \/ chan[c].st # "free",
         c = Ps4Ctrl => chan[c].st \notin {"open", "willDiscRsp"} \/ x.st = "free",
         c = Ps4Intr => x.st = "free" \/ chan[c].st # "free"
  PROVE  BridgeInv'
<1>1. Shapes'
  BY DEF BridgeInv, Shapes, ChanShape, EmuShape, emuVars
<1>2. SecondAfterFirst'
  BY TwoPeers DEF BridgeInv, View, Shapes, ChanShape, SecondAfterFirst
<1>3. QED
  BY <1>1, <1>2, ChannelMoves DEF BridgeInv, Shapes, ChanShape

LEMMA RequestedChannelKeeps ==
  ASSUME BridgeInv, NEW c \in Chans, ChannelRequest(c) PROVE BridgeInv'
<1>1. UNCHANGED emuVars /\ conn' = conn
  BY DEF ChannelRequest, SigOnly, ChannelOnly, linkVars
<1>2. CASE chan' = chan
  BY <1>1, <1>2, QuietKeeps DEF BridgeInv, Shapes, ConnShape, ChanShape
<1>3. CASE chan' = [chan EXCEPT ![c] = InState("willAccept")]
  <2>1. InState("willAccept") \in Channels /\ InState("willAccept").st = "willAccept"
    BY NewChan DEF ChanStates
  <2>2. /\ ~cid[c] /\ chan[c].st \notin AwaitLink /\ IsOpen(c[1])
        /\ c # Ps4Ctrl /\ c # Ps4Intr
    BY TwoPeers DEF ChannelRequest, IsFree, BridgeInv, View, CidsTrue, AwaitLink
  <2>3. QED
    BY <1>1, <1>3, <2>1, <2>2, OneMoves DEF BridgeInv, Shapes, ConnShape, AwaitLink
<1>4. QED
  BY <1>2, <1>3 DEF ChannelRequest, SigOnly

LEMMA ResponseKeeps ==
  ASSUME BridgeInv, NEW c \in Chans, NEW ok \in BOOLEAN, ConnectionResponse(c, ok)
  PROVE  BridgeInv'
<1> DEFINE x == IF ok THEN InConfig ELSE NoChan
<1>1. UNCHANGED emuVars /\ conn' = conn /\ chan' = [chan EXCEPT ![c] = x]
  BY DEF ConnectionResponse, ChannelOnly, linkVars
<1>2. x \in Channels /\ x.st \in {"config", "free"}
  BY NewChan DEF InConfig, Channels, ChanStates
<1>3. chan[c].st = "waitRsp"
  BY DEF ConnectionResponse
<1>4. ~cid[c] /\ IsOpen(c[1])
  BY <1>3 DEF BridgeInv, View, CidsTrue, OnLink, AwaitLink
<1>5. c = Ps4Intr => chan[c].st # "free"
  BY <1>3
<1>6. QED
  BY <1>1, <1>2, <1>3, <1>4, OneMoves DEF BridgeInv, Shapes, ConnShape, AwaitLink

LEMMA RtxKeeps ==
  ASSUME BridgeInv, NEW c \in Chans, RtxTimeout(c) PROVE BridgeInv'
<1>1. UNCHANGED emuVars /\ conn' = conn /\ chan' = [chan EXCEPT ![c] = NoChan]
  BY DEF RtxTimeout, ChannelOnly, linkVars
<1>2. chan[c].req = "sent"
  BY DEF RtxTimeout, RtxArmed
<1>3. ~cid[c] /\ chan[c].st \notin AwaitLink
  BY <1>2 DEF BridgeInv, View, CidSettled, Waiting
<1>4. QED
  BY <1>1, <1>3, NewChan, OneMoves DEF BridgeInv, Shapes, ConnShape, AwaitLink
LEMMA DisconnectionRequestKeeps ==
  ASSUME BridgeInv, NEW c \in Chans, DisconnectionRequest(c) PROVE BridgeInv'
<1>1. /\ UNCHANGED emuVars /\ conn' = conn /\ chan' = [chan EXCEPT ![c].st = "willDiscRsp"]
      /\ chan[c].st \in {"config", "open"}
  BY DEF DisconnectionRequest, ChannelOnly, linkVars
<1>2. Shapes'
  BY <1>1 DEF BridgeInv, Shapes, ConnShape, ChanShape, EmuShape, emuVars, Channels, ChanStates
<1>3. /\ \A d \in Chans : d # c => chan'[d] = chan[d]
      /\ chan'[c].st = "willDiscRsp" /\ chan'[c].req = chan[c].req
  BY <1>1 DEF BridgeInv, Shapes, ChanShape, Channels
<1>4. View'
  BY <1>1, <1>3, TwoPeers DEF BridgeInv, View, emuVars, LinkSides, Waiting, PendingExact,
     CallPending, PendingNoLink, OnLink, CidSettled, SecondAfterFirst, HandlesAgree, CidsTrue,
     AwaitLink, IsOpen
<1>5. QED
  BY <1>2, <1>4 DEF BridgeInv

LEMMA AfterStates ==
  ASSUME BridgeInv, NEW c \in Chans, NEW x
  PROVE  /\ ConnAfter(c, x) \in [Peers -> Links]
         /\ \A p \in Peers : ConnAfter(c, x)[p].st = conn[p].st
BY TwoPeers DEF ConnAfter, SecondSecured, BridgeInv, Shapes, ConnShape, Links

(* A channel opens; the console's first makes way for its second. *)
LEMMA OpeningKeeps ==
  ASSUME BridgeInv, NEW c \in Chans, chan[c].st = "config", UNCHANGED <<handle, pending>>,
         ConnShape', \A p \in Peers : conn'[p].st = conn[p].st,
         chan' = WithSecond(c, [chan EXCEPT ![c] = OpenChan]), OpenedCid(c)
  PROVE  BridgeInv'
<1>1. IsOpen(c[1]) /\ handle[c[1]]
  BY TwoPeers DEF BridgeInv, View, OnLink, HandlesAgree, AwaitLink
<1>2. cid' = [cid EXCEPT ![c] = TRUE]
  BY <1>1, TwoPeers DEF OpenedCid, BridgeInv, Shapes, EmuShape
<1>3. OpenChan \in Channels /\ OpenChan.st = "open" /\ OpenChan.req = "none"
  BY NewChan DEF OpenChan, Channels, ChanStates
<1>4. (LinkSides /\ CallPending /\ PendingNoLink /\ HandlesAgree)'
  BY TwoPeers DEF BridgeInv, View, LinkSides, CallPending, PendingNoLink, HandlesAgree, IsOpen
<1>5. CASE c # Ps4Ctrl
  <2>1. chan' = [chan EXCEPT ![c] = OpenChan]
    BY <1>5 DEF WithSecond, CallsSecond
  <2>2. Shapes'
    BY <1>2, <1>3, <2>1 DEF BridgeInv, Shapes, ChanShape, EmuShape
  <2>3. /\ chan'[c] = OpenChan /\ cid'[c]
        /\ \A d \in Chans : d # c => chan'[d] = chan[d] /\ cid'[d] = cid[d]
    BY <1>2, <2>1 DEF BridgeInv, Shapes, ChanShape, EmuShape
  <2>4. (Waiting /\ PendingExact /\ SecondAfterFirst)'
    BY <1>3, <1>5, <2>3, TwoPeers
       DEF BridgeInv, View, Waiting, PendingExact, SecondAfterFirst, AwaitLink
  <2>5. (OnLink /\ CidSettled)'
    <3> SUFFICES ASSUME NEW d \in Chans
                 PROVE  /\ chan'[d].st \notin AwaitLink \cup {"free"} => conn'[d[1]].st = "open"
                        /\ cid'[d] => chan'[d].req = "none"
      BY DEF OnLink, CidSettled, IsOpen, AwaitLink
    <3>1. conn'[d[1]].st = conn[d[1]].st
      BY TwoPeers
    <3>2. QED
      BY <1>1, <1>3, <2>3, <3>1 DEF BridgeInv, View, OnLink, CidSettled, IsOpen
  <2>6. CidsTrue'
    BY <1>1, <1>3, <2>3 DEF BridgeInv, View, CidsTrue
  <2>7. QED
    BY <1>4, <2>2, <2>4, <2>5, <2>6 DEF BridgeInv, View
<1>6. CASE c = Ps4Ctrl
  <2> DEFINE y == InState(CreatedState(Ps4))
  <2>1. y \in Channels /\ y.st \in {"waitSecurity", "willRequest", "waitFeatures"} /\ y.req = "none"
    BY <1>1, <1>6, TwoPeers, NewChan DEF CreatedState, AfterFeatures, IsOpen, ChanStates
  <2>2. chan' = [chan EXCEPT ![Ps4Ctrl] = OpenChan, ![Ps4Intr] = y]
    BY <1>1, <1>6, TwoPeers DEF WithSecond, CallsSecond, BridgeInv, Shapes, ChanShape
  <2>3. chan[Ps4Intr].st = "free" /\ ~cid[Ps4Intr]
    BY <1>6, TwoPeers DEF BridgeInv, View, SecondAfterFirst, CidsTrue
  <2> HIDE DEF y
  <2>4. Shapes'
    BY <1>2, <1>3, <2>1, <2>2 DEF BridgeInv, Shapes, ChanShape, EmuShape
  <2>5. /\ chan'[Ps4Ctrl] = OpenChan /\ cid'[Ps4Ctrl]
        /\ chan'[Ps4Intr] = y /\ ~cid'[Ps4Intr]
        /\ \A d \in Chans : d \notin {Ps4Ctrl, Ps4Intr} => chan'[d] = chan[d] /\ cid'[d] = cid[d]
    BY <1>2, <1>6, <2>2, <2>3, TwoPeers DEF BridgeInv, Shapes, ChanShape, EmuShape
  <2>6. (Waiting /\ PendingExact /\ SecondAfterFirst)'
    BY <1>3, <1>6, <2>1, <2>5, TwoPeers
       DEF BridgeInv, View, Waiting, PendingExact, SecondAfterFirst, AwaitLink
  <2>7. (OnLink /\ CidSettled)'
    <3> SUFFICES ASSUME NEW d \in Chans
                 PROVE  /\ chan'[d].st \notin AwaitLink \cup {"free"} => conn'[d[1]].st = "open"
                        /\ cid'[d] => chan'[d].req = "none"
      BY DEF OnLink, CidSettled, IsOpen, AwaitLink
    <3>1. conn'[d[1]].st = conn[d[1]].st
      BY TwoPeers
    <3>2. CASE d \in {Ps4Ctrl, Ps4Intr}
      BY <1>1, <1>3, <1>6, <2>1, <2>5, <3>1, <3>2, TwoPeers DEF IsOpen
    <3>3. CASE d \notin {Ps4Ctrl, Ps4Intr}
      BY <2>5, <3>1, <3>3 DEF BridgeInv, View, OnLink, CidSettled, IsOpen
    <3>4. QED
      BY <3>2, <3>3
  <2>8. CidsTrue'
    <3> SUFFICES ASSUME NEW d \in Chans
                 PROVE  /\ cid'[d] => handle'[d[1]]
                        /\ chan'[d].st = "open" => cid'[d]
                        /\ cid'[d] => chan'[d].st \in {"open", "willDiscRsp"}
      BY DEF CidsTrue
    <3>1. CASE d \in {Ps4Ctrl, Ps4Intr}
      BY <1>1, <1>3, <1>6, <2>1, <2>5, <3>1, TwoPeers
    <3>2. CASE d \notin {Ps4Ctrl, Ps4Intr}
      BY <2>5, <3>2 DEF BridgeInv, View, CidsTrue
    <3>3. QED
      BY <3>1, <3>2
  <2>9. QED
    BY <1>4, <2>4, <2>6, <2>7, <2>8 DEF BridgeInv, View
<1>7. QED
  BY <1>5, <1>6

(* Whichever end of the configuration comes last. *)
LEMMA SettledKeeps ==
  ASSUME BridgeInv, NEW c \in Chans, NEW x \in Channels, Settled(c, x),
         UNCHANGED <<handle, pending>>, ConnShape', \A p \in Peers : conn'[p].st = conn[p].st,
         chan[c].st \in {"willRequest", "willAccept", "config"},
         x.st \in {"waitRsp", "config"}, x.st = "config" /\ x.req = "done" => chan[c].st = "config"
  PROVE  BridgeInv'
<1>1. CASE ReadyForOpen(x)
  BY <1>1, OpeningKeeps DEF Settled, ReadyForOpen
<1>2. CASE ~ReadyForOpen(x)
  <2>1. UNCHANGED emuVars /\ chan' = [chan EXCEPT ![c] = x]
    BY <1>2 DEF Settled, emuVars
  <2>2. ~cid[c] /\ IsOpen(c[1]) /\ chan[c].st \notin AwaitLink
    BY DEF BridgeInv, View, CidsTrue, OnLink, AwaitLink
  <2>3. chan[c].st \notin {"free", "open", "willDiscRsp"} /\ x.st \notin AwaitLink \cup {"open"}
    BY DEF AwaitLink
  <2>4. QED
    BY <2>1, <2>2, <2>3, OneMoves
<1>3. QED
  BY <1>1, <1>2

LEMMA ConfigureResponseKeeps ==
  ASSUME BridgeInv, NEW c \in Chans, NEW ok \in BOOLEAN, ConfigureResponse(c, ok)
  PROVE  BridgeInv'
<1> DEFINE x == Configured(chan[c], ok)
<1>1. Settled(c, x) /\ conn' = ConnAfter(c, x) /\ UNCHANGED <<handle, pending>>
      /\ chan[c].st = "config"
  BY DEF ConfigureResponse
<1>2. x \in Channels /\ x.st = "config"
  BY <1>1 DEF Configured, BridgeInv, Shapes, ChanShape, Channels
<1>3. ConnShape' /\ \A p \in Peers : conn'[p].st = conn[p].st
  BY <1>1, AfterStates DEF ConnShape
<1> HIDE DEF x
<1>4. QED
  BY <1>1, <1>2, <1>3, SettledKeeps
LEMMA ChannelRunKeeps ==
  ASSUME BridgeInv, NEW c \in Chans, ChannelRun(c) PROVE BridgeInv'
<1> DEFINE x == Served(chan[c])
<1>1. SendAcl(c[1], ConnAfter(c, x)) /\ HasPacket(c) /\ UNCHANGED <<handle, pending>>
  BY DEF ChannelRun
<1>2. ConnShape' /\ \A p \in Peers : conn'[p].st = conn[p].st
  <2> DEFINE y == ConnAfter(c, x)
  <2>1. y \in [Peers -> Links] /\ \A p \in Peers : y[p].st = conn[p].st
    BY AfterStates
  <2>2. SendAcl(c[1], y)
    BY <1>1
  <2> HIDE DEF y
  <2>3. QED
    BY <2>1, <2>2, SendKeepsStates
<1>3. chan[c] \in Channels
  BY DEF BridgeInv, Shapes, ChanShape
<1>4. CASE chan[c].st = "willDiscRsp"
  <2>1. chan' = [chan EXCEPT ![c] = NoChan] /\ cid' = [cid EXCEPT ![c] = FALSE]
    BY <1>4 DEF ChannelRun, Served, ClosedCid
  <2>2. Shapes'
    BY <1>1, <1>2, <2>1, NewChan DEF BridgeInv, Shapes, ChanShape, EmuShape
  <2>3. /\ chan'[c] = NoChan /\ ~cid'[c]
        /\ \A d \in Chans : d # c => chan'[d] = chan[d] /\ cid'[d] = cid[d]
    BY <2>1 DEF BridgeInv, Shapes, ChanShape, EmuShape
  <2>4. (LinkSides /\ CallPending /\ PendingNoLink /\ HandlesAgree)'
    BY <1>1, <1>2, TwoPeers
       DEF BridgeInv, View, LinkSides, CallPending, PendingNoLink, HandlesAgree, IsOpen
  <2>5. (Waiting /\ PendingExact /\ SecondAfterFirst)'
    BY <1>1, <1>4, <2>3, NewChan, TwoPeers
       DEF BridgeInv, View, Waiting, PendingExact, SecondAfterFirst, AwaitLink
  <2>6. (OnLink /\ CidSettled)'
    <3> SUFFICES ASSUME NEW d \in Chans
                 PROVE  /\ chan'[d].st \notin AwaitLink \cup {"free"} => conn'[d[1]].st = "open"
                        /\ cid'[d] => chan'[d].req = "none"
      BY DEF OnLink, CidSettled, IsOpen, AwaitLink
    <3>1. conn'[d[1]].st = conn[d[1]].st
      BY <1>2, TwoPeers
    <3>2. QED
      BY <2>3, <3>1, NewChan DEF BridgeInv, View, OnLink, CidSettled, IsOpen
  <2>7. CidsTrue'
    BY <1>1, <2>3, NewChan DEF BridgeInv, View, CidsTrue
  <2>8. QED
    BY <2>2, <2>4, <2>5, <2>6, <2>7 DEF BridgeInv, View
<1>5. CASE chan[c].st # "willDiscRsp"
  <2>1. Settled(c, x)
    BY <1>5 DEF ChannelRun
  <2>2. chan[c].st \in {"willRequest", "willAccept", "config"}
    BY <1>1, <1>5 DEF HasPacket
  <2>3. x \in Channels /\ x.st \in {"waitRsp", "config"}
    <3>1. CASE chan[c].st = "willRequest"
      <4>1. x = [InState("waitRsp") EXCEPT !.req = "sent"]
        BY <3>1 DEF Served
      <4>2. QED
        BY <4>1, NewChan DEF Channels, ChanStates
    <3>2. CASE chan[c].st = "willAccept"
      <4>1. x = InConfig
        BY <3>2 DEF Served
      <4>2. QED
        BY <4>1, NewChan DEF InConfig, Channels, ChanStates
    <3>3. CASE chan[c].st = "config"
      BY <1>3, <3>3 DEF Served, Channels
    <3>4. QED
      BY <2>2, <3>1, <3>2, <3>3
  <2>4. x.st = "config" /\ x.req = "done" => chan[c].st = "config"
    <3>1. CASE chan[c].st = "willRequest"
      BY <1>3, <3>1, NewChan DEF Served, Channels, ChanStates
    <3>2. CASE chan[c].st = "willAccept"
      <4>1. x = InConfig
        BY <3>2 DEF Served
      <4>2. x.req = "send"
        BY <4>1, NewChan DEF InConfig, Channels, ChanStates
      <4>3. QED
        BY <4>2
    <3>3. QED
      BY <2>2, <3>1, <3>2
  <2> HIDE DEF x
  <2>5. QED
    BY <1>1, <1>2, <2>1, <2>2, <2>3, <2>4, SettledKeeps
<1>6. QED
  BY <1>4, <1>5

(* The call of the console waits for the link from the start. *)
LEMMA CallKeeps ==
  ASSUME BridgeInv, ~IsOpen(Ps4), NEW s \in AwaitLink, handle' = handle, cid' = cid, pending' = TRUE,
         chan' = [chan EXCEPT ![Ps4Ctrl] = InState(s)],
         ConnShape', conn'[Ds4].st = conn[Ds4].st, conn'[Ps4].st \in {"none", "creating"}
  PROVE  BridgeInv'
<1>1. InState(s) \in Channels /\ InState(s).st = s /\ InState(s).req = "none"
  BY NewChan DEF AwaitLink, ChanStates
<1>2. Shapes'
  BY <1>1, TwoPeers DEF BridgeInv, Shapes, ChanShape, EmuShape
<1>3. /\ chan'[Ps4Ctrl] = InState(s)
      /\ \A d \in Chans : d # Ps4Ctrl => chan'[d] = chan[d]
  BY TwoPeers DEF BridgeInv, Shapes, ChanShape
<1>4. ~cid[Ps4Ctrl] /\ ~cid[Ps4Intr]
  BY TwoPeers DEF BridgeInv, View, CidsTrue, HandlesAgree
<1>5. chan[Ps4Intr].st = "free"
  BY TwoPeers DEF BridgeInv, View, OnLink, Waiting
<1>6. View'
  <2>1. (LinkSides /\ CallPending /\ PendingNoLink /\ HandlesAgree)'
    BY TwoPeers
       DEF BridgeInv, View, LinkSides, CallPending, PendingNoLink, HandlesAgree, IsOpen
  <2>2. (Waiting /\ PendingExact /\ SecondAfterFirst)'
    BY <1>1, <1>3, <1>5, TwoPeers
       DEF BridgeInv, View, Waiting, PendingExact, SecondAfterFirst, AwaitLink
  <2>3. (OnLink /\ CidSettled /\ CidsTrue)'
    <3> SUFFICES ASSUME NEW d \in Chans
                 PROVE  /\ chan'[d].st \notin AwaitLink \cup {"free"} => conn'[d[1]].st = "open"
                        /\ cid'[d] => chan'[d].req = "none"
                        /\ cid'[d] => handle'[d[1]]
                        /\ chan'[d].st = "open" => cid'[d]
                        /\ cid'[d] => chan'[d].st \in {"open", "willDiscRsp"}
      BY DEF OnLink, CidSettled, CidsTrue, IsOpen, AwaitLink
    <3>1. CASE d = Ps4Ctrl
      BY <1>1, <1>3, <1>4, <3>1 DEF AwaitLink
    <3>2. CASE d = Ps4Intr
      BY <1>3, <1>4, <1>5, <3>2, TwoPeers
    <3>3. CASE d \notin {Ps4Ctrl, Ps4Intr}
      <4>1. d[1] = Ds4 /\ chan'[d] = chan[d]
        BY <1>3, <3>3, TwoPeers
      <4>2. QED
        BY <4>1 DEF BridgeInv, View, OnLink, CidSettled, CidsTrue, IsOpen
    <3>4. QED
      BY <3>1, <3>2, <3>3
  <2>4. QED
    BY <2>1, <2>2, <2>3 DEF View
<1>7. QED
  BY <1>2, <1>6 DEF BridgeInv
LEMMA PeerCalled ==
  ASSUME BridgeInv, CallPeer(Ps4Ctrl)
  PROVE  /\ chan' = [chan EXCEPT ![Ps4Ctrl] = InState("waitComplete")]
         /\ ConnShape' /\ conn'[Ds4].st = conn[Ds4].st /\ conn'[Ps4].st = "creating"
<1>1. /\ conn' = [conn EXCEPT ![Ps4] = [NoConn EXCEPT !.st = "creating"]]
      /\ chan' = [chan EXCEPT ![Ps4Ctrl] = InState("waitComplete")]
  BY TwoPeers DEF CallPeer
<1>2. [NoConn EXCEPT !.st = "creating"] \in Links
  BY NewConn DEF Links
<1>3. QED
  BY <1>1, <1>2, NewConn, TwoPeers DEF BridgeInv, Shapes, ConnShape, Links

LEMMA CreateKeeps ==
  ASSUME BridgeInv, NEW c \in Chans, ChannelCreate(c) PROVE BridgeInv'
<1>1. c = Ps4Ctrl /\ chan[Ps4Ctrl].st = "willCreate" /\ conn[Ps4].st = "none"
  BY TwoPeers DEF ChannelCreate, BridgeInv, View, Waiting, AwaitLink
<1>2. handle' = handle /\ cid' = cid /\ pending' = pending /\ CallPeer(Ps4Ctrl)
  BY <1>1 DEF ChannelCreate, emuVars
<1>3. pending = TRUE
  BY <1>1 DEF BridgeInv, View, Shapes, EmuShape, PendingExact, AwaitLink
<1>4. ~IsOpen(Ps4) /\ "waitComplete" \in AwaitLink
  BY <1>1 DEF IsOpen, AwaitLink
<1>5. QED
  BY <1>2, <1>3, <1>4, PeerCalled, CallKeeps

LEMMA ConnectKeeps ==
  ASSUME BridgeInv, Connect PROVE BridgeInv'
<1>1. handle' = handle /\ cid' = cid /\ pending' = TRUE
  BY DEF Connect
<1>2. conn[Ps4].st = "none"
  <2>1. ~handle[Ps4] /\ ~pending
    BY DEF Connect, MayConnect
  <2>2. conn[Ps4] \in Links
    BY TwoPeers DEF BridgeInv, Shapes, ConnShape
  <2>3. QED
    BY <2>1, <2>2, TwoPeers
       DEF Links, BridgeInv, View, LinkSides, CallPending, HandlesAgree, IsOpen
<1>3. ~IsOpen(Ps4) /\ AwaitLink = {"willCreate", "waitComplete"}
  BY <1>2 DEF IsOpen, AwaitLink
<1>4. CASE CallPeer(Ps4Ctrl)
  BY <1>1, <1>3, <1>4, PeerCalled, CallKeeps
<1>5. CASE ~CallPeer(Ps4Ctrl)
  <2>1. chan' = [chan EXCEPT ![Ps4Ctrl] = InState("willCreate")]
    BY <1>2, <1>5 DEF Connect, CreatedState
  <2>2. ConnShape' /\ \A p \in Peers : conn'[p].st = conn[p].st
    <3>1. CASE conn' = conn
      BY <3>1 DEF BridgeInv, Shapes, ConnShape
    <3>2. CASE sigq # <<>> /\ SendAcl(Head(sigq)[1], Blocked(Head(sigq)[1], Head(sigq)[2]))
      <4> DEFINE p == Head(sigq)[1]
                 y == Blocked(p, Head(sigq)[2])
      <4>1. y \in [Peers -> Links] /\ \A r \in Peers : y[r].st = conn[r].st
        BY DEF Blocked, BridgeInv, Shapes, ConnShape, Links
      <4>2. SendAcl(p, y)
        BY <3>2
      <4> HIDE DEF p, y
      <4>3. QED
        BY <4>1, <4>2, SendKeepsStates
    <3>3. QED
      BY <1>5, <3>1, <3>2 DEF Connect
  <2>3. QED
    BY <1>1, <1>2, <1>3, <2>1, <2>2, TwoPeers, CallKeeps
<1>6. QED
  BY <1>4, <1>5
(* Actions that move no channel's state: packets sent, flags set, counters. *)
LEMMA OthersKeep ==
  ASSUME BridgeInv, UNCHANGED emuVars,
         \/ UNCHANGED <<conn, chan>>
         \/ Respond
         \/ \E p \in Peers : LinkKeyRequest(p) \/ NumberOfCompletedPackets(p)
         \/ \E c \in Chans : ConfigureRequest(c)
         \/ \E q \in Queues : Reroute(q)
  PROVE  BridgeInv'
<1> DEFINE SameConn == ConnShape' /\ \A p \in Peers : conn'[p].st = conn[p].st
           SameChan == ChanShape' /\ \A c \in Chans : chan'[c].st = chan[c].st
                                                     /\ chan'[c].req = chan[c].req
<1> USE DEF BridgeInv, Shapes
<1>1. conn' = conn => SameConn
  BY DEF ConnShape
<1>2. chan' = chan => SameChan
  BY DEF ChanShape
<1>3. SameConn /\ SameChan => BridgeInv'
  BY QuietKeeps
<1>4. CASE Respond
  <2> DEFINE y == Blocked(Head(sigq)[1], Head(sigq)[2])
  <2>1. SendAcl(Head(sigq)[1], y) /\ chan' = chan
    BY <1>4 DEF Respond, Reply
  <2>2. y \in [Peers -> Links] /\ \A r \in Peers : y[r].st = conn[r].st
    BY DEF Blocked, ConnShape, Links
  <2> HIDE DEF y
  <2>3. QED
    BY <1>2, <1>3, <2>1, <2>2, SendKeepsStates
<1>5. ASSUME NEW p \in Peers, LinkKeyRequest(p) \/ NumberOfCompletedPackets(p) PROVE BridgeInv'
  <2>1. SameConn
    BY <1>5 DEF LinkKeyRequest, NumberOfCompletedPackets, Encryption, PacketCompleted, ConnShape,
                Links
  <2>2. SameChan
    <3>1. CASE LinkKeyRequest(p)
      BY <1>2, <3>1 DEF LinkKeyRequest, chanVars
    <3>2. CASE NumberOfCompletedPackets(p)
      BY <3>2, HandOutKeepsStates DEF NumberOfCompletedPackets, ChanShape
    <3>3. QED
      BY <1>5, <3>1, <3>2
  <2>3. QED
    BY <1>3, <2>1, <2>2
<1>6. ASSUME NEW c \in Chans, ConfigureRequest(c) PROVE BridgeInv'
  <2>1. conn' = conn /\ SameChan
    BY <1>6 DEF ConfigureRequest, ChannelOnly, linkVars, ChanShape, Channels
  <2>2. QED
    BY <1>1, <1>3, <2>1
<1>7. ASSUME NEW q \in Queues, Reroute(q) PROVE BridgeInv'
  <2>1. CASE UNCHANGED <<conn, chan>>
    BY <1>1, <1>2, <1>3, <2>1
  <2>2. ASSUME SendAcl(Dest[q][1], conn),
               chan' = HandOut([chan EXCEPT ![Dest[q]].credit = @ - 1], conn', aclSent')
        PROVE  BridgeInv'
    <3> DEFINE x == [chan EXCEPT ![Dest[q]].credit = @ - 1]
    <3>1. SameConn
      BY <2>2, SendKeepsStates DEF ConnShape
    <3>2. /\ x \in [Chans -> Channels]
          /\ \A c \in Chans : x[c].st = chan[c].st /\ x[c].req = chan[c].req
      <4> DEFINE d == Dest[q]
      <4>1. x = [chan EXCEPT ![d].credit = @ - 1]
        OBVIOUS
      <4> HIDE DEF d, x
      <4>2. ASSUME NEW c \in Chans
            PROVE  x[c] \in Channels /\ x[c].st = chan[c].st /\ x[c].req = chan[c].req
        <5>1. chan[c] \in Channels
          BY DEF ChanShape
        <5>2. x[c] = IF c = d THEN [chan[c] EXCEPT !.credit = @ - 1] ELSE chan[c]
          BY <4>1 DEF ChanShape
        <5>3. QED
          BY <5>1, <5>2 DEF Channels
      <4>3. QED
        BY <4>1, <4>2 DEF ChanShape
    <3>3. chan' = HandOut(x, conn', aclSent')
      BY <2>2
    <3> HIDE DEF x
    <3>4. SameChan
      BY <3>2, <3>3, HandOutKeepsStates
    <3>5. QED
      BY <1>3, <3>1, <3>4
  <2>3. QED
    BY <1>7, <2>1, <2>2 DEF Reroute
<1>8. QED
  BY <1>1, <1>2, <1>3, <1>4, <1>5, <1>6, <1>7

LEMMA BridgeStep == BridgeInv /\ [Next]_vars => BridgeInv'
<1> SUFFICES ASSUME BridgeInv, [Next]_vars PROVE BridgeInv'
  OBVIOUS
<1>1. CASE UNCHANGED <<conn, chan, handle, cid, pending>>
  BY <1>1, OthersKeep DEF emuVars
<1>2. CASE Run
  BY <1>2, RunKeeps
<1>3. CASE Respond
  BY <1>3, OthersKeep DEF Respond
<1>4. ASSUME NEW c \in Chans, ChannelRun(c) \/ ChannelCreate(c) PROVE BridgeInv'
  BY <1>4, ChannelRunKeeps, CreateKeeps
<1>5. ASSUME NEW p \in Peers, NEW ok \in BOOLEAN, ConnectionComplete(p, ok) \/ EncryptionChange(p, ok)
      PROVE  BridgeInv'
  BY <1>5, CompleteKeeps, EncryptionKeeps
<1>6. ASSUME NEW p \in Peers, FeaturesComplete(p) \/ DisconnectionComplete(p) PROVE BridgeInv'
  BY <1>6, FeaturesKeep, DisconnectKeeps
<1>7. ASSUME NEW p \in Peers, LinkKeyRequest(p) \/ NumberOfCompletedPackets(p) PROVE BridgeInv'
  BY <1>7, OthersKeep DEF LinkKeyRequest, NumberOfCompletedPackets
<1>8. CASE ConnectionRequest
  BY <1>8, RequestKeeps
<1>9. ASSUME NEW c \in Chans, ChannelRequest(c) \/ DisconnectionRequest(c) \/ RtxTimeout(c)
      PROVE  BridgeInv'
  BY <1>9, RequestedChannelKeeps, DisconnectionRequestKeeps, RtxKeeps
<1>10. ASSUME NEW c \in Chans, ConfigureRequest(c) PROVE BridgeInv'
  BY <1>10, OthersKeep DEF ConfigureRequest, ChannelOnly
<1>11. ASSUME NEW c \in Chans, NEW ok \in BOOLEAN, ConnectionResponse(c, ok) \/ ConfigureResponse(c, ok)
       PROVE  BridgeInv'
  BY <1>11, ResponseKeeps, ConfigureResponseKeeps
<1>12. CASE Connect
  BY <1>12, ConnectKeeps
<1>13. ASSUME NEW q \in Queues, Reroute(q) PROVE BridgeInv'
  BY <1>13, OthersKeep DEF Reroute
<1>14. CASE StartUp \/ Answer \/ SpuriousStatus \/ OutDone \/ StrangerRequest
  BY <1>1, <1>14 DEF StartUp, Answer, SpuriousStatus, OutDone, StrangerRequest, Above, linkVars,
                     chanVars, emuVars
<1>15. ASSUME NEW p \in Peers, NEW kind, OtherRequest(p, kind) \/ IdleTimeout(p) PROVE BridgeInv'
  BY <1>1, <1>15 DEF OtherRequest, SigOnly, IdleTimeout, linkVars, chanVars, emuVars
<1>16. ASSUME NEW q \in Queues, Receive(q) PROVE BridgeInv'
  BY <1>1, <1>16 DEF Receive, linkVars, chanVars, emuVars
<1>17. CASE UNCHANGED vars
  BY <1>1, <1>17 DEF vars, radioVars, linkVars, chanVars, emuVars
<1>18. QED
  BY <1>2, <1>3, <1>4, <1>5, <1>6, <1>7, <1>8, <1>9, <1>10, <1>11, <1>12, <1>13, <1>14, <1>15, <1>16,
     <1>17 DEF Next, Loop, Dongle, Peer, Timers

(* RadioKnown: bt2ds_handle and bt2ps_handle name links that exist, and no link
   exists without them; the emulation sends only to channels that are open, or
   about to be closed, on such a link, and knows every channel that is open. *)
THEOREM RadioTrue == Spec => []RadioKnown
<1>1. BridgeInv => RadioKnown
  BY DEF BridgeInv, View, RadioKnown
<1>2. QED
  BY <1>1, BridgeInit, BridgeStep, PTL DEF Spec

(* PendingHasCause: the wait for the console is never left without the channel
   whose outcome ends it. *)
THEOREM WaitHasCause == Spec => []PendingHasCause
<1>1. BridgeInv => PendingHasCause
  BY DEF BridgeInv, View, PendingExact, PendingHasCause
<1>2. QED
  BY <1>1, BridgeInit, BridgeStep, PTL DEF Spec
=============================================================================
