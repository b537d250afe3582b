----------------------------- MODULE Ds4Bridge -----------------------------
(***************************************************************************)
(* The emulation between a DualShock 4 and a PlayStation 4 (ds4_emu.c):    *)
(* the controller pages the dongle, the dongle then calls the console with *)
(* the key it saved, and reports go from one to the other through five     *)
(* ring buffers of packets (ringbuffer.h).  This module joins the events   *)
(* of the links and channels with what btproxy_sub_handler makes of them.  *)
(*                                                                         *)
(* Single-threaded: an action is one event or ACL packet, one of the calls *)
(* of the run loop, or one of the parts of ds4emu_task; the dongle's task  *)
(* looks at nothing while it is sending an ACL packet.                     *)
(***************************************************************************)
EXTENDS L2cap

CONSTANTS Ds4, Ps4,         \* ds4_bdaddr, ps4_bdaddr
          Ctrl, Intr,       \* the two PSMs
          QueueSize,        \* items of a ring buffer
          CountMod,         \* its 8-bit count, a multiple of QueueSize
          Budgets           \* bounds: what the environment may do in a behaviour

ASSUME BridgeAssumption ==
  /\ Peers = {Ds4, Ps4} /\ Ds4 # Ps4 /\ Psms = {Ctrl, Intr} /\ Ctrl # Intr
  /\ {QueueSize, CountMod} \subseteq Nat \ {0} /\ CountMod % QueueSize = 0
  /\ Budgets \subseteq [faults : [Peers -> Nat], nops : Nat, data : Nat, flows : SUBSET STRING]

VARIABLES handle,           \* bt2ds_handle # 0, bt2ps_handle # 0
          cid,              \* bt2xx_hidxxxx_channel # 0
          pending,          \* EMUSTATE_PENDING_PS4_BT_CONN
          ring,             \* slots of each ring buffer: number of a packet or 0
          pushed, popped,   \* operations on it so far
          sent,             \* history: packets of it sent on, oldest first
          budget            \* what is left of the bounds

emuVars   == <<handle, cid, pending>>
ringVars  == <<ring, pushed, popped, sent>>
radioVars == <<cmdVars, txVars, linkVars, chanVars>>
vars == <<radioVars, emuVars, ringVars, budget>>

Ps4Ctrl == <<Ps4, Ctrl>>
Ps4Intr == <<Ps4, Intr>>
Dest == [ds2psIntr |-> Ps4Intr, ds2psHigh |-> Ps4Intr, ds2psCtrl |-> Ps4Ctrl,
         ps2dsIntr |-> <<Ds4, Intr>>, ps2dsCtrl |-> <<Ds4, Ctrl>>]
Source == [ds2psIntr |-> <<Ds4, Intr>>, ds2psHigh |-> <<Ds4, Intr>>,
           ds2psCtrl |-> <<Ds4, Ctrl>>, ps2dsIntr |-> Ps4Intr, ps2dsCtrl |-> Ps4Ctrl]
Queues == DOMAIN Dest

Init == /\ CommandInit /\ LinkInit /\ L2capInit
        /\ handle = [p \in Peers |-> FALSE] /\ cid = [c \in Chans |-> FALSE]
        /\ pending = FALSE
        /\ ring = [q \in Queues |-> [i \in 0 .. QueueSize - 1 |-> 0]]
        /\ pushed = [q \in Queues |-> 0] /\ popped = [q \in Queues |-> 0]
        /\ sent = [q \in Queues |-> <<>>]
        /\ budget \in Budgets

(* Events and packets come in between the sending of packets, and an event
   that tells the outcome of a command after the answer to the command. *)
Delivered == Working /\ TransportReady /\ UNCHANGED <<cmdVars, txVars>>
Outcome == Delivered /\ asked = <<>>
Keep == UNCHANGED budget
Spend(k) == budget[k] > 0 /\ budget' = [budget EXCEPT ![k] = @ - 1]
Fault(p) == budget.faults[p] > 0 /\ budget' = [budget EXCEPT !.faults[p] = @ - 1]
Judged(p, ok) == IF ok THEN Keep ELSE Fault(p)
----------------------------------------------------------------------------
(* btproxy_sub_handler.  L2CAP_EVENT_CHANNEL_OPENED notes the channel, and asks
   for the console's second channel once the first is there; ch is chan and
   cn conn as the caller has changed them. *)
OpenedCid(c) == cid' = [cid EXCEPT ![c] = handle[c[1]]]
CallsSecond(c) == c = Ps4Ctrl /\ handle[Ps4]
WithSecond(c, ch) == IF CallsSecond(c)
  THEN [ch EXCEPT ![Ps4Intr] = InState(CreatedState(Ps4))] ELSE ch
SecondSecured(c, cn) ==
  IF CallsSecond(c) /\ CreatedState(Ps4) = "waitSecurity"
    THEN [cn EXCEPT ![Ps4].enc = "wanted"] ELSE cn

(* L2CAP_EVENT_CHANNEL_CLOSED, and HCI_EVENT_DISCONNECTION_COMPLETE, which
   also follows it for every channel of the link. *)
ClosedCidKept(c) == UNCHANGED cid          \* mutant
ClosedCid(c) == cid' = [cid EXCEPT ![c] = FALSE]
ClosedHandle(p) == [handle EXCEPT ![p] = FALSE]
Disconnected(p) == /\ handle' = ClosedHandle(p)
                   /\ cid' = [c \in Chans |-> cid[c] /\ c[1] # p]
                   /\ pending' = (pending /\ p # Ps4)

(* HCI_EVENT_CONNECTION_COMPLETE, whatever its status: a failed one is taken
   to carry handle 0. *)
PendingKept(p) == pending                  \* mutant
PendingAfter(p) == pending /\ p # Ps4
Connected(p, ok) == /\ handle' = [handle EXCEPT ![p] = ok]
                    /\ pending' = PendingAfter(p) /\ UNCHANGED cid
----------------------------------------------------------------------------
(* Links. *)
ConnectionRequest == /\ Delivered /\ conn[Ds4].st = "none" /\ LinkRequested(Ds4) /\ Keep
                     /\ UNCHANGED <<chanVars, emuVars, ringVars>>
StrangerRequest == /\ Delivered /\ decline' = TRUE /\ Fault(Ds4)
                   /\ UNCHANGED <<conn, aclSent, leaving, chanVars, emuVars, ringVars>>

ConnectionComplete(p, ok) ==
  /\ Outcome /\ conn[p].st \in {"accepted", "creating"} /\ Judged(p, ok)
  /\ IF ok THEN LinkOpened(p) /\ chan' = LinkUp(p)
           ELSE LinkFailed(p) /\ chan' = LinkDown(p)
  /\ Connected(p, ok) /\ UNCHANGED <<sigq, dangling, ringVars>>

(* READ_REMOTE_SUPPORTED_FEATURES_COMPLETE: only the first channel of the link
   is told, and only the console's CTRL channel ever waits for it. *)
FeaturesComplete(p) ==
  /\ Outcome /\ conn[p].features = "asked" /\ Keep
  /\ LET waiting == {c \in Chans : c[1] = p /\ chan[c].st = "waitFeatures"}
     IN IF waiting = {} THEN FeaturesReceived(p) /\ UNCHANGED chan
        ELSE /\ \E c \in waiting : chan' = [chan EXCEPT ![c] = InState(AfterFeatures(p))]
             /\ conn' = [conn EXCEPT ![p].features = "known",
                           ![p].enc = IF Unprotected(p) THEN "wanted" ELSE @]
             /\ UNCHANGED <<aclSent, decline, leaving>>
  /\ UNCHANGED <<sigq, dangling, emuVars, ringVars>>

(* The dongle encrypts because it was told to, or because the controller asks
   for it; either way it needs the link key first. *)
LinkKeyRequest(p) ==
  /\ Outcome /\ IsOpen(p) /\ Keep
  /\ conn[p].enc = "asked" \/ (p = Ds4 /\ conn[p].enc = "off")
  /\ Encryption(p, "keyAsked") /\ UNCHANGED <<chanVars, emuVars, ringVars>>

EncryptionChange(p, ok) ==
  /\ Outcome /\ conn[p].enc = "keyed" /\ Judged(p, ok)
  /\ Encryption(p, IF ok THEN "on" ELSE "off") /\ chan' = Secured(p)
  /\ UNCHANGED <<sigq, dangling, emuVars, ringVars>>

(* The link is closed as asked, or lost. *)
DisconnectionComplete(p) ==
  /\ Outcome /\ IsOpen(p)
  /\ IF p \in leaving THEN Keep ELSE Fault(p)
  /\ LinkGone(p) /\ chan' = Closed(p) /\ Disconnected(p)
  /\ dangling' = (dangling \/ ClosesArmed(p))
  /\ UNCHANGED <<sigq, ringVars>>

NumberOfCompletedPackets(p) ==
  /\ Delivered /\ conn[p].sent > 0 /\ PacketCompleted(p) /\ Keep
  /\ chan' = HandOut(chan, conn', aclSent')
  /\ UNCHANGED <<sigq, dangling, emuVars, ringVars>>

(* hci_connection_timeout_handler and L2CAP_EVENT_TIMEOUT_CHECK: a link no
   channel uses is closed after ten seconds without traffic. *)
IdleTimeout(p) ==
  /\ Working /\ IsOpen(p) /\ p \notin leaving /\ CanSendCommand
  /\ \A c \in Chans : c[1] = p => chan[c].st \in AwaitLink \cup {"free"}
  /\ IF p = Ps4 THEN Keep ELSE Fault(p)
  /\ SendCommand("other") /\ leaving' = leaving \cup {p}
  /\ UNCHANGED <<known, substate, btinit, conn, aclSent, decline,
                 chanVars, emuVars, ringVars>>

(* The transport is done with the packet. *)
OutDone == /\ tx /\ tx' = FALSE /\ Keep
           /\ UNCHANGED <<cmdVars, spoiled, linkVars, chanVars, emuVars, ringVars>>
----------------------------------------------------------------------------
(* Signalling. *)
ChannelOnly == UNCHANGED <<linkVars, sigq, dangling, emuVars, ringVars>>
SigOnly(r) == /\ Delivered /\ IsOpen(r[1]) /\ sigq' = Registered(r)
              /\ UNCHANGED <<linkVars, chan, dangling, emuVars, ringVars>>

(* The controller opens its channels, CTRL first, on an encrypted link; its
   request can overtake the event that tells of the encryption. *)
ChannelRequest(c) ==
  /\ Delivered /\ c[1] = Ds4 /\ IsOpen(Ds4) /\ IsFree(c) /\ Ds4 \notin leaving
  /\ c[2] = Intr => chan[<<Ds4, Ctrl>>].st = "open"
  /\ IF Encrypted(Ds4) THEN Keep ELSE Fault(Ds4)
  /\ IF Refused(Ds4) THEN SigOnly(<<Ds4, "refusal">>)
     ELSE chan' = [chan EXCEPT ![c] = InState("willAccept")] /\ ChannelOnly

(* A request for another PSM, and one that is only answered. *)
OtherRequest(p, kind) == SigOnly(<<p, kind>>) /\ Fault(p)

ConnectionResponse(c, ok) ==
  /\ Delivered /\ chan[c].st = "waitRsp" /\ Judged(c[1], ok) /\ ChannelOnly
  /\ chan' = [chan EXCEPT ![c] = IF ok THEN InConfig ELSE NoChan]

ConfigureRequest(c) ==
  /\ Delivered /\ chan[c].st = "config" /\ chan[c].rsp = "none" /\ Keep
  /\ chan' = [chan EXCEPT ![c].rsp = "send"] /\ ChannelOnly

(* Either end of the configuration may be the one that opens the channel. *)
Settled(c, x) ==
  IF ReadyForOpen(x)
    THEN /\ chan' = WithSecond(c, [chan EXCEPT ![c] = OpenChan]) /\ OpenedCid(c)
    ELSE chan' = [chan EXCEPT ![c] = x] /\ UNCHANGED cid
ConnAfter(c, x) == IF ReadyForOpen(x) THEN SecondSecured(c, conn) ELSE conn

ConfigureResponse(c, ok) ==
  /\ Delivered /\ chan[c].st = "config" /\ chan[c].req = "sent" /\ Judged(c[1], ok)
  /\ LET x == Configured(chan[c], ok)
     IN Settled(c, x) /\ conn' = ConnAfter(c, x)
  /\ UNCHANGED <<aclSent, decline, leaving, sigq, dangling, handle, pending, ringVars>>

DisconnectionRequest(c) ==
  /\ Delivered /\ chan[c].st \in {"config", "open"} /\ Fault(c[1])
  /\ chan' = [chan EXCEPT ![c].st = "willDiscRsp"] /\ ChannelOnly

(* l2cap_rtx_timeout: the channel is gone, its peer is not told. *)
RtxTimeout(c) ==
  /\ Working /\ RtxArmed(chan[c]) /\ Fault(c[1])
  /\ chan' = [chan EXCEPT ![c] = NoChan]
  /\ UNCHANGED <<cmdVars, txVars>> /\ ChannelOnly

(* l2cap_run: the next packet of one channel, or the call of the console. *)
ChannelRun(c) ==
  /\ Working /\ sigq = <<>> /\ CanSendCommand /\ CanSendAcl /\ HasPacket(c)
  /\ LET x == Served(chan[c])
     IN /\ SendAcl(c[1], ConnAfter(c, x))
        /\ IF chan[c].st = "willDiscRsp"
             THEN chan' = [chan EXCEPT ![c] = x] /\ ClosedCid(c)
             ELSE Settled(c, x)
        /\ dangling' = (dangling \/ (chan[c].st = "willDiscRsp" /\ RtxArmed(chan[c])))
  /\ UNCHANGED <<cmdVars, decline, leaving, sigq, handle, pending, ringVars, budget>>

CallPeer(c) == /\ SendCommand("other")
               /\ conn' = [conn EXCEPT ![c[1]] = [NoConn EXCEPT !.st = "creating"]]
               /\ chan' = [chan EXCEPT ![c] = InState("waitComplete")]
ChannelCreate(c) ==
  /\ Working /\ sigq = <<>> /\ CanSendCommand /\ CanSendAcl
  /\ chan[c].st = "willCreate" /\ conn[c[1]].st = "none" /\ CallPeer(c)
  /\ UNCHANGED <<known, substate, btinit, aclSent, decline, leaving, sigq, dangling,
                 emuVars, ringVars, budget>>
----------------------------------------------------------------------------
(* ds4emu_task: call the console.  The call of l2cap_run at the end answers an
   older request, or sends the command, or leaves both to the run loop. *)
Ds4Ready == handle[Ds4] /\ cid[<<Ds4, Ctrl>>] /\ cid[<<Ds4, Intr>>]
ConnectAgain == /\ ~handle[Ps4] /\ Ds4Ready           \* mutant: pending not asked
MayConnect == ~handle[Ps4] /\ Ds4Ready /\ ~pending
Connect ==
  /\ Working /\ MayConnect /\ CanSendCommand /\ pending' = TRUE
  /\ IF conn[Ps4].st = "none" /\ sigq = <<>> /\ AclSlots
       THEN /\ CallPeer(Ps4Ctrl) /\ UNCHANGED <<aclSent, sigq>>
       ELSE /\ chan' = [chan EXCEPT ![Ps4Ctrl] = InState(CreatedState(Ps4))]
            /\ IF sigq # <<>> /\ AclSlots
                 THEN /\ SendAcl(Head(sigq)[1], Blocked(Head(sigq)[1], Head(sigq)[2]))
                      /\ sigq' = Tail(sigq)
                 ELSE UNCHANGED <<conn, aclSent, txVars, sigq>>
            /\ UNCHANGED <<cmds, asked>>
  /\ UNCHANGED <<known, substate, btinit, decline, leaving, dangling, handle, cid,
                 ringVars, budget>>
----------------------------------------------------------------------------
(* ptr_ringbuffer: in and out follow from the number of operations.  Pushing
   does not ask for room; popping clears the length of the slot. *)
Count(q) == (pushed[q] - popped[q]) % CountMod
Front(q) == ring[q][popped[q] % QueueSize]
Push(q) == /\ ring' = [ring EXCEPT ![q][pushed[q] % QueueSize] = pushed[q] + 1]
           /\ pushed' = [pushed EXCEPT ![q] = @ + 1] /\ UNCHANGED <<popped, sent>>
PoppedKept(q) == ring                      \* mutant: the length stays
Popped(q) == [ring EXCEPT ![q][popped[q] % QueueSize] = 0]
Pop(q) == /\ ring' = Popped(q)
          /\ popped' = [popped EXCEPT ![q] = @ + 1] /\ UNCHANGED pushed

(* A data packet of the peer: into the queue if the other side has its channel,
   otherwise (and when reports come too fast) dropped. *)
Receive(q) ==
  /\ Delivered /\ q \in budget.flows /\ Spend("data") /\ chan[Source[q]].st = "open"
  /\ \/ cid[Dest[q]] /\ Push(q)
     \/ (~cid[Dest[q]] \/ q = "ds2psIntr") /\ UNCHANGED ringVars
  /\ UNCHANGED <<linkVars, chanVars, emuVars>>

(* ds4emu_reroute. *)
Reroute(q) ==
  /\ Working /\ Count(q) # 0
  /\ LET c == Dest[q]
     IN \/ /\ ~cid[c] \/ (chan[c].credit > 0 /\ CanSendAcl /\ Front(q) = 0)
           /\ Pop(q) /\ UNCHANGED <<txVars, conn, aclSent, chan, sent>>
        \/ /\ cid[c] /\ chan[c].credit > 0 /\ CanSendAcl /\ Front(q) # 0
           /\ Pop(q) /\ sent' = [sent EXCEPT ![q] = Append(@, Front(q))]
           /\ SendAcl(c[1], conn)
           /\ chan' = HandOut([chan EXCEPT ![c].credit = @ - 1], conn', aclSent')
  /\ UNCHANGED <<cmdVars, decline, leaving, sigq, dangling, emuVars, budget>>
----------------------------------------------------------------------------
Above == UNCHANGED <<linkVars, chanVars, emuVars, ringVars>>
StartUp == InitRun /\ Above /\ Keep
Answer == CommandAnswer /\ Above /\ Keep
SpuriousStatus == Nop /\ Above /\ Spend("nops")
Run == HciRun /\ UNCHANGED <<chanVars, emuVars, ringVars>> /\ Keep
Respond == Reply /\ UNCHANGED <<emuVars, ringVars>> /\ Keep

Loop == StartUp \/ Run \/ Respond \/ \E c \in Chans : ChannelRun(c) \/ ChannelCreate(c)
Dongle == \/ Answer \/ OutDone
          \/ \E p \in Peers : \/ \E ok \in BOOLEAN : ConnectionComplete(p, ok)
                            \/ \E ok \in BOOLEAN : EncryptionChange(p, ok)
                            \/ FeaturesComplete(p) \/ LinkKeyRequest(p)
                            \/ DisconnectionComplete(p) \/ NumberOfCompletedPackets(p)
Peer == \/ ConnectionRequest \/ StrangerRequest
        \/ \E p \in Peers, kind \in {"refusal", "other"} : OtherRequest(p, kind)
        \/ \E c \in Chans : \/ ChannelRequest(c) \/ ConfigureRequest(c)
                           \/ DisconnectionRequest(c)
                           \/ \E ok \in BOOLEAN : \/ ConnectionResponse(c, ok)
                                                 \/ ConfigureResponse(c, ok)
        \/ \E q \in Queues : Receive(q)
Timers == (\E p \in Peers : IdleTimeout(p)) \/ \E c \in Chans : RtxTimeout(c)

(* What a freed timer does when it expires is undefined: a behaviour ends
   where one is left in the run loop. *)
Next == /\ ~dangling
        /\ \/ Loop \/ Dongle \/ Peer \/ Timers \/ SpuriousStatus
           \/ Connect \/ \E q \in Queues : Reroute(q)

(* Fairness.  main() calls the loop and ds4emu_task for ever; the dongle
   carries out what it is told and the peers answer what they are asked, one
   way or the other; an idle link to the console is always noticed.  Nothing
   is assumed of what the controller, the console or the air do unasked. *)
Asked(p) == (p = Ps4 \/ conn[p].enc = "asked") /\ LinkKeyRequest(p)
Left(p) == p \in leaving /\ DisconnectionComplete(p)
DongleWork ==
  \/ Answer \/ OutDone
  \/ \E p \in Peers : \/ ConnectionComplete(p, TRUE) \/ EncryptionChange(p, TRUE)
                     \/ FeaturesComplete(p) \/ Asked(p) \/ Left(p)
                     \/ NumberOfCompletedPackets(p)
PeerWork == \E c \in Chans : \/ ConnectionResponse(c, TRUE) \/ ConfigureRequest(c)
                            \/ ConfigureResponse(c, TRUE)
Routed == \E q \in Queues : Reroute(q)
Live == ~dangling
Fairness == /\ WF_vars(Live /\ Loop) /\ WF_vars(Live /\ Connect) /\ WF_vars(Live /\ Routed)
            /\ WF_vars(Live /\ DongleWork) /\ WF_vars(Live /\ PeerWork)
            /\ WF_vars(Live /\ IdleTimeout(Ps4))

Spec == Init /\ [][Next]_vars /\ Fairness
----------------------------------------------------------------------------
(* Every variable holds a value of its C type, the queues within their size. *)
TypeOK ==
  /\ CommandTypeOK /\ LinkTypeOK /\ L2capTypeOK
  /\ handle \in [Peers -> BOOLEAN] /\ cid \in [Chans -> BOOLEAN] /\ pending \in BOOLEAN
  /\ ring \in [Queues -> [0 .. QueueSize - 1 -> Nat]]
  /\ \A q \in Queues : pushed[q] \in Nat /\ popped[q] \in 0 .. pushed[q]

HandlesAgree == \A p \in Peers : handle[p] <=> IsOpen(p)
CidsTrue == \A c \in Chans : /\ cid[c] => handle[c[1]]
                             /\ chan[c].st = "open" => cid[c]
                             /\ cid[c] => chan[c].st \in {"open", "willDiscRsp"}

(* What the emulation believes of the radio is so: bt2ds_handle and
   bt2ps_handle name a link that exists, and a channel it will send to is one
   the stack has open (or is about to close) on such a link, however links and
   channels were set up, refused, timed out and lost. *)
RadioKnown == HandlesAgree /\ CidsTrue

(* While the emulation waits for the console (EMUSTATE_PENDING_PS4_BT_CONN)
   a channel is waiting for the link, whose outcome ends the wait. *)
PendingHasCause == pending => chan[Ps4Ctrl].st \in AwaitLink

(* A packet is sent on once at most and only while it is among the newest that
   fit the queue, also after packets that came too fast have overrun it: what
   a slot held before is never sent in the place of what was lost. *)
Fresh == [][\A q \in Queues : sent'[q] # sent[q] =>
              LET n == sent'[q][Len(sent'[q])]
              IN /\ n > pushed[q] - QueueSize
                 /\ \A i \in 1 .. Len(sent[q]) : sent[q][i] # n]_vars

(* The start-up of the dongle ends. *)
InitDone == <>Working

(* Once the controller has its channels the console is called, as often as
   that takes, until both have theirs; but not once the console has one
   channel and was refused or has closed the other, nor when every ACL buffer
   was lost. *)
Bridged == cid[Ps4Ctrl] /\ cid[Ps4Intr]
HalfOpen == \E m, n \in Psms : cid[<<Ps4, m>>] /\ IsFree(<<Ps4, n>>)
Starved == Leaked = TotalAcl
Bridging == Ds4Ready ~> (Bridged \/ ~Ds4Ready \/ HalfOpen \/ Starved \/ dangling)

(* No packet stays in a queue. *)
Drained == \A q \in Queues : Count(q) # 0 ~> (Count(q) = 0 \/ Starved \/ dangling)
============================================================================
