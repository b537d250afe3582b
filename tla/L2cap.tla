------------------------------- MODULE L2cap -------------------------------
(***************************************************************************)
(* The HID channels of the links and the answers to signalling requests    *)
(* (btstack/src/l2cap.c): what each event does to a channel, and which     *)
(* packet l2cap_run sends next.  A channel is named by its peer and PSM:   *)
(* a peer has one channel of each.                                         *)
(***************************************************************************)
EXTENDS HciLink

CONSTANTS Psms,         \* PSM_HID_CONTROL and PSM_HID_INTERRUPT
          NrPending,    \* NR_PENDING_SIGNALING_RESPONSES
          NrBuffered    \* NR_BUFFERED_ACL_PACKETS

ASSUME L2capAssumption == {NrPending, NrBuffered} \subseteq Nat \ {0}

VARIABLES chan,         \* the l2cap_channel_t of each peer and PSM
          sigq,         \* signaling_responses: <<peer, "refusal" or "other">>
          dangling      \* a freed channel's rtx timer is still in the run loop

chanVars == <<chan, sigq, dangling>>
Chans == Peers \X Psms

(* st: L2CAP_STATE_x.  req: the request this side makes of the peer (for a
   connection, then a configuration): to be sent, sent and timed by rtx, or
   answered.  rsp: the answer to the peer's CONFIGURE_REQUEST.  credit:
   packets_granted. *)
NoChan == [st |-> "free", req |-> "none", rsp |-> "none", credit |-> 0]
InState(s) == [NoChan EXCEPT !.st = s]
InConfig == [InState("config") EXCEPT !.req = "send"]
IsFree(c) == chan[c].st = "free"
RtxArmed(x) == x.req = "sent"

L2capInit == /\ chan = [c \in Chans |-> NoChan]
             /\ sigq = <<>> /\ dangling = FALSE
----------------------------------------------------------------------------
(* l2cap_handle_remote_supported_features_received, and the security request
   it may make: an encrypted link lets the channel go on at once. *)
Unprotected(p) == LocalSsp /\ p \in Ssp /\ ~Encrypted(p)
AfterFeatures(p) == IF Unprotected(p) THEN "waitSecurity" ELSE "willRequest"

(* l2cap_create_channel_internal, up to the call of l2cap_run. *)
CreatedState(p) == IF conn[p].st = "none" THEN "willCreate"
                   ELSE IF FeaturesKnown(p) THEN AfterFeatures(p) ELSE "waitFeatures"

(* CONNECTION_COMPLETE for the channels that wait for it. *)
AwaitLink == {"willCreate", "waitComplete"}
LinkUp(p) == [c \in Chans |-> IF c[1] = p /\ chan[c].st \in AwaitLink
                                THEN InState("waitFeatures") ELSE chan[c]]
LinkDown(p) == [c \in Chans |-> IF c[1] = p /\ chan[c].st \in AwaitLink
                                  THEN NoChan ELSE chan[c]]

(* GAP_SECURITY_LEVEL: the required level of an outgoing channel is LEVEL_0, so
   whatever level was reached the channel goes on. *)
Secured(p) == [c \in Chans |-> IF c[1] = p /\ chan[c].st = "waitSecurity"
                                 THEN InState("willRequest") ELSE chan[c]]

(* DISCONNECTION_COMPLETE frees the link's channels, timers or not. *)
Closed(p) == [c \in Chans |-> IF c[1] = p /\ chan[c].st \notin AwaitLink
                                THEN NoChan ELSE chan[c]]
ClosesArmed(p) == \E c \in Chans : c[1] = p /\ RtxArmed(chan[c])
----------------------------------------------------------------------------
(* l2cap_handle_connection_request for a registered service: refused for want
   of security, or accepted by btproxy_sub_handler in the same call. *)
Refused(p) == FeaturesKnown(p) /\ Unprotected(p)

(* l2cap_register_signaling_response: dropped when there is no room. *)
Registered(r) == IF Len(sigq) < NrPending THEN Append(sigq, r) ELSE sigq

(* l2cap_run, first part: answer the oldest request.  hci_disconnect_security_
   block follows every refusal. *)
Blocked(p, kind) == IF kind = "refusal" /\ IsOpen(p)
                      THEN [conn EXCEPT ![p].block = TRUE] ELSE conn
Reply == /\ Working /\ sigq # <<>> /\ CanSendAcl
         /\ SendAcl(Head(sigq)[1], Blocked(Head(sigq)[1], Head(sigq)[2]))
         /\ sigq' = Tail(sigq)
         /\ UNCHANGED <<cmdVars, decline, leaving, chan, dangling>>

(* Second part: the channel after l2cap_run has sent what it has to send. *)
HasPacket(c) == \/ chan[c].st \in {"willRequest", "willAccept", "willDiscRsp"}
                \/ chan[c].st = "config" /\ "send" \in {chan[c].rsp, chan[c].req}
Served(x) == CASE x.st = "willRequest" -> [InState("waitRsp") EXCEPT !.req = "sent"]
               [] x.st = "willAccept"  -> InConfig
               [] x.st = "willDiscRsp" -> NoChan
               [] x.st = "config" -> IF x.rsp = "send" THEN [x EXCEPT !.rsp = "sent"]
                                     ELSE [x EXCEPT !.req = "sent"]

(* CONFIGURE_RESPONSE: a negative one makes l2cap_run ask again. *)
Configured(x, ok) == [x EXCEPT !.req = IF ok THEN "done" ELSE "send"]

(* l2cap_channel_ready_for_open, and the state and credit it leads to. *)
ReadyForOpen(x) == x.st = "config" /\ x.req = "done" /\ x.rsp = "sent"
OpenChan == [InState("open") EXCEPT !.credit = 1]

(* l2cap_hand_out_credits, once the links are cn and n packets outstanding. *)
HandedNone(ch, cn, n) == ch                \* mutant
HandOut(ch, cn, n) ==
  [c \in Chans |->
     IF /\ n # TotalAcl /\ ch[c].st = "open" /\ ch[c].credit = 0
        /\ cn[c[1]].sent < NrBuffered
       THEN [ch[c] EXCEPT !.credit = 1] ELSE ch[c]]
----------------------------------------------------------------------------
L2capTypeOK ==
  /\ chan \in [Chans ->
       [st : {"free", "willCreate", "waitComplete", "waitFeatures", "waitSecurity",
              "willRequest", "waitRsp", "willAccept", "config", "open", "willDiscRsp"},
        req : {"none", "send", "sent", "done"}, rsp : {"none", "send", "sent"},
        credit : 0 .. 1]]
  /\ sigq \in Seq(Peers \X {"refusal", "other"}) /\ Len(sigq) <= NrPending
  /\ dangling \in BOOLEAN
=============================================================================
