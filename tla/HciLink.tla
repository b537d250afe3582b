------------------------------ MODULE HciLink ------------------------------
(***************************************************************************)
(* The dongle's links to the controller and the console, and the flow      *)
(* control of ACL packets (btstack/src/hci.c).  hci_run sends at most one  *)
(* command: what it has to do for a link is kept in flags until then.      *)
(*                                                                         *)
(* The operators without a guard on Working are what a handler does to the *)
(* links; Ds4Bridge joins them with what it does to the channels and to    *)
(* the emulation.                                                          *)
(***************************************************************************)
EXTENDS HciCommand

CONSTANTS Peers,      \* the addresses btproxy_check_bdaddr accepts
          TotalAcl,   \* ACL packets the dongle can hold
          Ssp         \* peers that support Secure Simple Pairing

ASSUME LinkAssumption == TotalAcl \in Nat \ {0} /\ Ssp \subseteq Peers

VARIABLES conn,       \* the hci_connection_t of each peer
          aclSent,    \* hci_stack->num_acl_packets_sent
          decline,    \* decline_reason # 0: a stranger is to be turned away
          leaving     \* external: links the dongle was told to close

linkVars == <<conn, aclSent, decline, leaving>>

(* st: none, requested and accepted (incoming), creating (outgoing), open.
   features: BONDING_REQUEST_REMOTE_FEATURES, then asked, then received.
   enc: BONDING_SEND_ENCRYPTION_REQUEST, then the dongle has been asked, asks
   for the link key, has been given it, has encrypted the link.
   block: BONDING_DISCONNECT_SECURITY_BLOCK.  sent: num_acl_packets_sent. *)
NoConn == [st |-> "none", features |-> "no", enc |-> "off", block |-> FALSE,
           sent |-> 0]
IsOpen(p) == conn[p].st = "open"

LinkInit == /\ conn = [p \in Peers |-> NoConn]
            /\ aclSent = 0 /\ decline = FALSE /\ leaving = {}

(* hci_can_send_packet_now for an ACL packet. *)
AclSlotsAny == TRUE                        \* mutant: the dongle's buffers not counted
AclSlots == aclSent # TotalAcl
CanSendAcl == TransportReady /\ AclSlots

(* hci_send_acl_packet: c is conn as the handler has changed it so far; a
   packet for a link that is gone is dropped uncounted. *)
SendAcl(p, c) ==
  IF c[p].st = "open"
    THEN /\ conn' = [c EXCEPT ![p].sent = @ + 1] /\ aclSent' = aclSent + 1
         /\ tx' = TRUE /\ spoiled' = (spoiled \/ tx)
    ELSE conn' = c /\ UNCHANGED <<aclSent, txVars>>
----------------------------------------------------------------------------
(* What hci_run would do for link p, in its order. *)
Due(p) == [accept |-> conn[p].st = "requested", key |-> conn[p].enc = "keyAsked",
           features |-> conn[p].features = "wanted", disconnect |-> conn[p].block,
           encrypt |-> conn[p].enc = "wanted"]
Order == [accept |-> 1, key |-> 2, features |-> 3, disconnect |-> 4, encrypt |-> 5]
Tasks == DOMAIN Order
First(p, t) == Due(p)[t] /\ \A u \in Tasks : Due(p)[u] => Order[t] <= Order[u]

Done(x, t) == CASE t = "accept"     -> [x EXCEPT !.st = "accepted"]
                [] t = "key"        -> [x EXCEPT !.enc = "keyed"]
                [] t = "features"   -> [x EXCEPT !.features = "asked"]
                [] t = "disconnect" -> [x EXCEPT !.block = FALSE]
                [] t = "encrypt"    -> [x EXCEPT !.enc = "asked"]

(* hci_run when working.  The list's order is left open. *)
HciRun ==
  /\ Working /\ CanSendCommand /\ SendCommand("other")
  /\ \/ decline /\ decline' = FALSE /\ UNCHANGED <<conn, leaving>>
     \/ \E p \in Peers, t \in Tasks :
          /\ ~decline /\ First(p, t) /\ conn' = [conn EXCEPT ![p] = Done(@, t)]
          /\ leaving' = IF t = "disconnect" THEN leaving \cup {p} ELSE leaving
          /\ UNCHANGED decline
  /\ UNCHANGED <<aclSent, known, substate, btinit>>
----------------------------------------------------------------------------
(* Events, as event_handler changes the links. *)
RequestedConn(p) == [NoConn EXCEPT !.st = "requested"]

LinkRequested(p) ==
  /\ conn' = [conn EXCEPT ![p] = IF @.st = "none" THEN RequestedConn(p)
                                 ELSE [@ EXCEPT !.st = "requested"]]
  /\ UNCHANGED <<aclSent, decline, leaving>>

LinkOpened(p) ==
  /\ conn' = [conn EXCEPT ![p].st = "open", ![p].features = "wanted"]
  /\ UNCHANGED <<aclSent, decline, leaving>>

LinkFailed(p) == /\ conn' = [conn EXCEPT ![p] = NoConn]
                 /\ UNCHANGED <<aclSent, decline, leaving>>

(* hci_shutdown_connection: the packets the dongle still held for the link
   stay counted in num_acl_packets_sent. *)
LinkGone(p) == /\ conn' = [conn EXCEPT ![p] = NoConn]
               /\ leaving' = leaving \ {p} /\ UNCHANGED <<aclSent, decline>>

FeaturesKnown(p) == conn[p].features = "known"
FeaturesReceived(p) == /\ conn' = [conn EXCEPT ![p].features = "known"]
                       /\ UNCHANGED <<aclSent, decline, leaving>>

Encryption(p, e) == /\ conn' = [conn EXCEPT ![p].enc = e]
                    /\ UNCHANGED <<aclSent, decline, leaving>>

Encrypted(p) == conn[p].enc = "on"

(* NUMBER_OF_COMPLETED_PACKETS: the dongle has passed one packet on. *)
ReturnedTwice(n) == n - 2                  \* mutant
Returned(n) == n - 1
PacketCompleted(p) == /\ conn' = [conn EXCEPT ![p].sent = @ - 1]
                      /\ aclSent' = Returned(aclSent)
                      /\ UNCHANGED <<decline, leaving>>
----------------------------------------------------------------------------
SumSent == LET S[Q \in SUBSET Peers] ==
                 IF Q = {} THEN 0
                 ELSE LET p == CHOOSE p \in Q : TRUE IN conn[p].sent + S[Q \ {p}]
           IN S[Peers]
(* Packets counted as outstanding for links that no longer exist. *)
Leaked == aclSent - SumSent

LinkTypeOK ==
  conn \in [Peers ->
    [st : {"none", "requested", "accepted", "creating", "open"},
     features : {"no", "wanted", "asked", "known"},
     enc : {"off", "wanted", "asked", "keyAsked", "keyed", "on"},
     block : BOOLEAN, sent : 0 .. TotalAcl]]
  /\ aclSent \in Int /\ decline \in BOOLEAN /\ leaving \subseteq Peers

(* Flow control of ACL packets: the dongle is never sent more packets than it
   announced buffers, counted over all links, and num_acl_packets_sent never
   falls below what the links have outstanding, also when a link is lost with
   packets under way. *)
NoOverrun == SumSent <= aclSent /\ aclSent <= TotalAcl
=============================================================================
