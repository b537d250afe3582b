---------------------------- MODULE HciCommand ----------------------------
(***************************************************************************)
(* Commands to the Bluetooth dongle: the flow control and the start-up of  *)
(* btstack/src/hci.c with the project's own initialisation steps           *)
(* (btstack/btproxy.c), up to HCI_STATE_WORKING.                           *)
(*                                                                         *)
(* All of it runs in the main loop: a handler is one step.  A command goes *)
(* out in a blocking control request, so it leaves the transport free.     *)
(* While an event or ACL packet is delivered the transport refuses to send *)
(* (its own state is not idle), so the calls of hci_run and l2cap_run with *)
(* which the handlers end do nothing; the run loop repeats them.           *)
(***************************************************************************)
EXTENDS Integers, Sequences, FiniteSets

CONSTANTS CmdSlots,   \* commands the dongle can hold; it announces at most one
          LocalSsp    \* the dongle supports Secure Simple Pairing

ASSUME CommandAssumption == CmdSlots \in Nat \ {0} /\ LocalSsp \in BOOLEAN

VARIABLES cmds,       \* num_cmd_packets
          asked,      \* commands the dongle has not answered, oldest first
          known,      \* what its answers have told: address, buffers, features
          substate,   \* hci_stack->substate; Working when past the last
          btinit,     \* btproxy_init_statemachine
          tx,         \* dataOutIO holds an ACL packet to be sent
          spoiled     \* hci_packet_buffer was written while being sent

cmdVars == <<cmds, asked, known, substate, btinit>>
txVars  == <<tx, spoiled>>

Facts == {"bdaddr", "bufsize", "features"}
Kinds == Facts \cup {"reset", "scan", "other"}
LastSubstate == 29
Working == substate = LastSubstate

CommandInit == /\ cmds = 1 /\ asked = <<>> /\ known = {}
               /\ substate = 0 /\ btinit = 0
               /\ tx = FALSE /\ spoiled = FALSE

(* hci_can_send_packet_now for a command, and the transport's part of it. *)
TransportReadyAlways == TRUE               \* mutant
TransportReady == ~tx
CanSendCommand == TransportReady /\ cmds > 0

(* hci_send_cmd: the packet is built in the one buffer all packets share. *)
SendCommand(kind) == /\ cmds' = cmds - 1 /\ asked' = Append(asked, kind)
                     /\ spoiled' = (spoiled \/ tx) /\ UNCHANGED tx
----------------------------------------------------------------------------
(* hci_run while initialising, one disjunct per kind of step; an odd
   substate waits for an answer.  Step 1, the baud rate, is skipped. *)
Step(kind, from, to) == /\ substate \in from /\ substate' = to
                        /\ SendCommand(kind) /\ UNCHANGED btinit

CustomStuck(n) == n                        \* mutant
CustomSkip(n) == n + 2
(* The steps of btproxy_init_cmd: 0 to 17 send a command, but 12 only to a
   dongle with SSP; 18 sends none; an odd state waits. *)
CustomSends == btinit \div 2 \in 0 .. 17 /\ (btinit = 24 => LocalSsp)
Custom ==
  /\ substate = 10
  /\ \/ /\ btinit % 2 = 0 /\ CustomSends
        /\ btinit' = btinit + 1 /\ substate' = 9 /\ SendCommand("other")
     \/ /\ btinit % 2 = 0 /\ ~CustomSends /\ btinit \div 2 <= 18
        /\ btinit' = CustomSkip(btinit) /\ UNCHANGED <<substate, cmds, asked, txVars>>
     \/ /\ btinit \div 2 > 18
        /\ btinit' = -1 /\ substate' = 28 /\ UNCHANGED <<cmds, asked, txVars>>

InitRun == /\ CanSendCommand /\ substate % 2 = 0
           /\ \/ Step("reset", {0}, 1)
              \/ Step("bdaddr", {2, 4}, 5)
              \/ Step("bufsize", {6}, 7)
              \/ Step("features", {8}, 9)
              \/ Custom
              \/ Step("scan", {28}, LastSubstate)
           /\ UNCHANGED known

(* event_handler after a COMMAND_COMPLETE or COMMAND_STATUS: only the answer
   to the reset itself ends the wait for it. *)
AdvancedByAny(kind) == IF substate % 2 = 1 /\ ~Working THEN substate + 1 ELSE substate
                                            \* mutant: any answer ends the wait
Advanced(kind) ==
  IF substate % 2 = 1 /\ ~Working /\ (substate > 1 \/ kind = "reset")
    THEN substate + 1 ELSE substate
(* btproxy_packet_handler: the answers it recognises do not count for it. *)
BtAdvanced(kind) ==
  IF btinit > 0 /\ btinit % 2 = 1 /\ kind \in {"other", "nop"}
    THEN btinit + 1 ELSE btinit

Announced(n) == IF n < CmdSlots THEN 1 ELSE 0

(* The dongle answers its oldest command. *)
AnsweredNothing(kind) == known             \* mutant
Answered(kind) == known \cup ({kind} \cap Facts)
CommandAnswer ==
  /\ asked # <<>> /\ TransportReady
  /\ LET kind == Head(asked)
     IN /\ known' = Answered(kind)
        /\ substate' = Advanced(kind) /\ btinit' = BtAdvanced(kind)
  /\ asked' = Tail(asked) /\ cmds' = Announced(Len(asked'))
  /\ UNCHANGED txVars

(* A COMMAND_STATUS for no command ("it happens, I don't know why"). *)
Nop == /\ ~Working /\ TransportReady
       /\ substate' = Advanced("nop") /\ btinit' = BtAdvanced("nop")
       /\ cmds' = Announced(Len(asked))
       /\ UNCHANGED <<asked, known, txVars>>
----------------------------------------------------------------------------
CommandTypeOK ==
  /\ cmds \in 0 .. 1 /\ asked \in Seq(Kinds) /\ Len(asked) <= CmdSlots
  /\ known \subseteq Facts /\ substate \in 0 .. LastSubstate /\ btinit \in -1 .. 38
  /\ tx \in BOOLEAN

(* While the reset is being carried out the dongle gets no other command
   ("wait for explicit COMMAND COMPLETE on RESET", hci.c), whatever events it
   sends in between. *)
ResetAlone == (\E i \in 1 .. Len(asked) : asked[i] = "reset") => Len(asked) = 1

(* A stack that works knows its address, the dongle's buffers and its
   features: ds4emu_task stores the address with the console's key, flow
   control counts the buffers, pairing asks for the features. *)
ReadyMeansKnown == Working => known = Facts

(* hci_packet_buffer, which every command and ACL packet is built in, is not
   written while the transport is still sending from it. *)
BufferIntact == ~spoiled
=============================================================================
