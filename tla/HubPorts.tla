------------------------------ MODULE HubPorts ------------------------------
(***************************************************************************)
(* Hubs and the devices behind them: the hub driver's data handler         *)
(* (usbh_dev_hub.c), the life of a child device in USBH_Process and        *)
(* USBH_HandleEnum (usbh_core.c), the address table (usbh_dev_manager.c),  *)
(* and outside the code the hub's ports and the devices on the bus.        *)
(*                                                                         *)
(* The hubs themselves are enumerated and stay.  A control request of an   *)
(* enumeration is one step (ControlTransfer has its stages).  The handler  *)
(* reads a port's status in one step and acts on it in the next: whole     *)
(* blocking requests pass in between.                                      *)
(***************************************************************************)
EXTENDS Integers, FiniteSets

CONSTANTS Hubs, HubOf,      \* the hub each port belongs to
          Outer,            \* Outer[h]: the hub h is plugged into, or h itself
          MaxAddr,          \* addresses 1 .. MaxAddr (30 in the code)
          Faults,           \* what may go wrong besides orderly plugging
          MaxPlugs          \* bound: how often devices are plugged in

Ports == DOMAIN HubOf

ASSUME HubAssumption == /\ IsFiniteSet(Hubs)
                        /\ Ports \subseteq Nat /\ HubOf \in [Ports -> Hubs]
                        /\ Outer \in [Hubs -> Hubs]
                        /\ {MaxAddr, MaxPlugs} \subseteq Nat
                        /\ MaxAddr > Cardinality(Hubs)

VARIABLES conn, enabled, resetting, change,   \* the port: status and change bits
          devAddr,                            \* the address its device answers to
          child,                              \* children[pn], or NoChild
          port_busy, intIn,                   \* per hub: port_busy, intInEpIo->enabled
          todo, seen,                         \* the running data handler: ports to
                                              \* look at, port status it has read
          usedAddr,                           \* USBH_Dev_UsedAddr
          plugs, faults                       \* plugs so far, kinds of fault so far

portv == <<conn, enabled, resetting, change, devAddr>>
hubv  == <<port_busy, intIn>>
runv  == <<todo, seen>>
vars  == <<portv, child, hubv, runv, usedAddr, plugs, faults>>

NoChild == [gState |-> "none", stage |-> "none", addr |-> 0]
NewChild == [gState |-> "IDLE", stage |-> "DESC", addr |-> 0]
Nothing == [port |-> -1]
GStates == {"none", "IDLE", "RESET_PENDING", "DELAY", "ATTACHED",
            "ENUMERATION_DELAY", "ENUMERATION", "DO_TASK", "DISCONNECTED"}
HubAddr == 1 .. Cardinality(Hubs)             \* the hubs were enumerated first

Init == /\ conn = [p \in Ports |-> FALSE] /\ enabled = conn /\ resetting = conn
        /\ change = [p \in Ports |-> {}] /\ devAddr = [p \in Ports |-> 0]
        /\ child = [p \in Ports |-> NoChild]
        /\ port_busy = [h \in Hubs |-> -1] /\ intIn = [h \in Hubs |-> TRUE]
        /\ todo = [h \in Hubs |-> {}] /\ seen = [h \in Hubs |-> Nothing]
        /\ usedAddr = HubAddr /\ plugs = 0 /\ faults = {}

Fault(f) == f \in Faults /\ faults' = faults \cup {f}
----------------------------------------------------------------------------
(* The hub's ports.  A device that is plugged in or out raises the connection
   change; the end of a reset enables the port and raises the reset change,
   and the device answers to address 0. *)
PortsOf(h) == {p \in Ports : HubOf[p] = h}
Changed(h) == {p \in PortsOf(h) : change[p] # {}}
Listening(p) == conn[p] /\ enabled[p]
Answers(a) == \E p \in Ports : Listening(p) /\ devAddr[p] = a

(* Without a fault a device goes only when it is in use, or unknown to the
   driver, and its port is not being looked at; and its port is looked at
   before a device comes again. *)
Looked(p) == p \in todo[HubOf[p]] \/ seen[HubOf[p]].port = p

Plug(p) == /\ ~conn[p] /\ plugs < MaxPlugs /\ plugs' = plugs + 1
           /\ \/ change[p] = {} /\ child[p] = NoChild /\ ~Looked(p) /\ UNCHANGED faults
              \/ Fault("hasty")
           /\ conn' = [conn EXCEPT ![p] = TRUE]
           /\ change' = [change EXCEPT ![p] = @ \cup {"CONNSTAT"}]
           /\ UNCHANGED <<enabled, resetting, devAddr, child, hubv, runv, usedAddr>>

Unplug(p) == /\ conn[p]
             /\ \/ /\ child[p].gState \in {"none", "DO_TASK"} /\ ~Looked(p)
                   /\ UNCHANGED faults
                \/ Fault("hasty")
             /\ conn' = [conn EXCEPT ![p] = FALSE]
             /\ enabled' = [enabled EXCEPT ![p] = FALSE]
             /\ resetting' = [resetting EXCEPT ![p] = FALSE]
             /\ change' = [change EXCEPT ![p] = @ \cup {"CONNSTAT"}]
             /\ devAddr' = [devAddr EXCEPT ![p] = 0]
             /\ UNCHANGED <<child, hubv, runv, usedAddr, plugs>>

ResetDone(p) == /\ resetting[p]
                /\ resetting' = [resetting EXCEPT ![p] = FALSE]
                /\ enabled' = [enabled EXCEPT ![p] = TRUE]
                /\ change' = [change EXCEPT ![p] = @ \cup {"RESET"}]
                /\ devAddr' = [devAddr EXCEPT ![p] = 0]
                /\ UNCHANGED <<conn, child, hubv, runv, usedAddr, plugs, faults>>
----------------------------------------------------------------------------
(* USBH_Dev_Hub_Task polls the interrupt endpoint while it is enabled; the data
   handler walks through the ports the packet names, in order.  A hub behind
   another one is processed like any child: not while its port must wait.  A
   stale packet names a port whose change was dealt with already. *)
Scheduled(h) == Outer[h] = h \/ port_busy[Outer[h]] = -1

NoHandler == \A g \in Hubs : todo[g] = {} /\ seen[g] = Nothing

IntIn(h) == /\ intIn[h] /\ Scheduled(h) /\ NoHandler
            /\ \/ /\ Changed(h) # {} /\ todo' = [todo EXCEPT ![h] = Changed(h)]
                  /\ UNCHANGED faults
               \/ \E p \in PortsOf(h) : Fault("stale") /\ todo' = [todo EXCEPT ![h] = {p}]
            /\ UNCHANGED <<portv, child, hubv, seen, usedAddr, plugs>>

MayHandleAny(h, p) == TRUE                    \* mutant: no port has to wait
MayHandle(h, p) == port_busy[h] \in {-1, p}

(* The next port of the packet.  One that has to wait is skipped, and so is one
   whose GetPortStatus fails: their change bits stay, so they report again. *)
Lowest(S, x) == x \in S /\ \A y \in S : x <= y
NextPort(h, p) == /\ seen[h] = Nothing /\ Lowest(todo[h], p)
                  /\ todo' = [todo EXCEPT ![h] = @ \ {p}]
                  /\ UNCHANGED <<portv, child, hubv, usedAddr, plugs>>
ReadPort(h, p) == /\ NextPort(h, p) /\ MayHandle(h, p)
                  /\ seen' = [seen EXCEPT ![h] =
                       [port |-> p, conn |-> conn[p], enabled |-> enabled[p],
                        resetting |-> resetting[p], change |-> change[p]]]
                  /\ UNCHANGED faults
SkipPort(h, p) == NextPort(h, p) /\ ~MayHandle(h, p) /\ UNCHANGED <<seen, faults>>
StatusFails(h, p) == /\ NextPort(h, p) /\ MayHandle(h, p) /\ Fault("statusFails")
                     /\ UNCHANGED seen

(* What the handler does with the status it has read.  First it clears the
   change bits it saw. *)
Handling(h, p) == /\ seen[h].port = p
                  /\ seen' = [seen EXCEPT ![h] = Nothing]
                  /\ change' = [change EXCEPT ![p] = @ \ seen[h].change]
                  /\ UNCHANGED <<conn, todo, plugs>>
Unborn == {"IDLE", "RESET_PENDING"}

StillResetting(h, p) ==
  /\ Handling(h, p) /\ seen[h].resetting
  /\ child' = [child EXCEPT ![p].gState = IF @ = "IDLE" THEN "RESET_PENDING" ELSE @]
  /\ UNCHANGED <<enabled, resetting, devAddr, hubv, usedAddr, faults>>

(* The device has gone: its driver is told, USBH_DeInit frees the address. *)
Gone(h, p) == ~(seen[h].conn /\ seen[h].enabled)
              /\ child[p].gState \notin Unborn \cup {"none"}
FreedKept(a) == usedAddr                      \* mutant: the address is not freed
Freed(a) == usedAddr \ {a}
LostDevice(h, p) ==
  /\ Handling(h, p) /\ ~seen[h].resetting /\ Gone(h, p)
  /\ usedAddr' = Freed(child[p].addr)
  /\ child' = [child EXCEPT ![p] = NoChild]
  /\ UNCHANGED <<enabled, resetting, devAddr, hubv, faults>>

(* The reset is over: the child is handed to USBH_Process and the hub is not
   polled until it has been enumerated. *)
PassOn(h, p) ==
  /\ Handling(h, p) /\ ~seen[h].resetting
  /\ seen[h].conn /\ seen[h].enabled /\ child[p].gState \in Unborn
  /\ child' = [child EXCEPT ![p].gState = "DELAY", ![p].addr = 0]
  /\ port_busy' = [port_busy EXCEPT ![h] = p]
  /\ intIn' = [intIn EXCEPT ![h] = FALSE]
  /\ UNCHANGED <<enabled, resetting, devAddr, usedAddr, faults>>

(* A new device: reset its port, whether the request succeeds or not. *)
Created(p) == [child EXCEPT ![p] = NewChild]
NewDevice(h, p) ==
  /\ Handling(h, p) /\ ~seen[h].resetting /\ seen[h].conn /\ child[p] = NoChild
  /\ child' = Created(p)
  /\ port_busy' = [port_busy EXCEPT ![h] = p]
  /\ \/ /\ resetting' = [resetting EXCEPT ![p] = conn[p]]
        /\ enabled' = [enabled EXCEPT ![p] = FALSE] /\ UNCHANGED faults
     \/ Fault("resetFails") /\ UNCHANGED <<resetting, enabled>>
  /\ UNCHANGED <<devAddr, intIn, usedAddr>>

NoChange(h, p) ==
  /\ Handling(h, p) /\ ~seen[h].resetting /\ ~Gone(h, p)
  /\ seen[h].conn => /\ child[p] # NoChild
                     /\ ~(seen[h].enabled /\ child[p].gState \in Unborn)
  /\ UNCHANGED <<enabled, resetting, devAddr, child, hubv, usedAddr, faults>>

HandlePort(h, p) == \/ StillResetting(h, p) \/ LostDevice(h, p) \/ PassOn(h, p)
                    \/ NewDevice(h, p) \/ NoChange(h, p)
----------------------------------------------------------------------------
(* USBH_Process on a child, from the hub's task: not while another port is
   busy, and never inside a data handler, which is the same thread. *)
Turn(p) == /\ MayHandle(HubOf[p], p) /\ Scheduled(HubOf[p]) /\ NoHandler
           /\ UNCHANGED <<runv, plugs>>

(* The delays and callbacks before the enumeration. *)
Later == [DELAY |-> "ATTACHED", ATTACHED |-> "ENUMERATION_DELAY",
          ENUMERATION_DELAY |-> "ENUMERATION"]
Settle(p) == /\ Turn(p) /\ child[p].gState \in DOMAIN Later
             /\ child' = [child EXCEPT ![p].gState = Later[@]]
             /\ UNCHANGED <<portv, hubv, usedAddr, faults>>

Enumerating(p, stage) == /\ Turn(p) /\ child[p].gState = "ENUMERATION"
                         /\ child[p].stage = stage

(* USBH_Dev_GetAvailAddress: the lowest free address, marked as used.  Without
   one the enumeration stays where it is. *)
FreeAddrs == (1 .. MaxAddr) \ usedAddr
GetAvailAddressAny(a) == a = 1                \* mutant: the table is not looked at
GetAvailAddress(a) == Lowest(FreeAddrs, a)
GetDescriptor(p) ==
  /\ Enumerating(p, "DESC") /\ Answers(0)
  /\ \E a \in 1 .. MaxAddr :
       /\ GetAvailAddress(a)
       /\ child' = [child EXCEPT ![p].stage = "SET_ADDR", ![p].addr = a]
       /\ usedAddr' = usedAddr \cup {a}
  /\ UNCHANGED <<portv, hubv, faults>>

(* SET_ADDRESS goes to address 0: every device that listens there obeys. *)
SetAddress(p) ==
  /\ Enumerating(p, "SET_ADDR") /\ Answers(0)
  /\ devAddr' = [q \in Ports |-> IF Listening(q) /\ devAddr[q] = 0
                                 THEN child[p].addr ELSE devAddr[q]]
  /\ child' = [child EXCEPT ![p].stage = "CFG"]
  /\ UNCHANGED <<conn, enabled, resetting, change, hubv, usedAddr, faults>>

(* The rest of the enumeration, and USBH_Hub_Allow_Next. *)
AllowNextOff(h) == UNCHANGED port_busy /\ intIn' = [intIn EXCEPT ![h] = TRUE]  \* mutant
AllowNext(h) == /\ port_busy' = [port_busy EXCEPT ![h] = -1]
                /\ intIn' = [intIn EXCEPT ![h] = TRUE]
Configure(p) ==
  /\ Enumerating(p, "CFG") /\ Answers(child[p].addr)
  /\ child' = [child EXCEPT ![p].gState = "DO_TASK"]
  /\ AllowNext(HubOf[p])
  /\ UNCHANGED <<portv, usedAddr, faults>>

(* Too many failed requests (total_err): "pretending to disconnect". *)
Target(p) == IF child[p].stage = "CFG" THEN child[p].addr ELSE 0
GiveUp(p) ==
  /\ Turn(p)
  /\ \/ /\ child[p].gState = "ENUMERATION"
        /\ \/ ~Answers(Target(p)) /\ UNCHANGED faults
           \/ Fault("enumFails")
     \/ child[p].gState = "DO_TASK" /\ Fault("taskFails")
  /\ child' = [child EXCEPT ![p].gState = "DISCONNECTED"]
  /\ UNCHANGED <<portv, hubv, usedAddr>>

(* HOST_DEV_DISCONNECTED for a device that is not the root. *)
Disconnected(p) ==
  /\ Turn(p) /\ child[p].gState = "DISCONNECTED"
  /\ usedAddr' = Freed(child[p].addr)
  /\ child' = Created(p)
  /\ UNCHANGED <<portv, hubv, faults>>

Process(p) == \/ Settle(p) \/ GetDescriptor(p) \/ SetAddress(p) \/ Configure(p)
              \/ GiveUp(p) \/ Disconnected(p)

Handler(h) == IntIn(h) \/ \E p \in PortsOf(h) : SkipPort(h, p) \/ HandlePort(h, p)

Next == \/ \E p \in Ports : Plug(p) \/ Unplug(p) \/ ResetDone(p) \/ Process(p)
        \/ \E h \in Hubs : \/ Handler(h)
                           \/ \E p \in PortsOf(h) : ReadPort(h, p) \/ StatusFails(h, p)
Spec == Init /\ [][Next]_vars

(* The main loop polls every hub and processes every child whenever they may
   be; hubs finish resets, and a request for a port's status succeeds now and
   then.  Nobody has to plug anything in. *)
FairSpec == /\ Spec
            /\ \A p \in Ports : /\ WF_vars(ResetDone(p)) /\ SF_vars(Process(p))
                             /\ SF_vars(ReadPort(HubOf[p], p))
            /\ \A h \in Hubs : SF_vars(Handler(h))
----------------------------------------------------------------------------
(* Types; a child has an address exactly from SET_ADDRESS to USBH_DeInit. *)
TypeOK ==
  /\ {conn, enabled, resetting} \subseteq [Ports -> BOOLEAN]
  /\ change \in [Ports -> SUBSET {"CONNSTAT", "RESET"}]
  /\ devAddr \in [Ports -> 0 .. MaxAddr]
  /\ child \in [Ports -> [gState : GStates, addr : 0 .. MaxAddr,
                          stage : {"none", "DESC", "SET_ADDR", "CFG"}]]
  /\ \A p \in Ports : child[p].addr # 0 <=> child[p].stage \in {"SET_ADDR", "CFG"}
  /\ port_busy \in [Hubs -> Ports \cup {-1}] /\ intIn \in [Hubs -> BOOLEAN]
  /\ todo \in [Hubs -> SUBSET Ports]
  /\ seen \in [Hubs -> [port : Ports, conn : BOOLEAN, enabled : BOOLEAN,
                        resetting : BOOLEAN, change : SUBSET {"CONNSTAT", "RESET"}]
                       \cup {Nothing}]
  /\ usedAddr \subseteq 1 .. MaxAddr /\ plugs \in 0 .. MaxPlugs
  /\ faults \subseteq Faults

(* "We can only handle one new device at a time, or else they all listen to
   address 0" (usbh_dev_hub.c): among the ports of a hub, whatever fails. *)
AtZero(p) == Listening(p) /\ devAddr[p] = 0
OnePerHub == \A p, q \in Ports :
               HubOf[p] = HubOf[q] /\ AtZero(p) /\ AtZero(q) => p = q

(* The same on the whole bus. *)
OneAtZero == \A p, q \in Ports : AtZero(p) /\ AtZero(q) => p = q

(* No two devices answer to the same address, nor to the address of a hub,
   unless a running driver was given up: its address is then free while the
   device still answers to it. *)
UniqueAddress ==
  "taskFails" \notin faults => \A p \in Ports : Listening(p) /\ devAddr[p] # 0 =>
    /\ devAddr[p] \notin HubAddr
    /\ \A q \in Ports \ {p} : Listening(q) => devAddr[q] # devAddr[p]

(* An address is marked as used exactly while some child has it: none is lost,
   however a device goes. *)
AddressesBacked == usedAddr = HubAddr \cup ({child[p].addr : p \in Ports} \ {0})

(* The driver of a running child talks to the device on that child's port. *)
OwnDevice == \A p \in Ports : child[p].gState = "DO_TASK" /\ Listening(p)
                                => devAddr[p] = child[p].addr

(* While nothing goes wrong but requests for a port's status, every device that
   stays plugged in is enumerated in the end, also behind others that are
   plugged in and out meanwhile. *)
PortServed == \A p \in Ports :
  []<>(~(faults \subseteq {"statusFails"}) \/ ~conn[p] \/ child[p].gState = "DO_TASK")
=============================================================================
