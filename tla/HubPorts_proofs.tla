-------------------------- MODULE HubPorts_proofs --------------------------
(***************************************************************************)
(* One device of a hub at address 0, no address lost and, behind a single  *)
(* hub, none answered by two devices, for every number of hubs, ports,     *)
(* addresses and plug-ins and for every kind of fault.                     *)
(*                                                                         *)
(* OnePerHub is not inductive: that the busy port is the only one in reset *)
(* or at address 0 rests on what a data handler remembers of its port, and *)
(* on the stage the enumeration has reached when the port is released.     *)
(***************************************************************************)
EXTENDS HubPorts, FiniteSetTheorems, TLAPS

(* An enabled or resetting port has a device, and is not both. *)
PortInv == \A p \in Ports : /\ enabled[p] => conn[p]
                            /\ resetting[p] => conn[p] /\ ~enabled[p]

(* A device that was not passed on yet has not been asked anything. *)
ChildInv == \A p \in Ports : child[p].gState \in Unborn => child[p].stage = "DESC"

(* A port in reset is the busy one, and its child waits for the end of it. *)
ResetInv == \A p \in Ports : resetting[p] => /\ port_busy[HubOf[p]] = p
                                             /\ child[p].gState \in Unborn

(* A port at address 0 is the busy one, and the enumeration of its child, if
   any, has not set an address. *)
ZeroInv == \A p \in Ports : AtZero(p) => /\ port_busy[HubOf[p]] = p
                                         /\ child[p].stage # "CFG"

(* What a handler has read stays true enough: no other port of the hub became
   busy, and the port was not reset again. *)
SeenInv == \A h \in Hubs : seen[h] # Nothing =>
             /\ seen[h].port \in PortsOf(h)
             /\ port_busy[h] \in {-1, seen[h].port}
             /\ seen[h].enabled => ~resetting[seen[h].port]

(* Every address belongs to one child or to a hub. *)
Owned == \A p \in Ports : child[p].addr # 0 =>
           /\ child[p].addr \notin HubAddr
           /\ \A q \in Ports : child[q].addr = child[p].addr => q = p
Marked == \A a : a \in usedAddr <=>
            (a \in HubAddr \/ (a # 0 /\ \E p \in Ports : child[p].addr = a))

(* The rest is about a bus with one hub: with two, a SET_ADDRESS may reach a
   device that waits behind the other one (OneAtZero). *)
SingleHub == \A g, h \in Hubs : g = h

(* From the end of the reset until it works, or has been given up, a child's
   port is the busy one; a child that works has been given its address. *)
Pending == GStates \ (Unborn \cup {"none", "DO_TASK"})
BusyInv == \A p \in Ports :
  /\ child[p].gState = "DO_TASK" => child[p].stage = "CFG"
  /\ "taskFails" \notin faults /\ child[p].gState \in Pending => port_busy[HubOf[p]] = p

(* What a handler has seen neither enabled nor in reset is still neither. *)
StillOff == \A h \in Hubs : seen[h] # Nothing =>
  /\ seen[h].enabled => seen[h].conn
  /\ ~seen[h].enabled /\ ~seen[h].resetting =>
        ~enabled[seen[h].port] /\ ~resetting[seen[h].port]

(* A device that listens to an address was given it by its own child, or that
   child was abandoned and the port stays the busy one. *)
OwnInv == SingleHub => \A p \in Ports :
  Listening(p) /\ child[p].stage = "CFG" => devAddr[p] = child[p].addr
Abandoned(p) == /\ port_busy[HubOf[p]] = p /\ devAddr[p] \notin HubAddr
                /\ \A q \in Ports \ {p} : child[q].addr # devAddr[p]
HeldInv == SingleHub /\ "taskFails" \notin faults => \A p \in Ports :
  Listening(p) /\ devAddr[p] # 0 => child[p].stage = "CFG" \/ Abandoned(p)

Ports1 == PortInv /\ ChildInv /\ ResetInv /\ ZeroInv /\ SeenInv
Holders == BusyInv /\ StillOff /\ OwnInv /\ HeldInv
IInv == TypeOK /\ Ports1 /\ Owned /\ Marked /\ Holders

USE HubAssumption

LEMMA HubAddrs == HubAddr \subseteq 1 .. MaxAddr /\ 0 \notin HubAddr
<1>1. Cardinality(Hubs) \in Nat
  BY FS_CardinalityType
<1>2. QED
  BY <1>1 DEF HubAddr

LEMMA PortFacts == ASSUME NEW p \in Ports
                   PROVE HubOf[p] \in Hubs /\ p # -1 /\ p \in Nat /\ p \in PortsOf(HubOf[p])
BY DEF Ports, PortsOf

Children == [gState : GStates, addr : 0 .. MaxAddr,
             stage : {"none", "DESC", "SET_ADDR", "CFG"}]
ChildOK == /\ child \in [Ports -> Children]
           /\ \A p \in Ports : child[p].addr # 0 <=> child[p].stage \in {"SET_ADDR", "CFG"}

(* Every action gives at most one child a new value. *)
LEMMA ChildType ==
  ASSUME TypeOK, NEW p \in Ports, NEW c \in Children,
         c.addr # 0 <=> c.stage \in {"SET_ADDR", "CFG"}, child' = [child EXCEPT ![p] = c]
  PROVE  ChildOK'
BY DEF TypeOK, ChildOK, Children

LEMMA ChildFields ==
  ASSUME TypeOK, NEW p \in Ports
  PROVE  /\ child[p] = [gState |-> child[p].gState, addr |-> child[p].addr,
                        stage |-> child[p].stage]
         /\ child[p] \in Children
BY DEF TypeOK, Children

(* The two updates of two fields at once, as one record. *)
LEMMA StageAndAddr ==
  ASSUME child \in [Ports -> Children], NEW p \in Ports, NEW a
  PROVE  [child EXCEPT ![p].stage = "SET_ADDR", ![p].addr = a]
           = [child EXCEPT ![p] = [gState |-> child[p].gState, addr |-> a, stage |-> "SET_ADDR"]]
<1> DEFINE b == [child[p] EXCEPT !.stage = "SET_ADDR"]
<1>1. b = [gState |-> child[p].gState, addr |-> child[p].addr, stage |-> "SET_ADDR"]
  BY DEF Children
<1>2. [child EXCEPT ![p].stage = "SET_ADDR"] = [child EXCEPT ![p] = b]
  OBVIOUS
<1>3. [[child EXCEPT ![p] = b] EXCEPT ![p].addr = a] = [child EXCEPT ![p] = [b EXCEPT !.addr = a]]
  OBVIOUS
<1>4. QED
  BY <1>1, <1>2, <1>3

LEMMA StateAndAddr ==
  ASSUME child \in [Ports -> Children], NEW p \in Ports
  PROVE  [child EXCEPT ![p].gState = "DELAY", ![p].addr = 0]
           = [child EXCEPT ![p] = [gState |-> "DELAY", addr |-> 0, stage |-> child[p].stage]]
<1> DEFINE b == [child[p] EXCEPT !.gState = "DELAY"]
<1>1. b = [gState |-> "DELAY", addr |-> child[p].addr, stage |-> child[p].stage]
  BY DEF Children
<1>2. [child EXCEPT ![p].gState = "DELAY"] = [child EXCEPT ![p] = b]
  OBVIOUS
<1>3. [[child EXCEPT ![p] = b] EXCEPT ![p].addr = 0] = [child EXCEPT ![p] = [b EXCEPT !.addr = 0]]
  OBVIOUS
<1>4. QED
  BY <1>1, <1>2, <1>3

LEMMA InitInv == Init => IInv
<1> SUFFICES ASSUME Init PROVE IInv
  OBVIOUS
<1>1. TypeOK
  BY HubAddrs DEF Init, TypeOK, NoChild, GStates, Nothing
<1>2. Ports1
  BY DEF Init, Ports1, PortInv, ChildInv, ResetInv, ZeroInv, SeenInv, AtZero, Listening,
         NoChild, Nothing, Unborn
<1>3. Owned /\ Marked
  BY DEF Init, Owned, Marked, NoChild
<1>4. Holders
  BY DEF Init, Holders, BusyInv, StillOff, OwnInv, HeldInv, Listening, NoChild, Nothing, Pending
<1>5. QED
  BY <1>1, <1>2, <1>3, <1>4 DEF IInv

LEMMA TypeStep == TypeOK /\ ChildInv /\ [Next]_vars => TypeOK'
<1> SUFFICES ASSUME TypeOK, ChildInv, [Next]_vars PROVE TypeOK'
  OBVIOUS
<1> USE DEF TypeOK
<1>1. CASE UNCHANGED vars
  BY <1>1 DEF vars, portv, hubv, runv
<1>2. ASSUME NEW p \in Ports, Plug(p) PROVE TypeOK'
  BY <1>2 DEF Plug, Fault, hubv, runv
<1>3. ASSUME NEW p \in Ports, Unplug(p) PROVE TypeOK'
  BY <1>3 DEF Unplug, Fault, hubv, runv
<1>4. ASSUME NEW p \in Ports, ResetDone(p) PROVE TypeOK'
  <2>1. {conn, enabled, resetting}' \subseteq [Ports -> BOOLEAN]
    BY <1>4 DEF ResetDone
  <2>2. change' \in [Ports -> SUBSET {"CONNSTAT", "RESET"}]
    BY <1>4 DEF ResetDone
  <2>3. devAddr' \in [Ports -> 0 .. MaxAddr]
    BY <1>4 DEF ResetDone
  <2>4. QED
    BY <1>4, <2>1, <2>2, <2>3 DEF ResetDone, hubv, runv
<1>5. ASSUME NEW p \in Ports, Settle(p) PROVE TypeOK'
  BY <1>5 DEF Settle, Later, GStates, Turn, portv, hubv, runv
<1>6. ASSUME NEW p \in Ports, GetDescriptor(p) PROVE TypeOK'
  <2>1. PICK a \in 1 .. MaxAddr : /\ child' = [child EXCEPT ![p].stage = "SET_ADDR", ![p].addr = a]
                                  /\ usedAddr' = usedAddr \cup {a}
    BY <1>6 DEF GetDescriptor
  <2> DEFINE c == [gState |-> child[p].gState, addr |-> a, stage |-> "SET_ADDR"]
  <2>2. child' = [child EXCEPT ![p] = c]
    BY <2>1, StageAndAddr DEF Children
  <2>2b. c \in Children /\ c.addr # 0 /\ c.stage = "SET_ADDR"
    BY ChildFields DEF Children
  <2> HIDE DEF c
  <2>3. ChildOK'
    BY <2>2, <2>2b, ChildType
  <2>4. QED
    BY <1>6, <2>1, <2>3 DEF GetDescriptor, Enumerating, Turn, portv, hubv, runv, ChildOK, Children
<1>7. ASSUME NEW p \in Ports, SetAddress(p) PROVE TypeOK'
  BY <1>7 DEF SetAddress, Enumerating, Turn, hubv, runv
<1>8. ASSUME NEW p \in Ports, Configure(p) PROVE TypeOK'
  BY <1>8, PortFacts DEF Configure, AllowNext, GStates, Enumerating, Turn, portv, runv
<1>9. ASSUME NEW p \in Ports, GiveUp(p) PROVE TypeOK'
  BY <1>9 DEF GiveUp, Fault, GStates, Turn, portv, hubv, runv
<1>10. ASSUME NEW p \in Ports, Disconnected(p) PROVE TypeOK'
  <2>1. NewChild \in Children /\ child' = [child EXCEPT ![p] = NewChild]
    BY <1>10 DEF Disconnected, Created, NewChild, Children, GStates
  <2>2. ChildOK'
    BY <2>1, ChildType DEF NewChild
  <2>3. QED
    BY <1>10, <2>2 DEF Disconnected, Freed, Turn, portv, hubv, runv, ChildOK, Children
<1>11. ASSUME NEW h \in Hubs, IntIn(h) PROVE TypeOK'
  BY <1>11 DEF IntIn, Changed, PortsOf, Fault, portv, hubv
<1>12. ASSUME NEW h \in Hubs, NEW p \in Ports,
              SkipPort(h, p) \/ ReadPort(h, p) \/ StatusFails(h, p) PROVE TypeOK'
  <2>1. todo' \in [Hubs -> SUBSET Ports] /\ faults' \subseteq Faults
    BY <1>12 DEF SkipPort, ReadPort, StatusFails, NextPort, Fault
  <2> DEFINE read == [port |-> p, conn |-> conn[p], enabled |-> enabled[p],
                      resetting |-> resetting[p], change |-> change[p]]
             Seen == [port : Ports, conn : BOOLEAN, enabled : BOOLEAN, resetting : BOOLEAN,
                      change : SUBSET {"CONNSTAT", "RESET"}]
  <2>2. read \in Seen
    OBVIOUS
  <2>3. seen' = seen \/ seen' = [seen EXCEPT ![h] = read]
    BY <1>12 DEF SkipPort, ReadPort, StatusFails
  <2>4. seen' \in [Hubs -> Seen \cup {Nothing}]
    <3> HIDE DEF read, Seen
    <3>1. seen \in [Hubs -> Seen \cup {Nothing}]
      BY DEF Seen
    <3>2. QED
      BY <2>2, <2>3, <3>1
  <2>5. QED
    <3> HIDE DEF read
    <3>1. UNCHANGED <<portv, child, hubv, usedAddr, plugs>>
      BY <1>12 DEF SkipPort, ReadPort, StatusFails, NextPort
    <3>2. QED
      BY <2>1, <2>4, <3>1 DEF portv, hubv
<1>13. ASSUME NEW h \in Hubs, NEW p \in Ports, HandlePort(h, p) PROVE TypeOK'
  <2> USE DEF Handling
  <2>0. Handling(h, p) => /\ seen' \in [Hubs -> [port : Ports, conn : BOOLEAN, enabled : BOOLEAN,
                               resetting : BOOLEAN, change : SUBSET {"CONNSTAT", "RESET"}]
                               \cup {Nothing}]
                          /\ change' \in [Ports -> SUBSET {"CONNSTAT", "RESET"}]
    OBVIOUS
  <2>1. CASE StillResetting(h, p)
    BY <2>1, <2>0, SMTT(30) DEF StillResetting, GStates, hubv
  <2>2. CASE LostDevice(h, p)
    <3>1. NoChild \in Children /\ child' = [child EXCEPT ![p] = NoChild]
      BY <2>2 DEF LostDevice, NoChild, Children, GStates
    <3>2. ChildOK'
      BY <3>1, ChildType DEF NoChild
    <3>3. QED
      BY <2>0, <2>2, <3>2 DEF LostDevice, Freed, hubv, ChildOK, Children
  <2>3. CASE PassOn(h, p)
    <3> DEFINE c == [gState |-> "DELAY", addr |-> 0, stage |-> child[p].stage]
    <3>1. child' = [child EXCEPT ![p] = c]
      BY <2>3, StateAndAddr DEF PassOn, Children
    <3>2a. c \in Children /\ c.addr = 0 /\ c.stage = "DESC"
      BY <2>3, ChildFields DEF Children, GStates, PassOn, ChildInv
    <3> HIDE DEF c
    <3>2. ChildOK'
      BY <3>1, <3>2a, ChildType
    <3>3. QED
      BY <2>0, <2>3, <3>2 DEF PassOn, ChildOK, Children
  <2>4. CASE NewDevice(h, p)
    <3>1. NewChild \in Children /\ child' = [child EXCEPT ![p] = NewChild]
      BY <2>4 DEF NewDevice, Created, NewChild, Children, GStates
    <3>2. ChildOK'
      BY <3>1, ChildType DEF NewChild
    <3>3. QED
      <4>1. /\ port_busy' \in [Hubs -> Ports \cup {-1}] /\ faults' \subseteq Faults
            /\ {conn, enabled, resetting}' \subseteq [Ports -> BOOLEAN]
        <5>1. port_busy' = [port_busy EXCEPT ![h] = p] /\ conn' = conn
          BY <2>4 DEF NewDevice
        <5>2. faults' \subseteq Faults
          BY <2>4 DEF NewDevice, Fault
        <5>3. /\ resetting' \in {resetting, [resetting EXCEPT ![p] = conn[p]]}
              /\ enabled' \in {enabled, [enabled EXCEPT ![p] = FALSE]}
          BY <2>4 DEF NewDevice
        <5>4. conn[p] \in BOOLEAN /\ resetting \in [Ports -> BOOLEAN] /\ enabled \in [Ports -> BOOLEAN]
          OBVIOUS
        <5>5. resetting' \in [Ports -> BOOLEAN] /\ enabled' \in [Ports -> BOOLEAN]
          BY ONLY <5>3, <5>4
        <5>6. QED
          BY <5>1, <5>2, <5>5
      <4>2. UNCHANGED <<devAddr, intIn, usedAddr, todo, plugs>> /\ Handling(h, p)
        BY <2>4 DEF NewDevice
      <4>3. QED
        BY <2>0, <4>1, <4>2, <3>2 DEF ChildOK, Children
  <2>5. CASE NoChange(h, p)
    BY <2>5 DEF NoChange, hubv
  <2>6. QED
    BY <1>13, <2>1, <2>2, <2>3, <2>4, <2>5 DEF HandlePort
<1>14. QED
  BY <1>1, <1>2, <1>3, <1>4, <1>5, <1>6, <1>7, <1>8, <1>9, <1>10, <1>11, <1>12, <1>13
  DEF Next, Process, Handler, PortsOf

(* The functions the invariant speaks about are functions. *)
LEMMA Funs == TypeOK =>
  /\ conn \in [Ports -> BOOLEAN] /\ enabled \in [Ports -> BOOLEAN]
  /\ resetting \in [Ports -> BOOLEAN] /\ devAddr \in [Ports -> 0 .. MaxAddr]
  /\ child \in [Ports -> Children] /\ port_busy \in [Hubs -> Ports \cup {-1}]
  /\ DOMAIN seen = Hubs
BY DEF TypeOK, Children

LEMMA PortsStep == TypeOK /\ Ports1 /\ [Next]_vars => Ports1'
<1> SUFFICES ASSUME TypeOK, Ports1, [Next]_vars PROVE Ports1'
  OBVIOUS
<1> USE PortFacts, Funs DEF Ports1, PortInv, ChildInv, ResetInv, ZeroInv, SeenInv, AtZero, Listening
<1>1. CASE UNCHANGED vars
  BY <1>1 DEF vars, portv, hubv, runv
<1>2. ASSUME NEW p \in Ports, Plug(p) PROVE Ports1'
  BY <1>2, SMTT(30) DEF Plug, hubv, runv
<1>3. ASSUME NEW p \in Ports, Unplug(p) PROVE Ports1'
  <2>1. /\ \A q \in Ports \ {p} : /\ conn'[q] = conn[q] /\ enabled'[q] = enabled[q]
                                  /\ resetting'[q] = resetting[q] /\ devAddr'[q] = devAddr[q]
        /\ ~conn'[p] /\ ~enabled'[p] /\ ~resetting'[p]
    BY <1>3 DEF Unplug
  <2>2. UNCHANGED <<child, port_busy, seen>>
    BY <1>3 DEF Unplug, hubv, runv
  <2>3. PortInv' /\ ChildInv'
    BY <2>1, <2>2
  <2>4. ResetInv' /\ ZeroInv'
    BY <2>1, <2>2
  <2>5. SeenInv'
    BY <2>1, <2>2 DEF PortsOf
  <2>6. QED
    BY <2>3, <2>4, <2>5
<1>4. ASSUME NEW p \in Ports, ResetDone(p) PROVE Ports1'
  <2>1. /\ \A q \in Ports \ {p} : enabled'[q] = enabled[q] /\ resetting'[q] = resetting[q]
                                  /\ devAddr'[q] = devAddr[q]
        /\ enabled'[p] /\ ~resetting'[p] /\ resetting[p]
    BY <1>4 DEF ResetDone
  <2>2. UNCHANGED <<conn, child, port_busy, seen>>
    BY <1>4 DEF ResetDone, hubv, runv
  <2>3. PortInv' /\ ChildInv'
    BY <2>1, <2>2
  <2>4. ResetInv' /\ ZeroInv'
    BY <2>1, <2>2 DEF Unborn
  <2>5. SeenInv'
    BY <2>1, <2>2 DEF PortsOf
  <2>6. QED
    BY <2>3, <2>4, <2>5
<1>5. ASSUME NEW p \in Ports, Settle(p) PROVE Ports1'
  BY <1>5 DEF Settle, Later, Unborn, Turn, portv, hubv, runv
<1>6. ASSUME NEW p \in Ports, GetDescriptor(p) PROVE Ports1'
  BY <1>6 DEF GetDescriptor, Enumerating, Unborn, Turn, portv, hubv, runv
<1>7. ASSUME NEW p \in Ports, SetAddress(p) PROVE Ports1'
  <2>1. child[p].addr # 0
    BY <1>7 DEF SetAddress, Enumerating, TypeOK
  <2>2. \A q \in Ports : ~AtZero(q)'
    BY <1>7, <2>1 DEF SetAddress
  <2>3. \A q \in Ports : child'[q].gState = child[q].gState
    BY <1>7 DEF SetAddress
  <2>4. child[p].gState \notin Unborn
    BY <1>7 DEF SetAddress, Enumerating, Unborn
  <2>5. \A q \in Ports \ {p} : child'[q] = child[q]
    BY <1>7 DEF SetAddress
  <2>6. UNCHANGED <<conn, enabled, resetting, port_busy, seen>>
    BY <1>7 DEF SetAddress, Enumerating, Turn, hubv, runv
  <2>7. QED
    BY <2>2, <2>3, <2>4, <2>5, <2>6
<1>8. ASSUME NEW p \in Ports, Configure(p) PROVE Ports1'
  BY <1>8 DEF Configure, AllowNext, MayHandle, NoHandler, Unborn, Enumerating, Turn, portv, runv
<1>9. ASSUME NEW p \in Ports, GiveUp(p) PROVE Ports1'
  BY <1>9 DEF GiveUp, Unborn, Turn, portv, hubv, runv
<1>10. ASSUME NEW p \in Ports, Disconnected(p) PROVE Ports1'
  BY <1>10 DEF Disconnected, Created, NewChild, Unborn, Turn, portv, hubv, runv
<1>11. ASSUME NEW h \in Hubs, IntIn(h) PROVE Ports1'
  BY <1>11 DEF IntIn, portv, hubv
<1>12. ASSUME NEW h \in Hubs, NEW p \in PortsOf(h),
              SkipPort(h, p) \/ ReadPort(h, p) \/ StatusFails(h, p) PROVE Ports1'
  BY <1>12 DEF SkipPort, ReadPort, StatusFails, NextPort, MayHandle, PortsOf, portv, hubv
<1>13. ASSUME NEW h \in Hubs, NEW p \in PortsOf(h), HandlePort(h, p) PROVE Ports1'
  <2> USE DEF Handling, PortsOf
  <2>1. CASE StillResetting(h, p)
    BY <2>1 DEF StillResetting, Unborn, hubv
  <2>2. CASE LostDevice(h, p)
    BY <2>2 DEF LostDevice, Gone, Unborn, NoChild, hubv
  <2>3. CASE PassOn(h, p)
    <3>1. /\ seen[h] # Nothing /\ seen[h].port = p /\ seen[h].enabled
          /\ child[p].gState \in Unborn
      BY <2>3 DEF PassOn, Nothing
    <3>2. ~resetting[p] /\ port_busy[h] \in {-1, p}
      BY <3>1
    <3>3. \A q \in PortsOf(h) \ {p} : ~resetting[q] /\ ~AtZero(q)
      BY <3>2
    <3>4. /\ \A q \in Ports \ {p} : child'[q] = child[q]
          /\ child'[p].stage = child[p].stage /\ child'[p].gState = "DELAY"
      BY <2>3 DEF PassOn, Children
    <3>5. /\ \A g \in Hubs \ {h} : seen'[g] = seen[g] /\ port_busy'[g] = port_busy[g]
          /\ port_busy'[h] = p /\ seen'[h] = Nothing
      BY <2>3 DEF PassOn
    <3>6. UNCHANGED <<conn, enabled, resetting, devAddr>>
      BY <2>3 DEF PassOn
    <3>7. QED
      BY <3>1, <3>2, <3>3, <3>4, <3>5, <3>6 DEF Unborn
  <2>4. CASE NewDevice(h, p)
    <3>1. seen[h] # Nothing /\ seen[h].port = p
      BY <2>4 DEF NewDevice, Nothing
    <3>2. port_busy[h] \in {-1, p}
      BY <3>1
    <3>3. \A q \in PortsOf(h) \ {p} : ~resetting[q] /\ ~AtZero(q)
      BY <3>2
    <3>4. /\ \A q \in Ports \ {p} : child'[q] = child[q]
          /\ child'[p].stage = "DESC" /\ child'[p].gState = "IDLE"
      BY <2>4 DEF NewDevice, Created, NewChild
    <3>5. /\ \A g \in Hubs \ {h} : seen'[g] = seen[g] /\ port_busy'[g] = port_busy[g]
          /\ port_busy'[h] = p /\ seen'[h] = Nothing
      BY <2>4 DEF NewDevice
    <3>6. /\ UNCHANGED <<conn, devAddr>>
          /\ \A q \in Ports \ {p} : enabled'[q] = enabled[q] /\ resetting'[q] = resetting[q]
      BY <2>4 DEF NewDevice
    <3>7. \/ (resetting'[p] <=> conn[p]) /\ ~enabled'[p]
          \/ (resetting'[p] <=> resetting[p]) /\ (enabled'[p] <=> enabled[p])
      BY <2>4 DEF NewDevice
    <3>8. QED
      <4>1. PortInv' /\ ChildInv'
        BY <3>4, <3>6, <3>7 DEF Unborn
      <4>2. ResetInv'
        BY <3>2, <3>3, <3>4, <3>5, <3>6 DEF Unborn
      <4>3. ZeroInv'
        BY <3>3, <3>4, <3>5, <3>6
      <4>4. SeenInv'
        <5>1. \A g \in Hubs \ {h} : seen[g] # Nothing => seen[g].port \in Ports \ {p}
          OBVIOUS
        <5>2. SUFFICES ASSUME NEW g \in Hubs, seen'[g] # Nothing
                       PROVE  /\ seen'[g].port \in PortsOf(g)
                              /\ port_busy'[g] \in {-1, seen'[g].port}
                              /\ seen'[g].enabled => ~resetting'[seen'[g].port]
          BY DEF Nothing
        <5>3. g # h /\ seen'[g] = seen[g] /\ port_busy'[g] = port_busy[g]
          BY <3>5, <5>2
        <5>4. QED
          BY <5>1, <5>2, <5>3, <3>6
      <4>5. QED
        BY <4>1, <4>2, <4>3, <4>4
  <2>5. CASE NoChange(h, p)
    BY <2>5 DEF NoChange, hubv
  <2>6. QED
    BY <1>13, <2>1, <2>2, <2>3, <2>4, <2>5 DEF HandlePort
<1>14. QED
  BY <1>1, <1>2, <1>3, <1>4, <1>5, <1>6, <1>7, <1>8, <1>9, <1>10, <1>11, <1>12, <1>13
  DEF Next, Process, Handler

(* The table after a step that changes no address, gives p a free one, or
   takes the one of p away. *)
LEMMA SameAddrs ==
  ASSUME Owned, Marked, usedAddr' = usedAddr, \A q \in Ports : child'[q].addr = child[q].addr
  PROVE  Owned' /\ Marked'
BY DEF Owned, Marked

LEMMA OneMore ==
  ASSUME Owned, Marked, NEW p \in Ports, NEW a \in FreeAddrs, child[p].addr = 0,
         usedAddr' = usedAddr \cup {a}, child'[p].addr = a,
         \A q \in Ports \ {p} : child'[q].addr = child[q].addr
  PROVE  Owned' /\ Marked'
<1>1. a # 0 /\ a \notin HubAddr /\ \A q \in Ports : child[q].addr # a
  BY DEF FreeAddrs, Marked
<1>2. Owned'
  BY <1>1 DEF Owned
<1>3. Marked'
  BY <1>1 DEF Marked
<1>4. QED
  BY <1>2, <1>3

LEMMA OneLess ==
  ASSUME Owned, Marked, NEW p \in Ports, usedAddr' = Freed(child[p].addr), child'[p].addr = 0,
         \A q \in Ports \ {p} : child'[q].addr = child[q].addr
  PROVE  Owned' /\ Marked'
<1>1. Owned'
  BY DEF Owned
<1>2. child[p].addr # 0 => /\ child[p].addr \notin HubAddr
                           /\ \A q \in Ports \ {p} : child[q].addr # child[p].addr
  BY DEF Owned
<1>3. Marked'
  BY <1>2, HubAddrs DEF Marked, Freed
<1>4. QED
  BY <1>1, <1>3

LEMMA AddrStep == TypeOK /\ ChildInv /\ Owned /\ Marked /\ [Next]_vars => Owned' /\ Marked'
<1> SUFFICES ASSUME TypeOK, ChildInv, Owned, Marked, [Next]_vars PROVE Owned' /\ Marked'
  OBVIOUS
<1> USE Funs, SameAddrs
<1>0. child \in [Ports -> Children]
  OBVIOUS
<1>1. CASE UNCHANGED vars
  BY <1>1 DEF vars
<1>2. ASSUME NEW p \in Ports, Plug(p) \/ Unplug(p) \/ ResetDone(p) PROVE Owned' /\ Marked'
  BY <1>2 DEF Plug, Unplug, ResetDone
<1>3. ASSUME NEW p \in Ports, Settle(p) \/ SetAddress(p) \/ Configure(p) \/ GiveUp(p)
      PROVE Owned' /\ Marked'
  <2>1. \A q \in Ports : child'[q].addr = child[q].addr
    <3>1. CASE Settle(p)
      BY <3>1, <1>0 DEF Settle, Children
    <3>2. CASE SetAddress(p)
      BY <3>2, <1>0 DEF SetAddress, Children
    <3>3. CASE Configure(p)
      BY <3>3, <1>0 DEF Configure, Children
    <3>4. CASE GiveUp(p)
      BY <3>4, <1>0 DEF GiveUp, Children
    <3>5. QED
      BY <1>3, <3>1, <3>2, <3>3, <3>4
  <2>2. usedAddr' = usedAddr
    BY <1>3 DEF Settle, SetAddress, Configure, GiveUp
  <2>3. QED
    BY <2>1, <2>2
<1>4. ASSUME NEW p \in Ports, GetDescriptor(p) PROVE Owned' /\ Marked'
  <2>1. PICK a \in FreeAddrs : /\ child' = [child EXCEPT ![p].stage = "SET_ADDR", ![p].addr = a]
                               /\ usedAddr' = usedAddr \cup {a}
    BY <1>4 DEF GetDescriptor, GetAvailAddress, Lowest
  <2>2. child[p].addr = 0
    BY <1>4 DEF GetDescriptor, Enumerating, TypeOK
  <2>3. child' = [child EXCEPT ![p] = [gState |-> child[p].gState, addr |-> a, stage |-> "SET_ADDR"]]
    BY <2>1, <1>0, StageAndAddr
  <2>4. child'[p].addr = a /\ \A q \in Ports \ {p} : child'[q].addr = child[q].addr
    BY <2>3
  <2>5. QED
    BY <2>1, <2>2, <2>4, OneMore
<1>5. ASSUME NEW p \in Ports, Disconnected(p) PROVE Owned' /\ Marked'
  <2>1. /\ usedAddr' = Freed(child[p].addr) /\ child'[p].addr = 0
        /\ \A q \in Ports \ {p} : child'[q].addr = child[q].addr
    BY <1>5, <1>0 DEF Disconnected, Created, NewChild
  <2>2. QED
    BY <2>1, OneLess
<1>6. ASSUME NEW h \in Hubs, IntIn(h) PROVE Owned' /\ Marked'
  BY <1>6 DEF IntIn
<1>7. ASSUME NEW h \in Hubs, NEW p \in Ports,
             SkipPort(h, p) \/ ReadPort(h, p) \/ StatusFails(h, p) PROVE Owned' /\ Marked'
  BY <1>7 DEF SkipPort, ReadPort, StatusFails, NextPort
<1>8. ASSUME NEW h \in Hubs, NEW p \in Ports, HandlePort(h, p) PROVE Owned' /\ Marked'
  <2>1. CASE StillResetting(h, p) \/ NoChange(h, p)
    BY <2>1, <1>0 DEF StillResetting, NoChange, Children
  <2>2. CASE LostDevice(h, p)
    <3>1. /\ usedAddr' = Freed(child[p].addr) /\ child'[p].addr = 0
          /\ \A q \in Ports \ {p} : child'[q].addr = child[q].addr
      BY <2>2, <1>0 DEF LostDevice, NoChild
    <3>2. QED
      BY <3>1, OneLess
  <2>3. CASE PassOn(h, p)
    <3>1. child' = [child EXCEPT ![p] = [gState |-> "DELAY", addr |-> 0, stage |-> child[p].stage]]
      BY <2>3, <1>0, StateAndAddr DEF PassOn
    <3>2. child[p].addr = 0
      BY <2>3 DEF PassOn, ChildInv, TypeOK
    <3>3. QED
      BY <3>1, <3>2, <2>3 DEF PassOn
  <2>4. CASE NewDevice(h, p)
    <3>1. child[p].addr = 0
      BY <2>4 DEF NewDevice, NoChild
    <3>2. QED
      BY <3>1, <2>4, <1>0 DEF NewDevice, Created, NewChild
  <2>5. QED
    BY <1>8, <2>1, <2>2, <2>3, <2>4 DEF HandlePort
<1>9. QED
  BY <1>1, <1>2, <1>3, <1>4, <1>5, <1>6, <1>7, <1>8 DEF Next, Process, Handler, PortsOf
----------------------------------------------------------------------------
(* A device's address and its child's. *)
LEMMA BusyStep == TypeOK /\ Ports1 /\ BusyInv /\ [Next]_vars => BusyInv'
<1> SUFFICES ASSUME TypeOK, Ports1, BusyInv, [Next]_vars PROVE BusyInv'
  OBVIOUS
<1> USE PortFacts, Funs DEF BusyInv
<1>0. /\ "IDLE" \notin Pending /\ "RESET_PENDING" \notin Pending /\ "none" \notin Pending
      /\ "DO_TASK" \notin Pending
      /\ child \in [Ports -> Children]
  BY DEF Pending, Unborn
<1>1. ASSUME \A q \in Ports : /\ child'[q].gState = child[q].gState
                              /\ child[q].gState = "DO_TASK" => child'[q].stage = child[q].stage,
             port_busy' = port_busy, faults \subseteq faults'
      PROVE  BusyInv'
  BY <1>1
<1>2. CASE UNCHANGED vars
  BY <1>1, <1>2 DEF vars, hubv
<1>3. ASSUME NEW p \in Ports, Plug(p) \/ Unplug(p) \/ ResetDone(p) PROVE BusyInv'
  BY <1>1, <1>3 DEF Plug, Unplug, ResetDone, Fault, hubv
<1>4. ASSUME NEW p \in Ports, Settle(p) PROVE BusyInv'
  <2>1. child[p].gState \in Pending /\ child'[p].gState \notin {"DO_TASK"}
    BY <1>4, <1>0 DEF Settle, Later, Pending, GStates, Unborn, Children
  <2>2. /\ UNCHANGED <<port_busy, faults>>
        /\ \A q \in Ports \ {p} : child'[q] = child[q]
    BY <1>4, <1>0 DEF Settle, hubv
  <2>3. "taskFails" \notin faults => port_busy[HubOf[p]] = p
    BY <2>1
  <2>4. QED
    BY <2>1, <2>2, <2>3
<1>5. ASSUME NEW p \in Ports, GetDescriptor(p) PROVE BusyInv'
  <2>1. child[p].gState # "DO_TASK"
    BY <1>5 DEF GetDescriptor, Enumerating
  <2>2. \A q \in Ports : /\ child'[q].gState = child[q].gState
                         /\ q # p => child'[q].stage = child[q].stage
    BY <1>5, <1>0 DEF GetDescriptor, Children
  <2>3. QED
    BY <1>1, <1>5, <2>1, <2>2 DEF GetDescriptor, hubv
<1>6. ASSUME NEW p \in Ports, SetAddress(p) PROVE BusyInv'
  <2>1. child[p].gState # "DO_TASK"
    BY <1>6 DEF SetAddress, Enumerating
  <2>2. \A q \in Ports : /\ child'[q].gState = child[q].gState
                         /\ q # p => child'[q].stage = child[q].stage
    BY <1>6, <1>0 DEF SetAddress, Children
  <2>3. QED
    BY <1>1, <1>6, <2>1, <2>2 DEF SetAddress, hubv
<1>7. ASSUME NEW p \in Ports, Configure(p) PROVE BusyInv'
  <2>1. /\ child'[p].gState = "DO_TASK" /\ child'[p].stage = "CFG"
        /\ \A q \in Ports \ {p} : child'[q] = child[q]
        /\ faults' = faults /\ port_busy' = [port_busy EXCEPT ![HubOf[p]] = -1]
    BY <1>7, <1>0 DEF Configure, Enumerating, AllowNext, Children
  <2>2. port_busy[HubOf[p]] \in {-1, p}
    BY <1>7 DEF Configure, Enumerating, Turn, MayHandle
  <2>3. \A q \in Ports \ {p} : "taskFails" \notin faults /\ child[q].gState \in Pending =>
          port_busy[HubOf[q]] = q /\ HubOf[q] # HubOf[p]
    BY <2>2
  <2>4. port_busy \in [Hubs -> Ports \cup {-1}]
    OBVIOUS
  <2>5. \A g \in Hubs : g # HubOf[p] => port_busy'[g] = port_busy[g]
    BY <2>1
  <2>6. QED
    BY <1>0, <2>1, <2>3, <2>5
<1>8. ASSUME NEW p \in Ports, GiveUp(p) PROVE BusyInv'
  <2>1. /\ child'[p].gState = "DISCONNECTED"
        /\ \A q \in Ports \ {p} : child'[q] = child[q]
        /\ port_busy' = port_busy /\ faults \subseteq faults'
    BY <1>8, <1>0 DEF GiveUp, Fault, hubv, Children
  <2>2. child[p].gState \in Pending \/ "taskFails" \in faults'
    BY <1>8 DEF GiveUp, Fault, Pending, GStates, Unborn
  <2>3. QED
    BY <2>1, <2>2
<1>9. ASSUME NEW p \in Ports, Disconnected(p) PROVE BusyInv'
  <2>1. /\ child'[p].gState = "IDLE" /\ UNCHANGED <<port_busy, faults>>
        /\ \A q \in Ports \ {p} : child'[q] = child[q]
    BY <1>9, <1>0 DEF Disconnected, Created, NewChild, hubv
  <2>2. QED
    BY <1>0, <2>1
<1>10. ASSUME NEW h \in Hubs, IntIn(h) PROVE BusyInv'
  BY <1>1, <1>10 DEF IntIn, Fault, hubv
<1>11. ASSUME NEW h \in Hubs, NEW p \in PortsOf(h),
              SkipPort(h, p) \/ ReadPort(h, p) \/ StatusFails(h, p) PROVE BusyInv'
  BY <1>1, <1>11 DEF SkipPort, ReadPort, StatusFails, NextPort, Fault, hubv
<1>12. ASSUME NEW h \in Hubs, NEW p \in PortsOf(h), HandlePort(h, p) PROVE BusyInv'
  <2>0. /\ port_busy[h] \in {-1, p} /\ HubOf[p] = h /\ p \in Ports
        /\ seen[h] # Nothing
    BY <1>12 DEF HandlePort, StillResetting, LostDevice, PassOn, NewDevice, NoChange, Handling,
                 Ports1, SeenInv, PortsOf, Nothing
  <2>1. CASE StillResetting(h, p)
    BY <1>0, <2>0, <2>1 DEF StillResetting, hubv
  <2>2. CASE LostDevice(h, p)
    BY <1>0, <2>0, <2>2 DEF LostDevice, NoChild, hubv
  <2>3. CASE PassOn(h, p)
    <3>1. /\ child'[p].gState = "DELAY" /\ \A q \in Ports \ {p} : child'[q] = child[q]
          /\ port_busy' = [port_busy EXCEPT ![h] = p] /\ faults' = faults
      BY <1>0, <2>0, <2>3 DEF PassOn, Children
    <3>2. QED
      BY <2>0, <3>1
  <2>4. CASE NewDevice(h, p)
    <3>1. /\ child'[p].gState = "IDLE" /\ \A q \in Ports \ {p} : child'[q] = child[q]
          /\ port_busy' = [port_busy EXCEPT ![h] = p] /\ faults \subseteq faults'
      BY <1>0, <2>0, <2>4 DEF NewDevice, Created, NewChild, Fault
    <3>2. QED
      BY <1>0, <2>0, <3>1
  <2>5. CASE NoChange(h, p)
    BY <1>1, <2>5 DEF NoChange, hubv
  <2>6. QED
    BY <1>12, <2>1, <2>2, <2>3, <2>4, <2>5 DEF HandlePort
<1>13. QED
  BY <1>2, <1>3, <1>4, <1>5, <1>6, <1>7, <1>8, <1>9, <1>10, <1>11, <1>12
  DEF Next, Process, Handler

LEMMA OffStep == TypeOK /\ Ports1 /\ StillOff /\ [Next]_vars => StillOff'
<1> SUFFICES ASSUME TypeOK, Ports1, StillOff, [Next]_vars PROVE StillOff'
  OBVIOUS
<1> USE PortFacts, Funs DEF StillOff
<1>1. ASSUME seen' = seen, \A q \in Ports : /\ enabled'[q] => (enabled[q] \/ resetting[q])
                                            /\ resetting'[q] => resetting[q]
      PROVE  StillOff'
  <2>1. \A g \in Hubs : seen[g] # Nothing => seen[g].port \in Ports
    BY DEF Ports1, SeenInv, PortsOf
  <2>2. SUFFICES ASSUME NEW g \in Hubs, seen[g] # Nothing
                 PROVE  /\ seen[g].enabled => seen[g].conn
                        /\ ~seen[g].enabled /\ ~seen[g].resetting =>
                              ~enabled'[seen[g].port] /\ ~resetting'[seen[g].port]
    BY <1>1 DEF Nothing
  <2>3. QED
    BY <1>1, <2>1, <2>2
<1>2. CASE UNCHANGED vars
  BY <1>1, <1>2 DEF vars, portv, runv
<1>3. ASSUME NEW p \in Ports, Plug(p) \/ Unplug(p) \/ ResetDone(p) \/ Process(p) PROVE StillOff'
  BY <1>1, <1>3 DEF Plug, Unplug, ResetDone, Process, Settle, GetDescriptor, SetAddress, Configure,
                    GiveUp, Disconnected, Enumerating, Turn, runv, portv
<1>4. ASSUME NEW h \in Hubs, IntIn(h) PROVE StillOff'
  BY <1>1, <1>4 DEF IntIn, portv
<1>5. ASSUME NEW h \in Hubs, NEW p \in PortsOf(h), SkipPort(h, p) \/ StatusFails(h, p)
      PROVE StillOff'
  BY <1>1, <1>5 DEF SkipPort, StatusFails, NextPort, portv
<1>6. ASSUME NEW h \in Hubs, NEW p \in PortsOf(h), ReadPort(h, p) PROVE StillOff'
  BY <1>6 DEF ReadPort, NextPort, portv, Ports1, PortInv, PortsOf
<1>7. ASSUME NEW h \in Hubs, NEW p \in PortsOf(h), HandlePort(h, p) PROVE StillOff'
  <2>1. /\ seen[h].port = p /\ seen' = [seen EXCEPT ![h] = Nothing] /\ p \in Ports /\ HubOf[p] = h
    BY <1>7 DEF HandlePort, StillResetting, LostDevice, PassOn, NewDevice, NoChange, Handling, PortsOf
  <2>2. \A q \in Ports \ {p} : enabled'[q] = enabled[q] /\ resetting'[q] = resetting[q]
    BY <1>7, <2>1 DEF HandlePort, StillResetting, LostDevice, PassOn, NewDevice, NoChange
  <2>3. \A g \in Hubs \ {h} : seen[g] # Nothing => seen[g].port \in Ports \ {p}
    BY <2>1 DEF Ports1, SeenInv, PortsOf
  <2>4. QED
    BY <2>1, <2>2, <2>3
<1>8. QED
  BY <1>2, <1>3, <1>4, <1>5, <1>6, <1>7 DEF Next, Handler

(* Without an address given or taken away nothing else has to be shown. *)
LEMMA SameOwners ==
  ASSUME OwnInv, HeldInv, faults \subseteq faults',
         \A h \in Hubs : port_busy'[h] = port_busy[h] \/ \A q \in PortsOf(h) : port_busy[h] # q,
         \A q \in Ports : /\ Listening(q)' => Listening(q) /\ devAddr'[q] = devAddr[q]
                          /\ Listening(q)' => child'[q].stage = child[q].stage
                          /\ child'[q].addr = child[q].addr
  PROVE  OwnInv' /\ HeldInv'
<1>1. OwnInv'
  BY DEF OwnInv, SingleHub
<1>2. ASSUME NEW q \in Ports, Abandoned(q), Listening(q)' PROVE Abandoned(q)'
  BY <1>2, PortFacts DEF Abandoned, HubAddr
<1>3. HeldInv'
  BY <1>2 DEF HeldInv, SingleHub
<1>4. QED
  BY <1>1, <1>3

LEMMA OwnerStep ==
  TypeOK /\ Ports1 /\ Owned /\ BusyInv /\ StillOff /\ OwnInv /\ HeldInv /\ [Next]_vars
    => OwnInv' /\ HeldInv'
<1> SUFFICES ASSUME TypeOK, Ports1, Owned, BusyInv, StillOff, OwnInv, HeldInv, [Next]_vars
             PROVE  OwnInv' /\ HeldInv'
  OBVIOUS
<1> USE PortFacts, Funs
<1>0. child \in [Ports -> Children]
  OBVIOUS
<1>1. CASE UNCHANGED vars
  BY <1>1, SameOwners DEF vars, portv, hubv, Listening
<1>2. ASSUME NEW p \in Ports, Plug(p) PROVE OwnInv' /\ HeldInv'
  BY <1>2, SameOwners DEF Plug, Fault, hubv, Listening, Ports1, PortInv
<1>3. ASSUME NEW p \in Ports, Unplug(p) PROVE OwnInv' /\ HeldInv'
  BY <1>3, SameOwners DEF Unplug, Fault, hubv, Listening
<1>4. ASSUME NEW p \in Ports, ResetDone(p) PROVE OwnInv' /\ HeldInv'
  <2>1. child[p].stage # "CFG"
    BY <1>4 DEF ResetDone, Ports1, ResetInv, ChildInv
  <2>2. /\ UNCHANGED <<conn, child, port_busy, faults>> /\ devAddr'[p] = 0
        /\ \A q \in Ports \ {p} : enabled'[q] = enabled[q] /\ devAddr'[q] = devAddr[q]
    BY <1>4 DEF ResetDone, hubv
  <2>3. OwnInv'
    BY <2>1, <2>2 DEF OwnInv, SingleHub, Listening
  <2>4. HeldInv'
    <3>1. ASSUME NEW q \in Ports \ {p}, Abandoned(q) PROVE Abandoned(q)'
      BY <2>2, <3>1 DEF Abandoned, HubAddr
    <3>2. QED
      BY <2>2, <3>1 DEF HeldInv, SingleHub, Listening
  <2>5. QED
    BY <2>3, <2>4
<1>5. ASSUME NEW p \in Ports, Settle(p) PROVE OwnInv' /\ HeldInv'
  <2>1. \A q \in Ports : child'[q].stage = child[q].stage /\ child'[q].addr = child[q].addr
    BY <1>0, <1>5 DEF Settle, Children
  <2>2. UNCHANGED <<conn, enabled, devAddr, port_busy, faults>>
    BY <1>5 DEF Settle, portv, hubv
  <2>3. QED
    BY <2>1, <2>2, SameOwners DEF Listening
<1>6. ASSUME NEW p \in Ports, GetDescriptor(p) PROVE OwnInv' /\ HeldInv'
  <2>1. PICK z \in Ports : AtZero(z)
    BY <1>6 DEF GetDescriptor, Answers, AtZero
  <2>2. SingleHub => z = p /\ port_busy[HubOf[p]] = p
    BY <1>6, <2>1 DEF GetDescriptor, Enumerating, Turn, MayHandle, Ports1, ZeroInv, SingleHub
  <2>3. /\ UNCHANGED <<conn, enabled, devAddr, port_busy, faults>>
        /\ \A q \in Ports \ {p} : child'[q] = child[q]
        /\ child'[p].stage = "SET_ADDR"
    BY <1>0, <1>6 DEF GetDescriptor, portv, hubv, Children
  <2>4. SingleHub => \A q \in Ports \ {p} : ~Abandoned(q)
    BY <2>2 DEF Abandoned, SingleHub
  <2>5. OwnInv'
    BY <2>3 DEF OwnInv, SingleHub, Listening
  <2>6. HeldInv'
    BY <2>1, <2>2, <2>3, <2>4 DEF HeldInv, SingleHub, Listening, AtZero
  <2>7. QED
    BY <2>5, <2>6
<1>7. ASSUME NEW p \in Ports, SetAddress(p) PROVE OwnInv' /\ HeldInv'
  <2>1. /\ UNCHANGED <<conn, enabled, port_busy, faults>>
        /\ \A q \in Ports \ {p} : child'[q] = child[q]
        /\ child'[p].stage = "CFG"
        /\ \A q \in Ports : child'[q].addr = child[q].addr
        /\ \A q \in Ports : devAddr'[q] = IF AtZero(q) THEN child[p].addr ELSE devAddr[q]
    BY <1>0, <1>7 DEF SetAddress, Enumerating, Turn, hubv, Children, AtZero
  <2>2. PICK z \in Ports : AtZero(z)
    BY <1>7 DEF SetAddress, Answers, AtZero
  <2>3. SingleHub => /\ AtZero(p) /\ port_busy[HubOf[p]] = p
                     /\ \A q \in Ports \ {p} : ~AtZero(q) /\ ~Abandoned(q)
    BY <1>7, <2>2 DEF SetAddress, Enumerating, Turn, MayHandle, Ports1, ZeroInv, SingleHub, Abandoned
  <2>4. OwnInv'
    BY <2>1, <2>3 DEF OwnInv, SingleHub, Listening
  <2>5. HeldInv'
    BY <2>1, <2>3 DEF HeldInv, SingleHub, Listening
  <2>6. QED
    BY <2>4, <2>5
<1>8. ASSUME NEW p \in Ports, Configure(p) PROVE OwnInv' /\ HeldInv'
  <2>1. /\ UNCHANGED <<conn, enabled, devAddr, faults>>
        /\ \A q \in Ports : child'[q].addr = child[q].addr /\ child'[q].stage = child[q].stage
        /\ child[p].stage = "CFG" /\ port_busy' = [port_busy EXCEPT ![HubOf[p]] = -1]
        /\ port_busy[HubOf[p]] \in {-1, p}
    BY <1>0, <1>8 DEF Configure, Enumerating, Turn, MayHandle, AllowNext, portv, Children
  <2>2. OwnInv'
    BY <2>1 DEF OwnInv, SingleHub, Listening
  <2>3. SingleHub => \A q \in Ports \ {p} : ~Abandoned(q)
    BY <2>1 DEF SingleHub, Abandoned
  <2>4. HeldInv'
    BY <2>1, <2>3 DEF HeldInv, SingleHub, Listening
  <2>5. QED
    BY <2>2, <2>4
<1>9. ASSUME NEW p \in Ports, GiveUp(p) PROVE OwnInv' /\ HeldInv'
  <2>1. \A q \in Ports : child'[q].stage = child[q].stage /\ child'[q].addr = child[q].addr
    BY <1>0, <1>9 DEF GiveUp, Children
  <2>2. UNCHANGED <<conn, enabled, devAddr, port_busy>> /\ faults \subseteq faults'
    BY <1>9 DEF GiveUp, Fault, portv, hubv
  <2>3. QED
    BY <2>1, <2>2, SameOwners DEF Listening
<1>10. ASSUME NEW p \in Ports, Disconnected(p) PROVE OwnInv' /\ HeldInv'
  <2>1. /\ UNCHANGED <<conn, enabled, devAddr, port_busy, faults>>
        /\ \A q \in Ports \ {p} : child'[q] = child[q]
        /\ child'[p].stage = "DESC" /\ child'[p].addr = 0
    BY <1>0, <1>10 DEF Disconnected, Created, NewChild, portv, hubv
  <2>2. "taskFails" \notin faults => port_busy[HubOf[p]] = p
    BY <1>10 DEF Disconnected, BusyInv, Pending, GStates, Unborn
  <2>3. OwnInv'
    BY <2>1 DEF OwnInv, SingleHub, Listening
  <2>4. ASSUME SingleHub, "taskFails" \notin faults, Listening(p), devAddr[p] # 0
        PROVE  Abandoned(p)'
    <3>1. CASE child[p].stage = "CFG"
      <4>1. devAddr[p] = child[p].addr
        BY <2>4, <3>1 DEF OwnInv
      <4>2. devAddr[p] \notin HubAddr /\ \A q \in Ports \ {p} : child[q].addr # devAddr[p]
        BY <2>4, <4>1 DEF Owned
      <4>3. HubAddr' = HubAddr
        BY DEF HubAddr
      <4>4. QED
        BY <2>1, <2>2, <2>4, <4>2, <4>3 DEF Abandoned
    <3>2. CASE Abandoned(p)
      BY <2>1, <3>2 DEF Abandoned, HubAddr
    <3>3. QED
      BY <2>4, <3>1, <3>2 DEF HeldInv
  <2>5. ASSUME SingleHub, "taskFails" \notin faults, NEW q \in Ports \ {p} PROVE ~Abandoned(q)
    BY <2>2, <2>5 DEF SingleHub, Abandoned
  <2>6. HeldInv'
    BY <2>1, <2>4, <2>5 DEF HeldInv, SingleHub, Listening
  <2>7. QED
    BY <2>3, <2>6
<1>11. ASSUME NEW h \in Hubs, IntIn(h) PROVE OwnInv' /\ HeldInv'
  BY <1>11, SameOwners DEF IntIn, Fault, portv, hubv, Listening
<1>12. ASSUME NEW h \in Hubs, NEW p \in PortsOf(h),
              SkipPort(h, p) \/ ReadPort(h, p) \/ StatusFails(h, p) PROVE OwnInv' /\ HeldInv'
  BY <1>12, SameOwners DEF SkipPort, ReadPort, StatusFails, NextPort, Fault, portv, hubv, Listening
<1>13. ASSUME NEW h \in Hubs, NEW p \in PortsOf(h), HandlePort(h, p) PROVE OwnInv' /\ HeldInv'
  <2>0. /\ port_busy[h] \in {-1, p} /\ HubOf[p] = h /\ p \in Ports
        /\ seen[h] # Nothing /\ seen[h].port = p
    BY <1>13 DEF HandlePort, StillResetting, LostDevice, PassOn, NewDevice, NoChange, Handling,
                 Ports1, SeenInv, PortsOf, Nothing
  <2>1. CASE StillResetting(h, p)
    <3>1. \A q \in Ports : child'[q].stage = child[q].stage /\ child'[q].addr = child[q].addr
      BY <1>0, <2>1 DEF StillResetting, Children
    <3>2. QED
      BY <2>1, <3>1, SameOwners DEF StillResetting, Handling, hubv, Listening
  <2>2. CASE LostDevice(h, p)
    <3>1. ~Listening(p)
      BY <2>0, <2>2 DEF LostDevice, Gone, StillOff, Listening
    <3>2. /\ UNCHANGED <<conn, enabled, devAddr, port_busy, faults>>
          /\ \A q \in Ports \ {p} : child'[q] = child[q]
          /\ child'[p].addr = 0
      <4>1. child' = [child EXCEPT ![p] = NoChild]
        BY <2>2 DEF LostDevice
      <4>2. UNCHANGED <<conn, enabled, devAddr, port_busy, faults>>
        BY <2>2 DEF LostDevice, Handling, hubv
      <4>3. QED
        BY <1>0, <2>0, <4>1, <4>2 DEF NoChild
    <3>3. OwnInv'
      BY <3>1, <3>2 DEF OwnInv, SingleHub, Listening
    <3>4. ASSUME NEW q \in Ports, Abandoned(q), devAddr[q] # 0 PROVE Abandoned(q)'
      BY <3>2, <3>4 DEF Abandoned, HubAddr
    <3>5. HeldInv'
      BY <3>1, <3>2, <3>4 DEF HeldInv, SingleHub, Listening
    <3>6. QED
      BY <3>3, <3>5
  <2>3. CASE PassOn(h, p)
    <3>1. /\ UNCHANGED <<conn, enabled, devAddr, faults>>
          /\ \A q \in Ports \ {p} : child'[q] = child[q]
          /\ child'[p].stage = child[p].stage /\ child'[p].addr = 0
          /\ port_busy' = [port_busy EXCEPT ![h] = p]
      <4>1. child' = [child EXCEPT ![p] = [gState |-> "DELAY", addr |-> 0, stage |-> child[p].stage]]
        BY <1>0, <2>0, <2>3, StateAndAddr DEF PassOn
      <4>2. UNCHANGED <<conn, enabled, devAddr, faults>> /\ port_busy' = [port_busy EXCEPT ![h] = p]
        BY <2>3 DEF PassOn, Handling
      <4>3. QED
        BY <1>0, <2>0, <4>1, <4>2
    <3>2. child[p].addr = 0
      BY <2>3, <2>0 DEF PassOn, Ports1, ChildInv, TypeOK
    <3>3. QED
      BY <2>0, <3>1, <3>2, SameOwners DEF Listening, PortsOf
  <2>4. CASE NewDevice(h, p)
    <3>1. /\ UNCHANGED <<conn, devAddr>> /\ faults \subseteq faults'
          /\ \A q \in Ports \ {p} : child'[q] = child[q] /\ enabled'[q] = enabled[q]
          /\ child'[p].addr = 0 /\ child'[p].stage = "DESC"
          /\ child[p] = NoChild /\ (enabled'[p] => enabled[p])
          /\ port_busy' = [port_busy EXCEPT ![h] = p]
      BY <1>0, <2>0, <2>4 DEF NewDevice, Created, NewChild, Handling, Fault
    <3>2. OwnInv'
      BY <3>1 DEF OwnInv, SingleHub, Listening
    <3>3. ASSUME NEW q \in Ports, Abandoned(q) PROVE Abandoned(q)'
      BY <2>0, <3>1, <3>3 DEF Abandoned, HubAddr, NoChild
    <3>4. HeldInv'
      BY <3>1, <3>3 DEF HeldInv, SingleHub, Listening, NoChild
    <3>5. QED
      BY <3>2, <3>4
  <2>5. CASE NoChange(h, p)
    BY <2>5, SameOwners DEF NoChange, Handling, hubv, Listening
  <2>6. QED
    BY <1>13, <2>1, <2>2, <2>3, <2>4, <2>5 DEF HandlePort
<1>14. QED
  BY <1>1, <1>2, <1>3, <1>4, <1>5, <1>6, <1>7, <1>8, <1>9, <1>10, <1>11, <1>12, <1>13
  DEF Next, Process, Handler

LEMMA Inductive == IInv /\ [Next]_vars => IInv'
BY TypeStep, PortsStep, AddrStep, BusyStep, OffStep, OwnerStep DEF IInv, Holders, Ports1

THEOREM HubInvariance == Spec => []IInv
BY InitInv, Inductive, PTL DEF Spec

(* The types, among them that a child has an address exactly from the moment
   USBH_HandleEnum has chosen one until USBH_DeInit. *)
THEOREM HubTypeCorrect == Spec => []TypeOK
<1>1. IInv => TypeOK
  BY DEF IInv
<1>2. QED
  BY <1>1, HubInvariance, PTL

(* port_busy does what the comment in the data handler says, for one hub: at
   most one of the devices plugged into it listens to address 0, whatever is
   plugged in or out at any moment and whichever requests fail. *)
THEOREM OneDeviceAtZero == Spec => []OnePerHub
<1>1. IInv => OnePerHub
  BY DEF IInv, Ports1, ZeroInv, OnePerHub
<1>2. QED
  BY <1>1, HubInvariance, PTL

(* Addresses are never lost: USBH_Dev_UsedAddr marks those of the hubs and of
   the children, and no other. *)
THEOREM NoAddressLost == Spec => []AddressesBacked
<1>1. IInv => AddressesBacked
  BY HubAddrs DEF IInv, Marked, AddressesBacked
<1>2. QED
  BY <1>1, HubInvariance, PTL

(* Behind one hub no two devices answer to one address, nor to the hub's, unless
   a running driver is given up: also when enumerations fail half way, devices
   are exchanged hastily and ports report changes that were dealt with before. *)
THEOREM AddressUnique == Spec => [](SingleHub => UniqueAddress)
<1>1. IInv => (SingleHub => UniqueAddress)
  <2> SUFFICES ASSUME IInv, SingleHub, "taskFails" \notin faults,
                      NEW p \in Ports, Listening(p), devAddr[p] # 0
               PROVE  /\ devAddr[p] \notin HubAddr
                      /\ \A q \in Ports \ {p} : Listening(q) => devAddr[q] # devAddr[p]
    BY DEF UniqueAddress
  <2> USE PortFacts DEF IInv, Holders
  <2>1. \A q \in Ports : Listening(q) /\ devAddr[q] # 0 =>
          (child[q].stage = "CFG" /\ devAddr[q] = child[q].addr) \/ Abandoned(q)
    BY DEF HeldInv, OwnInv
  <2>2. devAddr[p] \notin HubAddr
    BY <2>1 DEF Owned, Abandoned
  <2>3. ASSUME NEW q \in Ports \ {p}, Listening(q), devAddr[q] = devAddr[p] PROVE FALSE
    <3>1. ~(Abandoned(p) /\ Abandoned(q))
      BY DEF Abandoned, SingleHub
    <3>2. ~(Abandoned(p) /\ devAddr[q] = child[q].addr) /\ ~(Abandoned(q) /\ devAddr[p] = child[p].addr)
      BY <2>3 DEF Abandoned
    <3>3. ~(devAddr[p] = child[p].addr /\ devAddr[q] = child[q].addr)
      BY <2>3 DEF Owned
    <3>4. QED
      BY <2>1, <2>3, <3>1, <3>2, <3>3
  <2>4. QED
    BY <2>2, <2>3
<1>2. QED
  BY <1>1, HubInvariance, PTL

(* A driver that runs talks to the device on its own port: a device that was
   exchanged for another answers to nothing until it is enumerated. *)
THEOREM OwnDeviceOnly == Spec => [](SingleHub => OwnDevice)
<1>1. IInv => (SingleHub => OwnDevice)
  BY DEF IInv, Holders, BusyInv, OwnInv, OwnDevice
<1>2. QED
  BY <1>1, HubInvariance, PTL
=============================================================================
