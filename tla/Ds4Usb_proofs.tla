--------------------------- MODULE Ds4Usb_proofs ---------------------------
(* Proofs about Ds4Usb: types, and the safety properties that relate the     *)
(* interrupt of the device core to the main loop.                           *)
EXTENDS Ds4Usb, TLAPS


(* The setup stage leaves the device side in one of its states. *)
LEMMA SetupTypes ==
  ASSUME TypeOK, NEW r \in Requests, SetupStage(r)
  PROVE  /\ status' \in {"default", "addressed", "configured", "suspended"}
         /\ config' \in 0 .. 1 /\ open' \in BOOLEAN
         /\ ep0' \in {"setup", "dataIn", "dataOut", "statusIn"}
         /\ lastW' \in {"set13", "other"}
         /\ buf' \in Pairs
<1> DEFINE Post == /\ status' \in {"default", "addressed", "configured", "suspended"}
                   /\ config' \in 0 .. 1 /\ open' \in BOOLEAN
                   /\ ep0' \in {"setup", "dataIn", "dataOut", "statusIn"}
                   /\ lastW' \in {"set13", "other"}
                   /\ buf' \in Pairs
<1> SUFFICES Post
  OBVIOUS
<1>1. CASE SetAddress
  BY <1>1 DEF SetAddress, TypeOK
<1>2. CASE SetConfig
  <2>1. open' \in BOOLEAN
    BY <1>2, ZenonT(20) DEF SetConfig, Stall, TypeOK
  <2> QED
    BY <1>2, <2>1 DEF SetConfig, Stall, TypeOK
<1>3. CASE ClearConfig
  <2>1. open' \in BOOLEAN
    BY <1>3, ZenonT(20) DEF ClearConfig, Stall, TypeOK
  <2> QED
    BY <1>3, <2>1 DEF ClearConfig, Stall, TypeOK
<1>4. CASE Stall
  BY <1>4 DEF Stall, TypeOK
<1>5. CASE GetReport(r)
  <2>1. ToldAddress \in Addresses
    BY DEF ToldAddress, TypeOK, Addresses, Pairs
  <2> QED
    BY <1>5, <2>1 DEF GetReport, NoPair, TypeOK, Addresses, Pairs
<1>6. CASE SetReport(r)
  BY <1>6 DEF SetReport, LastWValue, TypeOK
<1>7. CASE SetIdle
  BY <1>7 DEF SetIdle, LastWValue, TypeOK
<1>8. CASE GetOther
  BY <1>8 DEF GetOther, TypeOK
<1> QED
  BY <1>1, <1>2, <1>3, <1>4, <1>5, <1>6, <1>7, <1>8 DEF SetupStage

LEMMA BeginTypes ==
  ASSUME TypeOK, NEW r \in Requests, Begin(r)
  PROVE  TypeOK'
<1>1. SetupStage(r) /\ req' = r /\ UNCHANGED <<at, stage, knows>>
  BY DEF Begin
<1>2. UNCHANGED <<oldStatus, pairVars, flags, emu, nvmVars, hostVars>>
  BY DEF Begin
<1>3. woken' \in BOOLEAN
  BY ZenonT(20) DEF Begin, TypeOK
<1>4. QED
  BY <1>1, <1>2, <1>3, SetupTypes DEF TypeOK, pairVars, nvmVars, hostVars

LEMMA NextRequestIsOne == NextRequest \in Requests
  BY DEF NextRequest, Requests, GetReports, SetReports

(* Every variable keeps a value of its type (TypeOK), for any number of consoles
   and any bounds. *)
THEOREM TypeCorrect == Spec => []TypeOK
<1>1. Init => TypeOK
  <2> SUFFICES ASSUME Init PROVE TypeOK
    OBVIOUS
  <2>1. /\ open \in BOOLEAN /\ needsWrite \in BOOLEAN /\ crossed \in BOOLEAN
        /\ woken \in BOOLEAN /\ plugged \in BOOLEAN /\ told \in BOOLEAN
    BY ZenonT(20) DEF Init
  <2>2. NoPair \in Pairs
    BY DEF NoPair, Pairs, Addresses
  <2>3. QED
    BY <2>1, <2>2 DEF Init, TypeOK, Addresses
<1>2. TypeOK /\ [Next]_vars => TypeOK'
  <2> SUFFICES ASSUME TypeOK, [Next]_vars PROVE TypeOK'
    OBVIOUS
  <2>1. CASE Script
    BY <2>1, BeginTypes, NextRequestIsOne DEF Script
  <2>2. ASSUME NEW r \in Requests, OtherRequest(r) \/ GivenUp(r) PROVE TypeOK'
    BY <2>2, BeginTypes DEF OtherRequest, GivenUp
  <2>3. CASE BusReset
    BY <2>3 DEF BusReset, ResetStatus, TypeOK, pairVars, nvmVars, hostVars
  <2>4. CASE DataInStage
    BY <2>4 DEF DataInStage, TypeOK, Pairs, pairVars, nvmVars, hostVars, sleepVars
  <2>5. CASE DataOutStage
    <3>1. at # None
      BY <2>5 DEF DataOutStage, OnBus
    <3>2. DataOf(req) \in Pairs
      BY DEF DataOf, Pair, NoPair, Pairs, Addresses, TypeOK
    <3>3. ram' \in Pairs /\ flags' \subseteq Flags
      BY <2>5, <3>2 DEF DataOutStage, StorePair, TypeOK, Flags, pairVars
    <3>4. needsWrite' \in BOOLEAN /\ crossed' \in BOOLEAN
      BY <2>5, ZenonT(20) DEF DataOutStage, StorePair, WantsWrite, TypeOK, pairVars
    <3>5. QED
      BY <2>5, <3>2, <3>3, <3>4
      DEF DataOutStage, TypeOK, consoleVars, nvmVars, hostVars, sleepVars
  <2>6. CASE StatusStage
    BY <2>6 DEF StatusStage, TypeOK, devVars, pairVars, nvmVars, hostVars, sleepVars
  <2>7. CASE Stalled
    BY <2>7 DEF Stalled, TypeOK, devVars, pairVars, nvmVars, hostVars, sleepVars
  <2>8. CASE Suspend
    BY <2>8 DEF Suspend, TypeOK, consoleVars, pairVars, nvmVars, hostVars
  <2>9. CASE Resume
    BY <2>9 DEF Resume, TypeOK, consoleVars, pairVars, nvmVars, hostVars
  <2>10. CASE Save
    <3>1. needsWrite' \in BOOLEAN
      BY <2>10, ZenonT(20) DEF Save, SaveAddress, SaveKey, SaveFlush, SaveClear, TypeOK
    <3>2. cache' \in Pairs /\ flash' \in Pairs /\ pc' \in {"idle", "key", "flush", "clear"}
      BY <2>10 DEF Save, SaveAddress, SaveKey, SaveFlush, SaveClear, TypeOK, Pairs
    <3>3. saved' = saved
      BY <2>10 DEF Save, SaveAddress, SaveKey, SaveFlush, SaveClear
    <3>4. QED
      BY <2>10, <3>1, <3>2, <3>3 DEF Save, TypeOK, devVars, hostVars, consoleVars, sleepVars
  <2>11. CASE Switch
    <3>1. open' \in BOOLEAN
      BY <2>11, ZenonT(20) DEF Switch, TypeOK
    <3>2. emu' \in {"none", "wanted", "switching", "on"} /\ status' \in {status, "default"}
      BY <2>11 DEF Switch, TypeOK
    <3>3. QED
      BY <2>11, <3>1, <3>2
      DEF Switch, TypeOK, pairVars, nvmVars, hostVars, consoleVars, sleepVars
  <2>12. CASE BtReady
    BY <2>12
    DEF BtReady, MainOnly, TypeOK, Flags, devVars, pairVars, hostVars, consoleVars, sleepVars
  <2>13. CASE BtLost
    BY <2>13 DEF BtLost, MainOnly, TypeOK, devVars, pairVars, hostVars, consoleVars, sleepVars
  <2>14. CASE Ds4Plugged
    <3>1. plugged' \in BOOLEAN /\ told' \in BOOLEAN
      BY <2>14, ZenonT(20) DEF Ds4Plugged
    <3>2. QED
      BY <2>14, <3>1
      DEF Ds4Plugged, MainOnly, TypeOK, devVars, pairVars, consoleVars, sleepVars
  <2>15. CASE Ds4Unplugged
    <3>1. plugged' \in BOOLEAN
      BY <2>15, ZenonT(20) DEF Ds4Unplugged
    <3>2. QED
      BY <2>15, <3>1
      DEF Ds4Unplugged, MainOnly, TypeOK, devVars, pairVars, consoleVars, sleepVars
  <2>16. CASE Ds4Task
    <3>1. Reads \cup Steps \subseteq Flags
      BY DEF Flags
    <3>2. flags' \subseteq Flags /\ saved' \subseteq Reads
      BY <2>16, <3>1 DEF Ds4Task, AfterTask, TypeOK
    <3>3. told' \in BOOLEAN
      BY <2>16, ZenonT(20) DEF Ds4Task, TypeOK
    <3>4. QED
      BY <2>16, <3>2, <3>3
      DEF Ds4Task, MainOnly, TypeOK, devVars, pairVars, consoleVars, sleepVars
  <2>17. ASSUME NEW c \in Consoles \cup {None}, Move(c) PROVE TypeOK'
    BY <2>17 DEF Move, TypeOK, Addresses, devVars, pairVars, nvmVars, hostVars, sleepVars
  <2>18. CASE Restart
    <3>1. Loaded \subseteq Flags
      BY DEF Loaded, Flags
    <3>2. /\ open' \in BOOLEAN /\ needsWrite' \in BOOLEAN /\ woken' \in BOOLEAN
          /\ plugged' \in BOOLEAN /\ told' \in BOOLEAN
      BY <2>18, ZenonT(20) DEF Restart
    <3>3. NoPair \in Pairs
      BY DEF NoPair, Pairs, Addresses
    <3>4. QED
      BY <2>18, <3>1, <3>2, <3>3 DEF Restart, TypeOK
  <2>19. CASE UNCHANGED vars
    BY <2>19 DEF vars, devVars, pairVars, nvmVars, hostVars, consoleVars, TypeOK, sleepVars
  <2>20. QED
    BY <2>1, <2>2, <2>3, <2>4, <2>5, <2>6, <2>7, <2>8, <2>9, <2>10, <2>11, <2>12, <2>13,
       <2>14, <2>15, <2>16, <2>17, <2>18, <2>19 DEF Next, Isr, Main
<1>3. QED
  BY <1>1, <1>2, PTL DEF Spec
----------------------------------------------------------------------------
(* While the device is suspended, what USBD_Suspend has saved says whether the data
   endpoints are open; no reset, request or switch can take them away unnoticed. *)
DeviceInv ==
  /\ status = "configured" => open \/ woken
  /\ status = "suspended" /\ oldStatus = "configured" => open \/ woken

LEMMA BeginDevice ==
  ASSUME DeviceInv, NEW r \in Requests, OnBus, Begin(r)
  PROVE  DeviceInv'
<1>1. SetupStage(r) /\ status # "suspended" /\ woken' = (woken /\ UNCHANGED <<status, open>>)
  BY DEF Begin, OnBus
<1>2. /\ status' # "suspended"
      /\ status' = "configured" => open' \/ (UNCHANGED <<status, open>>)
  <2>1. CASE SetAddress
    BY <2>1 DEF SetAddress
  <2>2. CASE SetConfig
    BY <1>1, <2>2, ZenonT(20) DEF SetConfig, Stall
  <2>3. CASE ClearConfig
    BY <1>1, <2>3, ZenonT(20) DEF ClearConfig, Stall
  <2>4. CASE Stall \/ GetReport(r) \/ SetReport(r) \/ SetIdle \/ GetOther
    BY <1>1, <2>4, ZenonT(20) DEF Stall, GetReport, SetReport, SetIdle, GetOther
  <2>5. QED
    BY <1>1, <2>1, <2>2, <2>3, <2>4 DEF SetupStage
<1>3. CASE UNCHANGED <<status, open>>
  BY <1>1, <1>3, ZenonT(20) DEF DeviceInv
<1>4. CASE ~UNCHANGED <<status, open>>
  BY <1>2, <1>4, ZenonT(20) DEF DeviceInv
<1>5. QED
  BY <1>3, <1>4

LEMMA DeviceUntouched ==
  ASSUME DeviceInv, UNCHANGED <<status, open, sleepVars>>
  PROVE  DeviceInv'
  BY ZenonT(20) DEF DeviceInv, sleepVars

LEMMA DeviceClosed ==
  ASSUME status' = "default"
  PROVE  DeviceInv'
  BY DEF DeviceInv

(* A device that says it is configured has its data endpoints open, but for a resume
   that called it so (ConfiguredOpen), although a console may suspend it in any
   state and a reset forgets neither the configuration nor the saved status. *)
THEOREM EndpointsOpen == Spec => []ConfiguredOpen
<1>1. Init => DeviceInv
  BY DEF Init, DeviceInv
<1>2. DeviceInv /\ [Next]_vars => DeviceInv'
  <2> SUFFICES ASSUME DeviceInv, [Next]_vars PROVE DeviceInv'
    OBVIOUS
  <2>1. CASE Script
    BY <2>1, BeginDevice, NextRequestIsOne DEF Script
  <2>2. ASSUME NEW r \in Requests, OtherRequest(r) \/ GivenUp(r) PROVE DeviceInv'
    BY <2>2, BeginDevice DEF OtherRequest, GivenUp
  <2>3. CASE BusReset
    BY <2>3, DeviceClosed DEF BusReset, ResetStatus
  <2>4. CASE DataInStage \/ DataOutStage \/ StatusStage \/ Stalled
    BY <2>4, DeviceUntouched DEF DataInStage, DataOutStage, StatusStage, Stalled, devVars
  <2>5. CASE Suspend
    BY <2>5, ZenonT(20) DEF Suspend, DeviceInv
  <2>6. CASE Resume
    BY <2>6, ZenonT(20) DEF Resume, DeviceInv
  <2>7. CASE Save \/ MainOnly
    BY <2>7, DeviceUntouched DEF Save, MainOnly, devVars
  <2>8. CASE Switch
    <3>1. UNCHANGED <<status, open, sleepVars>> \/ status' = "default"
      BY <2>8 DEF Switch
    <3>2. QED
      BY <3>1, DeviceUntouched, DeviceClosed
  <2>9. ASSUME NEW c \in Consoles \cup {None}, Move(c) PROVE DeviceInv'
    BY <2>9, DeviceUntouched DEF Move, devVars
  <2>10. CASE Restart
    BY <2>10, DeviceClosed DEF Restart
  <2>11. CASE UNCHANGED vars
    BY <2>11, DeviceUntouched DEF vars, devVars
  <2>12. QED
    BY <2>1, <2>2, <2>3, <2>4, <2>5, <2>6, <2>7, <2>8, <2>9, <2>10, <2>11
    DEF Next, Isr, Main, BtReady, BtLost, Ds4Plugged, Ds4Unplugged, Ds4Task
<1>3. DeviceInv => ConfiguredOpen
  BY DEF DeviceInv, ConfiguredOpen
<1>4. QED
  BY <1>1, <1>2, <1>3, PTL DEF Spec
----------------------------------------------------------------------------
(* What the flags say was read is in the NVM file, and the emulation is not
   wanted before the date was read; a report that is being sent follows from it. *)
SavedInv ==
  /\ flags \cap Reads \subseteq saved
  /\ emu # "none" => "mfg" \in saved
  /\ req \in GetReports /\ ep0 = "dataIn" => "mfg" \in saved

LEMMA BeginSaved ==
  ASSUME SavedInv, OnBus, NEW r \in Requests, Begin(r)
  PROVE  SavedInv'
  BY DEF SavedInv, OnBus, Begin, nvmVars

(* The console is given the controller's date only when it was read and saved
   (ServedSaved), through any restarts and changes of controller. *)
THEOREM DateServedSaved == Spec => []ServedSaved
<1>1. Init => SavedInv
  BY DEF Init, SavedInv, GetReports
<1>2. SavedInv /\ [Next]_vars => SavedInv'
  <2> SUFFICES ASSUME SavedInv, [Next]_vars PROVE SavedInv'
    OBVIOUS
  <2> USE DEF SavedInv
  <2>1. CASE Script
    BY <2>1, BeginSaved, NextRequestIsOne DEF Script
  <2>2. ASSUME NEW r \in Requests, OtherRequest(r) \/ GivenUp(r) PROVE SavedInv'
    BY <2>2, BeginSaved DEF OtherRequest, GivenUp
  <2>3. CASE BusReset
    BY <2>3 DEF BusReset, nvmVars, GetReports
  <2>4. CASE DataInStage
    BY <2>4 DEF DataInStage, nvmVars
  <2>5. CASE DataOutStage
    <3>1. flags' \cap Reads \subseteq flags
      BY <2>5 DEF DataOutStage, StorePair, Reads
    <3>2. QED
      BY <2>5, <3>1 DEF DataOutStage, consoleVars, nvmVars
  <2>6. CASE StatusStage
    BY <2>6 DEF StatusStage, devVars, nvmVars, GetReports
  <2>7. CASE Stalled
    BY <2>7 DEF Stalled, devVars, nvmVars, GetReports
  <2>8. CASE Suspend \/ Resume
    BY <2>8 DEF Suspend, Resume, consoleVars, nvmVars
  <2>9. CASE Save
    BY <2>9 DEF Save, SaveAddress, SaveKey, SaveFlush, SaveClear, devVars, consoleVars
  <2>10. CASE Switch
    BY <2>10 DEF Switch, MayStart, Reads, nvmVars, consoleVars
  <2>11. CASE BtReady
    BY <2>11 DEF BtReady, MainOnly, Reads, devVars, consoleVars
  <2>12. CASE BtLost \/ Ds4Plugged \/ Ds4Unplugged
    BY <2>12 DEF BtLost, Ds4Plugged, Ds4Unplugged, MainOnly, devVars, consoleVars
  <2>13. CASE Ds4Task
    BY <2>13 DEF Ds4Task, AfterTask, MainOnly, devVars, consoleVars
  <2>14. ASSUME NEW c \in Consoles \cup {None}, Move(c) PROVE SavedInv'
    BY <2>14 DEF Move, devVars, nvmVars, GetReports
  <2>15. CASE Restart
    <3>1. Loaded \cap Reads \subseteq saved
      BY DEF Loaded, Reads
    <3>2. QED
      BY <2>15, <3>1 DEF Restart, GetReports
  <2>16. CASE UNCHANGED vars
    BY <2>16 DEF vars, devVars, nvmVars, consoleVars
  <2>17. QED
    BY <2>1, <2>2, <2>3, <2>4, <2>5, <2>6, <2>7, <2>8, <2>9, <2>10, <2>11, <2>12, <2>13,
       <2>14, <2>15, <2>16 DEF Next, Isr, Main
<1>3. SavedInv => ServedSaved
  BY DEF SavedInv, ServedSaved, GetReports
<1>4. QED
  BY <1>1, <1>2, <1>3, PTL DEF Spec
----------------------------------------------------------------------------
(* What the flags say was given to the controller, the one that is plugged in was
   given (ToldTrue), whatever the links do and whichever controller was there. *)
THEOREM ControllerTold == Spec => []ToldTrue
<1>1. Init => ToldTrue
  BY DEF Init, ToldTrue
<1>2. ToldTrue /\ [Next]_vars => ToldTrue'
  <2> SUFFICES ASSUME ToldTrue, [Next]_vars PROVE ToldTrue'
    OBVIOUS
  <2> USE DEF ToldTrue
  <2>1. ASSUME UNCHANGED hostVars, UNCHANGED flags PROVE ToldTrue'
    BY <2>1 DEF hostVars
  <2>2. CASE DataOutStage
    <3>1. flags' \cap Steps \subseteq flags
      BY <2>2 DEF DataOutStage, StorePair, Steps
    <3>2. QED
      BY <2>2, <3>1 DEF DataOutStage, hostVars
  <2>3. CASE BtReady \/ BtLost
    BY <2>3 DEF BtReady, BtLost, hostVars, Steps
  <2>4. CASE Ds4Plugged
    BY <2>4 DEF Ds4Plugged, Forgotten
  <2>5. CASE Ds4Unplugged \/ Restart
    BY <2>5 DEF Ds4Unplugged, Restart
  <2>6. CASE Ds4Task
    <3>1. PICK f \in Reads \cup Steps : /\ Due(f) /\ flags' = flags \cup {f}
                                      /\ told' = (told \/ f = "given")
      BY <2>6 DEF Ds4Task, AfterTask
    <3>2. CASE f = "given"
      BY <3>1, <3>2
    <3>3. CASE f \in {"g1401", "g1402"}
      <4>1. "given" \in flags
        BY <3>1, <3>3 DEF Due, Needs
      <4>2. QED
        BY <2>6, <3>1, <4>1 DEF Ds4Task, Steps
    <3>4. CASE f \in Reads
      BY <2>6, <3>1, <3>4 DEF Ds4Task, Reads, Steps
    <3>5. QED
      BY <3>1, <3>2, <3>3, <3>4 DEF Steps
  <2>7. CASE Script \/ BusReset \/ DataInStage \/ StatusStage \/ Stalled \/ Suspend
             \/ Resume \/ Save \/ Switch
    BY <2>7, <2>1 DEF Script, Begin, BusReset, DataInStage, StatusStage, Stalled, Suspend,
                     Resume, Save, Switch
  <2>8. ASSUME NEW r \in Requests, OtherRequest(r) \/ GivenUp(r) PROVE ToldTrue'
    BY <2>8, <2>1 DEF OtherRequest, GivenUp, Begin
  <2>9. ASSUME NEW c \in Consoles \cup {None}, Move(c) PROVE ToldTrue'
    BY <2>9, <2>1 DEF Move
  <2>10. CASE UNCHANGED vars
    BY <2>10, <2>1 DEF vars
  <2>11. QED
    BY <2>2, <2>3, <2>4, <2>5, <2>6, <2>7, <2>8, <2>9, <2>10 DEF Next, Isr, Main
<1>3. QED
  BY <1>1, <1>2, PTL DEF Spec
----------------------------------------------------------------------------
(* Where a sound pair is on its way from the console to the NVM file.  The two
   copies of the main loop (ram to cache, cache to flash) are made while the
   request to save is up, so ram holds a pair that one report brought; unless it
   was replaced between the two halves of the copy, the cache then holds it too. *)
PairInv ==
  /\ pc # "idle" => needsWrite
  /\ needsWrite => Sound(ram)
  /\ ~crossed => /\ flash # NoPair => Sound(ram) /\ Sound(flash)
                 /\ pc = "key" => cache[1] = ram[1]
                 /\ pc = "flush" => Sound(cache)
  /\ req \in SetReports /\ ep0 = "dataOut" /\ lastW = "set13" => req = "set13"

LEMMA BeginPair ==
  ASSUME PairInv, NEW r \in Requests, Begin(r)
  PROVE  PairInv'
<1>1. /\ req' = r /\ SetupStage(r)
      /\ ram' = ram /\ needsWrite' = needsWrite /\ crossed' = crossed
      /\ pc' = pc /\ cache' = cache /\ flash' = flash
  BY DEF Begin, pairVars, nvmVars
<1>2. r \in SetReports /\ ep0' = "dataOut" /\ lastW' = "set13" => r = "set13"
  <2> SUFFICES ASSUME r \in SetReports, ep0' = "dataOut", lastW' = "set13"
               PROVE  r = "set13"
    OBVIOUS
  <2>1. r \notin {"address", "config", "unconfig", "idle", "getOther"} /\ r \notin GetReports
    BY DEF SetReports, GetReports
  <2>2. SetReport(r)
    BY <1>1, <2>1 DEF SetupStage, Stall
  <2>3. QED
    BY <2>2 DEF SetReport, LastWValue
<1>3. QED
  BY <1>1, <1>2 DEF PairInv, Sound

LEMMA PairUntouched ==
  ASSUME PairInv, UNCHANGED <<pairVars, pc, cache, flash>>,
         (UNCHANGED <<req, ep0, lastW>>) \/ req' = "none" \/ ep0' # "dataOut"
  PROVE  PairInv'
  BY DEF PairInv, Sound, pairVars, SetReports

LEMMA PairStored ==
  ASSUME TypeOK, PairInv, DataOutStage
  PROVE  PairInv'
<1>1. CASE status = "configured" /\ lastW = "set13"
  <2>1. ram' = Pair(at) /\ at \in Consoles
    <3>1. req = "set13"
      BY <1>1 DEF PairInv, DataOutStage
    <3>2. at # None /\ buf' = DataOf(req) /\ ram' = buf'
      BY <1>1 DEF DataOutStage, OnBus, StorePair
    <3>3. QED
      BY <3>1, <3>2 DEF DataOf, TypeOK, Addresses
  <2>2. Sound(ram)'
    BY <2>1 DEF Sound
  <2>3. needsWrite' = TRUE /\ crossed' = (crossed \/ (pc = "key" /\ ram' # ram))
    BY <1>1, ZenonT(20) DEF DataOutStage, StorePair, WantsWrite
  <2>4. ep0' # "dataOut" /\ UNCHANGED <<pc, cache, flash>>
    BY DEF DataOutStage, nvmVars
  <2>5. ~crossed' => ~crossed /\ (pc = "key" => ram' = ram)
    BY <2>3
  <2>6. QED
    BY <2>2, <2>3, <2>4, <2>5 DEF PairInv, Sound
<1>2. CASE ~(status = "configured" /\ lastW = "set13")
  <2>1. UNCHANGED <<pairVars, pc, cache, flash>> /\ ep0' # "dataOut"
    BY <1>2 DEF DataOutStage, nvmVars
  <2>2. QED
    BY <2>1, PairUntouched
<1>3. QED
  BY <1>1, <1>2

LEMMA PairSaved ==
  ASSUME TypeOK, PairInv, Save
  PROVE  PairInv'
<1>1. UNCHANGED <<ram, crossed, req, ep0, lastW>>
  BY DEF Save, devVars, consoleVars
<1>2. CASE SaveAddress
  BY <1>1, <1>2 DEF SaveAddress, Idle, PairInv, Sound
<1>3. CASE SaveKey
  <2>1. ~crossed => Sound(cache)'
    <3> SUFFICES ASSUME ~crossed PROVE Sound(cache')
      BY DEF Sound
    <3>1. PICK c \in Consoles : ram = Pair(c)
      BY <1>3 DEF SaveKey, PairInv, Sound
    <3>2. cache' = <<cache[1], ram[2]>> /\ cache[1] = ram[1]
      BY <1>3 DEF SaveKey, PairInv
    <3>3. QED
      BY <3>1, <3>2 DEF Sound, Pair
  <2>2. QED
    BY <1>1, <1>3, <2>1 DEF SaveKey, PairInv, Sound
<1>4. CASE SaveFlush
  BY <1>1, <1>4 DEF SaveFlush, PairInv, Sound
<1>5. CASE SaveClear
  BY <1>1, <1>5 DEF SaveClear, PairInv, Sound
<1>6. QED
  BY <1>2, <1>3, <1>4, <1>5 DEF Save

(* The console that ds4emu_task would call is one that gave its address and key in
   one report (CallsPaired), whatever requests were begun and given up in between
   and wherever the interrupt came in the saving of the pair. *)
THEOREM CalledPaired == Spec => []CallsPaired
<1>1. Init => PairInv
  BY DEF Init, PairInv, SetReports
<1>2. TypeOK /\ PairInv /\ [Next]_vars => PairInv'
  <2> SUFFICES ASSUME TypeOK, PairInv, [Next]_vars PROVE PairInv'
    OBVIOUS
  <2>1. CASE Script
    BY <2>1, BeginPair, NextRequestIsOne DEF Script
  <2>2. ASSUME NEW r \in Requests, OtherRequest(r) \/ GivenUp(r) PROVE PairInv'
    BY <2>2, BeginPair DEF OtherRequest, GivenUp
  <2>3. CASE BusReset
    BY <2>3, PairUntouched DEF BusReset, nvmVars
  <2>4. CASE DataInStage
    BY <2>4, PairUntouched DEF DataInStage, nvmVars
  <2>5. CASE DataOutStage
    BY <2>5, PairStored
  <2>6. CASE StatusStage \/ Stalled
    BY <2>6, PairUntouched DEF StatusStage, Stalled, nvmVars
  <2>7. CASE Suspend \/ Resume
    BY <2>7, PairUntouched DEF Suspend, Resume, consoleVars, nvmVars
  <2>8. CASE Save
    BY <2>8, PairSaved
  <2>9. CASE Switch
    BY <2>9, PairUntouched DEF Switch, consoleVars, nvmVars
  <2>10. CASE MainOnly
    BY <2>10, PairUntouched DEF MainOnly, devVars, consoleVars
  <2>11. ASSUME NEW c \in Consoles \cup {None}, Move(c) PROVE PairInv'
    BY <2>11, PairUntouched DEF Move, nvmVars
  <2>12. CASE Restart
    BY <2>12 DEF Restart, PairInv, Sound, SetReports
  <2>13. CASE UNCHANGED vars
    BY <2>13, PairUntouched DEF vars, devVars, nvmVars, consoleVars
  <2>14. QED
    BY <2>1, <2>2, <2>3, <2>4, <2>5, <2>6, <2>7, <2>8, <2>9, <2>10, <2>11, <2>12, <2>13
    DEF Next, Isr, Main, BtReady, BtLost, Ds4Plugged, Ds4Unplugged, Ds4Task
<1>3. PairInv => CallsPaired
  BY DEF PairInv, CallsPaired, CanCall
<1>4. QED
  BY <1>1, <1>2, <1>3, TypeCorrect, PTL DEF Spec
============================================================================
