------------------------------- MODULE Ds4Usb -------------------------------
(***************************************************************************)
(* How the emulated controller comes to know its console: the USB device   *)
(* side (usbd_lib, usbd_dev/usbd_dev_ds4.c), the host driver that reads a  *)
(* real controller first (usbh_dev/usbh_dev_dualshock.c), and the part of  *)
(* ds4emu_task that starts the emulation and saves the console's key.      *)
(*                                                                         *)
(* The device side runs in the interrupt of the device core, one action an *)
(* interrupt, and comes in between any two steps of the main loop (`pc').  *)
(* A console stands for its address and for its link key; a pair is what   *)
(* ps4_bdaddr and ps4_link_key hold.  flash and cache are the two copies   *)
(* of the NVM file; that storing it is atomic is FlashFile's subject.      *)
(***************************************************************************)
EXTENDS Naturals, FiniteSets

CONSTANTS Consoles, None, Unread,   \* None: no address; Unread: report 0x12 not read
          Budgets    \* bounds: what the environment may do in a behaviour

ASSUME UsbAssumption == /\ None \notin Consoles /\ Unread \notin Consoles \cup {None}
                        /\ Budgets \subseteq [{"moves", "faults", "restarts"} -> Nat]

VARIABLES status, config, ep0,   \* dev.device_status, device_config, device_state
          oldStatus,             \* dev.device_old_status
          open,                  \* the core's two data endpoints are active
          lastW, buf,            \* USBD_Dev_DS_lastWValue, USBD_Dev_DS_bufTemp
          ram, needsWrite,       \* the pair; USBD_Dev_DS4_NeedsWriteFlash
          flags,                 \* DS4EMU_State
          emu,                   \* how far EMU_USBD_Mode_Current follows _Wanted
          pc, cache, flash,      \* ds4emu_task while saving; the NVM file
          saved,                 \* reports of the controller in the NVM file
          plugged, told,         \* external: a controller is on the host port and has
                                 \* been given the dongle's address
          at, stage, req, knows, \* external: the console on the device port, what it
                                 \* has done, asks for, and was told of its address
          crossed,               \* history: a pair came while another was copied
          woken,                 \* history: called configured by a resume alone
          left                   \* what is left of the bounds

devVars  == <<status, config, ep0, open, lastW, buf>>
pairVars == <<ram, needsWrite, crossed>>
nvmVars  == <<pc, cache, flash, saved>>
hostVars == <<plugged, told>>
consoleVars == <<at, stage, req, knows>>
sleepVars == <<oldStatus, woken>>
vars == <<devVars, sleepVars, pairVars, flags, emu, nvmVars, hostVars, consoleVars, left>>

NoPair == <<None, None>>
Pair(c) == <<c, c>>
Reads == {"ds4", "mfg", "r02"}         \* EMUSTATE_HAS_x of the controller's reports
Steps == {"given", "g1401", "g1402"}   \* EMUSTATE_GIVEN_x
Flags == Reads \cup Steps \cup {"bt", "ps4"}
GetReports == {"get12", "getA3", "get02"}
SetReports == {"set13", "set14"}
Requests == {"address", "config", "unconfig", "idle", "getOther"}
              \cup GetReports \cup SetReports

(* ds4emu_loadState: the controller's data is used when it is complete. *)
Loaded == (IF saved = Reads THEN Reads ELSE {}) \cup (IF flash = NoPair THEN {} ELSE {"ps4"})

Init == /\ status = "default" /\ config = 0 /\ ep0 = "idle" /\ open = FALSE
        /\ lastW = "other" /\ buf = NoPair /\ oldStatus = "default" /\ woken = FALSE
        /\ ram = NoPair /\ needsWrite = FALSE /\ crossed = FALSE
        /\ flags = {} /\ emu = "none"
        /\ pc = "idle" /\ cache = NoPair /\ flash = NoPair /\ saved = {}
        /\ plugged = FALSE /\ told = FALSE
        /\ at \in Consoles \cup {None} /\ stage = "attached" /\ req = "none"
        /\ knows = Unread
        /\ left \in Budgets

Spend(k) == left[k] > 0 /\ left' = [left EXCEPT ![k] = @ - 1]
Keep == UNCHANGED left
----------------------------------------------------------------------------
(* Setup stage.  An interface request of a device that is not configured is
   stalled and leaves endpoint 0 in the setup state, as does SET_CONFIGURATION
   before an address. *)
Stall == ep0' = "setup" /\ UNCHANGED <<status, config, open, lastW, buf>>

SetAddress == /\ status' = "addressed" /\ ep0' = "statusIn"
              /\ UNCHANGED <<config, open, lastW, buf>>

(* USBD_SetConfig for configuration 1, and for 0. *)
SetConfig ==
  \/ /\ status = "addressed" \/ (status = "configured" /\ config # 1)
     /\ status' = "configured" /\ config' = 1 /\ open' = TRUE
     /\ ep0' = "statusIn" /\ UNCHANGED <<lastW, buf>>
  \/ /\ status = "configured" /\ config = 1
     /\ ep0' = "statusIn" /\ UNCHANGED <<status, config, open, lastW, buf>>
  \/ status \in {"default", "suspended"} /\ Stall
ClearConfig ==
  \/ /\ status = "configured"
     /\ status' = "addressed" /\ config' = 0 /\ open' = FALSE
     /\ ep0' = "statusIn" /\ UNCHANGED <<lastW, buf>>
  \/ /\ status = "addressed"
     /\ ep0' = "statusIn" /\ UNCHANGED <<status, config, open, lastW, buf>>
  \/ status \in {"default", "suspended"} /\ Stall

(* USBD_Dev_DS4_Setup.  Report 0x12 tells the console's address as saved in
   flash (ds4emu_isPs4ConnValid). *)
ToldAddress == IF "bt" \in flags THEN flash[1] ELSE None
GetReport(r) ==
  /\ buf' = IF r = "get12" THEN <<ToldAddress, None>> ELSE NoPair
  /\ ep0' = "dataIn" /\ UNCHANGED <<status, config, open, lastW>>
(* A report the device does not know: it prepares to receive. *)
GetOther == ep0' = "dataOut" /\ UNCHANGED <<status, config, open, lastW, buf>>
LastWValueKept(r) == IF r = "set13" THEN "set13" ELSE lastW   \* mutant
LastWValue(r) == IF r = "set13" THEN "set13" ELSE "other"
SetReport(r) == /\ lastW' = LastWValue(r) /\ ep0' = "dataOut"
                /\ UNCHANGED <<status, config, open, buf>>
SetIdle == /\ lastW' = LastWValue("idle") /\ ep0' = "statusIn"
           /\ UNCHANGED <<status, config, open, buf>>

SetupStage(r) ==
  \/ r = "address" /\ SetAddress
  \/ r = "config" /\ SetConfig
  \/ r = "unconfig" /\ ClearConfig
  \/ r \notin {"address", "config", "unconfig"} /\ status # "configured" /\ Stall
  \/ r \in GetReports /\ status = "configured" /\ GetReport(r)
  \/ r \in SetReports /\ status = "configured" /\ SetReport(r)
  \/ r = "idle" /\ status = "configured" /\ SetIdle
  \/ r = "getOther" /\ status = "configured" /\ GetOther
----------------------------------------------------------------------------
(* The console.  It resets the bus, gives an address, sets the configuration,
   and reads report 0x12: "if the PS4's address is wrong, the PS4 will send
   another report to correct it" (usbd_dev_ds4.c).  That it reads the report
   again afterwards is an assumption. *)
OnBus == at # None /\ emu = "on" /\ status # "suspended"

NextRequest == CASE stage = "reset"     -> "address"
                 [] stage = "addressed" -> "config"
                 [] OTHER -> IF knows \in {Unread, at} THEN "get12" ELSE "set13"
Begin(r) == /\ req' = r /\ SetupStage(r) /\ UNCHANGED <<at, stage, knows>>
            /\ woken' = (woken /\ UNCHANGED <<status, open>>)
            /\ UNCHANGED <<oldStatus, pairVars, flags, emu, nvmVars, hostVars>>

Script == OnBus /\ stage # "attached" /\ req = "none" /\ Begin(NextRequest) /\ Keep
OtherRequest(r) == /\ OnBus /\ stage # "attached" /\ req = "none" /\ Begin(r)
                   /\ Spend("faults")
(* It gives a request up and makes another, or starts over. *)
GivenUp(r) == /\ OnBus /\ stage = "configured" /\ req # "none" /\ Begin(r)
              /\ Spend("faults")

(* DCD_HandleUsbReset_ISR and USBD_Reset: device_config and device_state stay. *)
ResetStatusKept == status                  \* mutant
ResetStatus == "default"
BusReset ==
  /\ at # None /\ emu = "on"
  /\ IF stage = "attached" THEN Keep ELSE Spend("faults")
  /\ status' = ResetStatus /\ open' = FALSE /\ woken' = FALSE
  /\ stage' = "reset" /\ req' = "none" /\ knows' = Unread
  /\ UNCHANGED <<config, ep0, oldStatus, lastW, buf, at, pairVars, flags, emu, nvmVars,
                 hostVars>>

(* A request that is stalled, or for which no data ever comes. *)
Stalled == /\ OnBus /\ req # "none" /\ (ep0 = "setup" \/ req = "getOther") /\ Keep
           /\ req' = "none" /\ stage' = "attached"
           /\ UNCHANGED <<devVars, sleepVars, at, knows, pairVars, flags, emu, nvmVars,
                          hostVars>>

(* USBD_DataInStage: the console has the report. *)
DataInStage ==
  /\ OnBus /\ req \in GetReports /\ ep0 = "dataIn" /\ Keep
  /\ ep0' = "statusOut" /\ knows' = IF req = "get12" THEN buf[1] ELSE knows
  /\ UNCHANGED <<status, config, open, lastW, buf, sleepVars, at, stage, req, pairVars,
                 flags, emu, nvmVars, hostVars>>

(* USBD_DataOutStage, EP0_RxReady and USBD_Dev_DS4_DataOut.  The main loop may be
   in the middle of its own read-modify-write of DS4EMU_State, whose store then
   undoes what the interrupt has set. *)
DataOf(r) == IF r = "set13" THEN Pair(at) ELSE NoPair
WantsWriteOnce == needsWrite \/ "ps4" \notin flags   \* mutant: only the first pair
WantsWrite == TRUE
StorePair ==
  /\ ram' = buf' /\ needsWrite' = WantsWrite
  /\ flags' \in {flags, flags \cup {"ps4"}}
  /\ crossed' = (crossed \/ (pc = "key" /\ buf' # ram))
DataOutStage ==
  /\ OnBus /\ req \in SetReports /\ ep0 = "dataOut" /\ Keep
  /\ buf' = DataOf(req) /\ ep0' = "statusIn"
  /\ IF status = "configured" /\ lastW = "set13" THEN StorePair
     ELSE UNCHANGED <<pairVars, flags>>
  /\ UNCHANGED <<status, config, open, lastW, sleepVars, consoleVars, emu, nvmVars, hostVars>>

StatusStage ==
  /\ OnBus /\ req # "none" /\ ep0 \in {"statusIn", "statusOut"} /\ Keep
  /\ req' = "none"
  /\ stage' = CASE req \in {"address", "unconfig"} -> "addressed"
                [] req = "config" -> "configured"
                [] OTHER -> stage
  /\ knows' = IF req = "set13" THEN Unread ELSE knows
  /\ UNCHANGED <<devVars, sleepVars, at, pairVars, flags, emu, nvmVars, hostVars>>

(* A bus without a console is idle, and a console may let it be idle at any time,
   before it has configured the device and in the middle of a request as well. *)
Suspend == /\ emu = "on" /\ status # "suspended"
           /\ IF at = None THEN Keep ELSE Spend("faults")
           /\ oldStatus' = status /\ status' = "suspended"
           /\ UNCHANGED <<config, ep0, open, lastW, buf, woken, consoleVars, pairVars, flags,
                          emu, nvmVars, hostVars>>
(* USBD_Resume overwrites what it has just restored from device_old_status. *)
Resume == /\ at # None /\ status = "suspended" /\ Keep
          /\ status' = "configured" /\ woken' = (woken \/ oldStatus # "configured")
          /\ UNCHANGED <<config, ep0, oldStatus, open, lastW, buf, consoleVars, pairVars,
                         flags, emu, nvmVars, hostVars>>

Move(c) == /\ c # at /\ Spend("moves")
           /\ at' = c /\ stage' = "attached" /\ req' = "none" /\ knows' = Unread
           /\ UNCHANGED <<devVars, sleepVars, pairVars, flags, emu, nvmVars, hostVars>>
----------------------------------------------------------------------------
(* The main loop. *)
Idle == pc = "idle"

(* ds4emu_task: the address goes into the cache, then the key and the CRC of
   what is there; that stores the file; then the request is taken as done. *)
SaveAddress == /\ Idle /\ needsWrite /\ "bt" \in flags
               /\ cache' = <<ram[1], cache[2]>> /\ pc' = "key"
               /\ UNCHANGED <<flash, saved, needsWrite>>
SaveKey == pc = "key" /\ cache' = <<cache[1], ram[2]>> /\ pc' = "flush"
           /\ UNCHANGED <<flash, saved, needsWrite>>
SaveFlush == pc = "flush" /\ flash' = cache /\ pc' = "clear"
             /\ UNCHANGED <<cache, saved, needsWrite>>
SaveClear == pc = "clear" /\ needsWrite' = FALSE /\ pc' = "idle"
             /\ UNCHANGED <<cache, flash, saved>>
Save == /\ SaveAddress \/ SaveKey \/ SaveFlush \/ SaveClear
        /\ UNCHANGED <<devVars, sleepVars, ram, crossed, flags, emu, hostVars, consoleVars>>
        /\ Keep

(* The rest of it: the emulation is wanted once there is a dongle and the
   controller's date was read, then started after 100 ms. *)
MayStartAny == "bt" \in flags              \* mutant: the date not asked for
MayStart == {"bt", "mfg"} \subseteq flags
Switch ==
  /\ Idle /\ Keep
  /\ \/ emu = "none" /\ MayStart /\ emu' = "wanted" /\ UNCHANGED <<status, open>>
     \/ emu = "wanted" /\ emu' = "switching" /\ UNCHANGED <<status, open>>
     \/ emu = "switching" /\ emu' = "on" /\ status' = "default" /\ open' = FALSE
  /\ UNCHANGED <<sleepVars, config, ep0, lastW, buf, pairVars, flags, nvmVars, hostVars,
                 consoleVars>>

MainOnly == /\ Idle
            /\ UNCHANGED <<devVars, sleepVars, pairVars, emu, pc, cache, flash, consoleVars>>

(* btproxy_sub_handler: the dongle works; the controller's link is lost. *)
BtReady == /\ "bt" \notin flags /\ flags' = flags \cup {"bt"} /\ Keep
           /\ MainOnly /\ UNCHANGED <<saved, hostVars>>
BtLost == /\ flags' = flags \ {"g1401", "g1402"} /\ flags' # flags /\ Spend("faults")
          /\ MainOnly /\ UNCHANGED <<saved, hostVars>>

(* USBH_DS4_Init_Handler and USBH_DS4_DeInit_Handler. *)
ForgottenReads == Reads                    \* mutant: what it was given is kept
Forgotten == Reads \cup Steps
Ds4Plugged == /\ ~plugged /\ plugged' = TRUE /\ told' = FALSE /\ flags' = flags \ Forgotten
              /\ MainOnly /\ UNCHANGED <<saved, left>>
Ds4Unplugged == /\ plugged /\ plugged' = FALSE /\ Spend("faults")
                /\ MainOnly /\ UNCHANGED <<told, flags, saved>>

(* USBH_DS4_Task: the one request that is due, when it succeeds.
   EMUSTATE_IS_DS4_BT_CONNECTED is never set, so the last is always made. *)
Needs == [ds4 |-> {}, mfg |-> {"ds4"}, r02 |-> {"ds4", "mfg"}, given |-> Reads \cup {"bt"},
          g1401 |-> Reads \cup {"bt", "given"},
          g1402 |-> Reads \cup {"bt", "given", "g1401"}]
Due(f) == f \notin flags /\ Needs[f] \subseteq flags
AfterRead(f) == flags \cup ({f} \cap Reads)   \* mutant: what was given is not noted
AfterTask(f) == flags \cup {f}
Ds4Task == /\ plugged /\ Keep
           /\ \E f \in Reads \cup Steps :
                 /\ Due(f) /\ flags' = AfterTask(f)
                 /\ saved' = saved \cup ({f} \cap Reads)
                 /\ told' = (told \/ f = "given")
           /\ MainOnly /\ UNCHANGED plugged

(* Power is lost and comes back: RAM is gone, ds4emu_loadState reads the file. *)
Restart ==
  /\ Spend("restarts")
  /\ status' = "default" /\ config' = 0 /\ ep0' = "idle" /\ open' = FALSE
  /\ lastW' = "other" /\ buf' = NoPair /\ needsWrite' = FALSE
  /\ oldStatus' = "default" /\ woken' = FALSE
  /\ ram' = flash /\ cache' = flash /\ flags' = Loaded
  /\ emu' = "none" /\ pc' = "idle" /\ plugged' = FALSE /\ told' = FALSE
  /\ stage' = "attached" /\ req' = "none" /\ knows' = Unread
  /\ UNCHANGED <<flash, saved, at, crossed>>
----------------------------------------------------------------------------
Isr == DataInStage \/ DataOutStage \/ StatusStage \/ Stalled
Main == Save \/ Switch \/ BtReady \/ Ds4Task
Next == \/ Script \/ BusReset \/ Isr \/ Suspend \/ Resume \/ Main \/ BtLost
        \/ \E r \in Requests : OtherRequest(r) \/ GivenUp(r)
        \/ \E c \in Consoles \cup {None} : Move(c)
        \/ Ds4Plugged \/ Ds4Unplugged \/ Restart

(* main() calls the tasks for ever, the dongle starts, requests of the controller
   succeed in the end, and a console goes on with what it has begun. *)
Fairness == /\ WF_vars(Save) /\ WF_vars(Switch) /\ WF_vars(BtReady) /\ WF_vars(Ds4Task)
            /\ WF_vars(Script) /\ WF_vars(Isr) /\ WF_vars(Resume)
            /\ WF_vars(stage = "attached" /\ BusReset)

Spec == Init /\ [][Next]_vars /\ Fairness
----------------------------------------------------------------------------
(* Every variable holds one of its values. *)
Addresses == Consoles \cup {None}
Pairs == Addresses \X Addresses
TypeOK ==
  /\ {status, oldStatus} \subseteq {"default", "addressed", "configured", "suspended"}
  /\ config \in 0 .. 1 /\ open \in BOOLEAN
  /\ ep0 \in {"idle", "setup", "dataIn", "dataOut", "statusIn", "statusOut"}
  /\ lastW \in {"set13", "other"}
  /\ buf \in Pairs /\ ram \in Pairs /\ cache \in Pairs /\ flash \in Pairs
  /\ needsWrite \in BOOLEAN /\ {crossed, woken} \subseteq BOOLEAN /\ flags \subseteq Flags
  /\ emu \in {"none", "wanted", "switching", "on"}
  /\ pc \in {"idle", "key", "flush", "clear"} /\ saved \subseteq Reads
  /\ plugged \in BOOLEAN /\ told \in BOOLEAN
  /\ at \in Addresses /\ knows \in Addresses \cup {Unread}
  /\ stage \in {"attached", "reset", "addressed", "configured"}
  /\ req \in Requests \cup {"none"}

(* The console ds4emu_task would call over Bluetooth is one that has given its
   address and key in one report, or had done so before a restart: never what
   another report left in the shared buffer, and never one console's address
   with another's key unless the second pair came while the first was copied
   into the NVM file. *)
CanCall == {"bt", "ps4"} \subseteq flags /\ flash # NoPair
Sound(p) == p \in {Pair(c) : c \in Consoles}
CallsPaired == CanCall => (Sound(ram) /\ Sound(flash)) \/ crossed

(* A device that says it is configured has its data endpoints open, whatever
   resets, suspensions, given-up requests and moves to other consoles came
   before, until a resume calls one configured that was suspended before it was
   (USBD_Resume), and again from the next reset on, or the next request that
   changes its status or opens the endpoints.  SET_CONFIGURATION need not be one
   of these: after a reset that has left device_config it does nothing. *)
ConfiguredOpen == status = "configured" => open \/ woken

(* A console is answered with the controller's date only when that was read
   from a controller and saved, in this run or one before. *)
ServedSaved == req = "getA3" /\ ep0 = "dataIn" => "mfg" \in saved

(* What the host driver believes to have told the controller, the controller
   that is plugged in now was told. *)
ToldTrue == plugged /\ flags \cap Steps # {} => told

(* The console that stays is the one whose address is saved in the end, with its
   own key, although the interrupt may replace the pair while the main loop
   saves it, or set the request to save just before the main loop clears it. *)
Corrected ==
  \A c \in Consoles : <>[](at = c /\ emu = "on")
    => <>[](flash[1] = c /\ (flash[2] = c \/ crossed))

(* A controller that stays plugged in is read, given the dongle's address and
   told to connect. *)
Introduced == <>[]plugged => <>[]({"g1401", "g1402"} \subseteq flags)
============================================================================
