# UsbXlater firmware: a TLA+ verification project

UsbXlater is an STM32F2/F4 board that sits between USB devices and a USB host:
it is a USB host on the OTG_FS core (root port, hubs, HID, Bluetooth dongle), a
USB device on the OTG_HS core (a CDC serial port, or an emulated DualShock
controller), and translates between the two.  There is no operating system.
`main` is one cooperative loop, `while (1) { USBH_Process(...); ds4emu_task(); }`,
and everything else happens in interrupt handlers (1 ms tick, host core, device
core, USART).

## 1. Inventory

Paths are relative to `src/UsbXlater_FW/`.

| component | source | state | operations | what makes it correct |
|---|---|---|---|---|
| host channel pool | `usbh_lib/usbh_hcs.c`, `usbh_dev/usbh_dev_manager.c` | `host.channel[]`, `host.hc[]`, index variables of the holders | open, modify, free, free all, `AllocControl`, `FreeControl` | no channel has two holders, no stale index, every used channel can be given back |
| DevIO | `usbh_dev/usbh_devio_manager.c` | list of `USBH_DevIO_t` with a 6-state machine each | new, remove, unplug, task, blocking control request | every packet delivered once, toggle in step, request always ends |
| host channel interrupts | `usbh_lib/usb_hcd_int.c`, `usb_hcd.c`, `usbh_ioreq.c` | `URB_State[]`, `HC_Status[]`, `ErrCnt[]`, toggles | submit, in/out channel ISR | the URB state reported is the one of the request outstanding |
| control transfers | `usbh_lib/usbh_core.c` (`USBH_HandleControl`), `usbh_ioreq.c` (`USBH_CtlReq`) | `Control`, `RequestState`, `gState`, `gStateBkp` | 12-state machine polled by the main loop | each request ends with exactly one status, the saved state is restored |
| host core and enumeration | `usbh_lib/usbh_core.c` | `gState`, `EnumState`, address bitmap | `USBH_Process`, `USBH_HandleEnum` | one device at address 0, unique addresses, error and retry paths end |
| hub driver | `usbh_dev/usbh_dev_hub.c` | `children[]`, `port_busy`, port status | status data handler, task, enumeration done | a plugged device is enumerated, an unplugged one is freed, one port at a time |
| HID driver | `usbh_dev/usbh_dev_hid.c` | parsed descriptors, endpoints | enumeration done, task, report handlers | |
| DualShock driver | `usbh_dev/usbh_dev_dualshock.c` | `EMUSTATE_HAS_x`, `EMUSTATE_GIVEN_x` | init, task (six control requests), de-init | what it believes to have read and written is true of the controller that is plugged in |
| USB device core | `usbd_lib/*` | `device_state`, `device_status`, EP0 state | reset, setup, data in/out, status, suspend, resume | EP0 stages follow the request; a configured device has its endpoints open |
| CDC serial, VCP, USART | `usbd_dev/usbd_dev_cdc.c`, `vcp.c`, `cereal.c`, `ringbuffer.h` | ring buffers, in-flight flags | push and pop from loop and interrupts | bytes in order, none lost or repeated while there is room, transmitter never stuck |
| NVM file store | `flashfile.c` | one flash sector with a file and its most-recently-used word, RAM cache | start-up, update, flush, write MRU | the file and the MRU found at start-up are those stored last |
| Bluetooth transport and proxy | `usbh_dev/usbh_dev_bt_hci.c`, `btstack/hci_transport_stm32usbh.c`, `btproxy.c`, `run_loop_btproxy.c` | one shared packet buffer, 19-step init machine | packet handler, run loop, task | the buffer is not written while it is sent, init reaches the end |
| Bluetooth stack (third-party) | `btstack/src/hci.c`, `l2cap.c`, `l2cap_signaling.c` | command and ACL credits, connections, channels, signalling answers | events, `hci_run`, `l2cap_run`, timers | buffers of the dongle not overrun, credits come back |
| DualShock emulation | `ds4_emu.c`, `usbd_dev/usbd_dev_ds4.c` | Bluetooth handles and channels, five packet queues, console's address and key (RAM, NVM) | `ds4emu_task`, `btproxy_sub_handler`, class requests | what it believes of the radio is so, console called in the end, reports fresh and passed on, the pair called with is one console's |
| pass-through, keyboard/mouse translation, other emulations | `usb_passthrough.c`, `kbm2c/*`, `usbd_dev/usbd_dev_ds3.c` | report images, request queue | tasks, control handlers | |
| start-up, LEDs, debug | `main.c`, `led.c`, `utilities.c`, `stm32fx/*` | | | |

### Interaction

* The main loop calls `USBH_Process(root)`; a hub's task calls `USBH_Process`
  for each child, and a class driver's task calls `USBH_DevIO_Task` on its
  endpoints.  A data handler runs inside that call, and may itself issue a
  blocking control request.
* Host interrupts communicate with the loop through `URB_State`, `HC_Status`
  and the toggle bits of the channel, with no lock.
* Of everything `main` starts, its loop serves the host side and the DualShock
  emulation only.  The emulation's mode can become `EMUUSBDMODE_DS4` and nothing
  else (what would choose another one follows a `return`, `ds4_emu.c:177`), so the
  serial port, the pass-through and the other emulations are never started.
* A dongle's events and packets reach `btproxy_packet_handler`, from there the stack
  (`hci.c`, `l2cap.c`), and from there `btproxy_sub_handler`; packets go back through
  the one `hci_packet_buffer`.  The dongle's task polls nothing while an ACL packet is
  being sent, and a command is a blocking control request.
* The device core's interrupt and `ds4emu_task` share the console's address and key,
  `USBD_Dev_DS4_NeedsWriteFlash` and the word `DS4EMU_State`, with no lock.

### What is hard

Interrupts between any two statements of the loop; channels lent from one
endpoint to the next while a halt is outstanding; toggles that must agree with
a device that cannot be seen; several state machines nested in one another
(enumeration inside control transfers inside hub handling); retries and
timeouts; unplugging at any point; power loss during a flash write; two Bluetooth
links, each with two channels that may be refused, time out or be lost in any order
while the emulation keeps its own picture of them; an interrupt that replaces the
console's key while the loop saves it.

## 2. The modules

Each module's comments name the functions it models; `PROJECT.json` maps every
definition to its lines.  Mutated forms of a definition (an operator named after
it, commented "mutant") stand before it: they are what each property is tried on.

### HostChannels, VirtualEndpoints

`HostChannels` is the pool of host channels (`usbh_hcs.c`) with everybody who
takes channels from it.  `pool` holds the `HC_USED` bits, the toggle bits, whether a
transfer submitted since `USB_OTG_HC_Init` may still end (`armed`), every holder's index
variable and the toggles that endpoint objects save when they give a channel back.  The
pool operators (`GetFreeChannel`, `OpenChannel`, `FreeChannel`) are the functions of
`usbh_hcs.c`; the actions are the calls that use them: a blocking control request begins
and ends (it allocates two channels if the device has none), an endpoint object is
created, its task opens a channel, submits, frees after an error or at the end, a device
behind a hub goes, a device reaches `HOST_ERROR_STATE`, the root device goes.
`hasError` is `hc_has_error`; `DynamicHc` is what a driver passes for `hc_as_needed`.

The DevIO list is modelled with its flaw.  `live` are the objects a driver has; `list`
are the objects on the list and `after[e]` those that `e`'s `next_node` leads to.
`USBH_DevIO_Manager_Remove` unlinks an object only from the one before it, so the head,
the newest object, is freed and stays: it is in `list` and not in `live`, and every
blocking control request runs it (`Runs`).  It may open a channel, submit, and be found
by the next unplug, or its memory may be handed out for a new object (`NewEp`, which then
loses what was behind it).  Its memory being used for anything else ends what is modelled
(`Overwrite`).  `harm` remembers whether the pool has been reset under such an object.

`VirtualEndpoints` says what an endpoint may rely on: its data toggle starts at 0, moves
when it submits a transfer, at most once when a transfer of the present loan ends, and
when a reported toggle error is repaired as the loan is over, and never otherwise;
a loan starts with nothing under way (`Borrow`), so an interrupt that an earlier holder
left behind cannot move it.  `HostChannels` implements it under the mapping "the toggle is
in the channel while there is one, else in the saved copy; a transfer is under way when
the channel is armed" (`ImplementsVirtual`), until there is harm.

### DevIOPipe

One endpoint: the six states of `USBH_DevIO_Task`, the request functions of
`usbh_ioreq.c`, the IN and OUT interrupt handlers of its channel, and the device's
half of the toggle protocol.  The task samples `URB_State` in one step and acts on
it in the next, because an interrupt fits in between; a NAK or an error is two
interrupts (the cause, then `chhltd`), and so two steps.  Where the channel is lent
per request, `LentToOthers` leaves whatever `HC_Status` another endpoint left.
Packets are numbered; `got[k]` counts how often packet k was handed over.  The
device repeats a packet whose acknowledgement was lost and drops a repeated one,
as USB 2.0 says.  An OUT request keeps the packet it was submitted with (`buff`), also
when the task has given it up and is at the next one.  An endpoint is a record: its kind, whether its channel is lent, and
which faults its bus has, at most how many.  Interrupt OUT endpoints are excluded by
assumption, since no driver creates one (`EndpointsAssumption`).

### ControlTransfer

Control requests to one device: `USBH_CtlReq` polled by the enumeration,
`USBH_CtlReq_Blocking` called by class drivers, the stage machine
`USBH_HandleControl`, and the two channels.  A step is one call; interrupts, late
answers and the millisecond tick come between any two.  `late` stands for the timer
of the stage, `done` is the set of requests whose status stage the device has been
through.  The toggles of control pipes are not tracked: each stage sets its own.

### HubPorts

Hubs with ports, from the interrupt packet that says "something changed" to the
device in its driver's hands: `USBH_Dev_Hub_DataHandler` port by port (the status is
read in one step and acted on in the next), the child's states in `USBH_Process`,
the enumeration in three stages (`GetDescriptor`, `SetAddress`, `Configure`), the
address table, and outside the code the ports and what answers to which address.
Hubs stay; the root device's own states and the delays' timers are left out.
`Faults` says what may go wrong: a device replugged before its port was looked at
(`hasty`), a status packet for a change already handled (`stale`), a failing status
request, port reset, enumeration or class driver.

### FlashFile

The NVM file in its sector (`flashfile.c`), byte by byte.  A call becomes its list
of flash operations (`work`), each of which happens, fails for good, or is cut off
by a loss of power.  The sector is an array; programming a byte that is not blank
gives `Junk` unless it is programmed to zero; a word can only be programmed at a
word's address.  A word has `W` bytes and the contents `L`.  A byte is a sequence, so that a byte
of the CRC can be the contents it stands for: the CRC tells all contents apart and
resembles no other byte (`Crc`).  Also abstracted: an erase happens or does not; the next
sector is blank; the first file is all zeros.  `saved`, `tried`, `mode`, `torn` and `slid` only observe.

### HciCommand, HciLink, L2cap, Ds4Bridge

Four modules, each extending the one before.  `HciCommand` is the start-up of the
dongle: `hci_run` with its substates, the project's nineteen custom steps
(`btproxy_init_cmd`), one command buffer, and answers that can be spurious (a status
for no command).  `HciLink` has the links (`hci_connection_t`): what `hci_run` has to
do for each is kept in flags and done one command at a time, in the order of `Order`;
ACL packets are counted.  `L2cap` has the two HID channels of each peer, the answers
to signalling requests, and what `l2cap_run` sends next.  These three mostly hold
what an event does to a link or channel; `Ds4Bridge` makes actions of them, together
with `btproxy_sub_handler`, `ds4emu_task`, the queues of packets, and the peers and
the dongle.  An action is one event or packet, one call of the run loop, or one part
of `ds4emu_task`.  The controller always pages the dongle, the dongle always pages the
console, so `pending` (the emulation waits for the console) has one cause.

Abstracted: the key is stored and valid, `malloc` succeeds, a channel is named by peer
and PSM (a peer has one of each), one completed packet per event, `PENDING` results are
not sent, whether a report comes too fast for the rate limiter is open.  A behaviour
ends (`dangling`) where a channel is freed with its timer still in the run loop, since
the timer then works on freed memory.

### Ds4Usb

How the emulation comes to know its console: the device core's endpoint 0 and states,
one action an interrupt; the class requests of the emulated controller; the host
driver that reads a real controller, gives it the dongle's address and tells it to
connect; the part of `ds4emu_task` that switches the device to the emulation and
saves the pair of address and key in four steps (`pc`) between which the interrupt
comes.  A console stands for its address and for its key, so a mixture of two can be
seen.  A console may suspend and resume the device whatever state it is in; `Resume` makes
it configured, as `USBD_Resume` does after restoring `device_old_status` (`oldStatus`), and
`woken` remembers that nothing else did.  A store by the main loop to `DS4EMU_State` may undo the interrupt's (both
outcomes are in `StorePair`).  Consoles are exchanged, controllers replugged, power is
lost (`Restart`).  That the NVM file is stored as a whole is `FlashFile`'s subject.

## 3. What is checked

| run | question | result |
|---|---|---|
| `channels` | a hub, a device behind it and two endpoint objects compete for three channels, with unplugging at any point, late interrupts, and freed objects that are still run | until the pool is reset under a freed object or one is overwritten: no channel has two holders, no holder a freed one, and no loan, late interrupt or freed object disturbs an endpoint's toggle |
| `channel_leak` | does a used channel always have a holder that can free it? | no: `USBH_DeInit` resets the control indices of a device and its channels stay used |
| `pipe` | five kinds of endpoint, three packets, up to three faults | nothing lost or repeated under the faults the endpoint can make good, at most one packet per fault otherwise; it never gets stuck |
| `pipe_wedge` | a bulk IN endpoint, one lost acknowledgement | one fault loses packet after packet (`FaultCost` is violated): the inversion of the saved toggle after a toggle error, right for interrupt endpoints, puts a bulk endpoint (whose saved toggle is otherwise inverted only on completion) out of step again each time, so every later packet is discarded |
| `control` | polling callers, blocking callers with refusals, blocking callers with every fault | OK means done, also with answers left over from a timed-out attempt; every request is answered; the device's task runs again |
| `control_stall` | the enumeration of a device that refuses a request | never answered: the stage machine returns `USBH_STALL` and leaves its state as it was, nobody looks at the value, and the caller polls for ever |
| `hub` | two ports, four plug-ins, every fault | one device of a hub at address 0; addresses unique, owned and never lost; each device served in the end |
| `hub_nested` | a hub behind a hub | two devices at address 0: `port_busy` is per hub |
| `flash` | four calls, two losses of power, one failing operation, room for three files | no mixture passes for a file; the file and MRU in use are those stored last, also after a restart |
| `flash_crash` | power is lost in the middle of storing a file | no file is left: the old one is destroyed first |
| `bridge` | controller and console over one dongle: start-up, links, channels, reports, with refusals, timeouts, losses and spurious answers | the start-up ends and knows what the stack needs; no buffer of the dongle or of the stack is overrun or overwritten; handles, channels and the wait for the console agree with the radio; the console is called until both channels are open; reports are passed on once and fresh |
| `console` | two consoles and replugged controllers on the two USB sides, with unfinished requests, bus resets, suspensions and restarts | the address and key called with are one console's; endpoints open when configured, except by a resume; nothing of an earlier controller is taken for the present one's; the console that stays is saved, and a controller that stays is introduced |

The five violations are the findings of `PROJECT.json`, each with the comment it
contradicts.

### Bounds, and why they are enough

* `channels`: three channels are fewer than the two pairs of control channels and
  two endpoints ask for, so every open can fail; two devices, one behind the other,
  give both ways of unplugging, and the hub opens its endpoints' channels as needed while
  the device keeps them.  Two endpoint objects make a list with a head that stays and an
  object behind it that is unlinked or lost; either may belong to either device.  With
  only one channel for data endpoints every loan reuses the last one's.  Of the states
  TLC compares only what can still matter (`MCView`): not the toggle of a channel that no
  driver's endpoint has (opening clears it before it is read), not the end of transfers on
  channels 0 and 1 (which endpoints cannot have, `ControlReserved`), and not the contents
  of objects that nobody has and that are not on the list (`NewEp` sets them).
* `pipe`: three packets use both toggles and come back to the first; two retries
  instead of five reach "none left" sooner; two or three faults can hit one packet
  repeatedly or two packets in a row.  `hc_as_needed` is on for interrupt endpoints
  and off for bulk ones, as the drivers create them.
* `control`: two requests are needed for one to disturb the next; `MaxErrorCount` is
  the code's 2, `TotalErrLimit` is 1 instead of 16, so that a device can be given up.
* `hub`: two ports are the fewest that can interfere; four plug-ins and addresses let
  a device come, go and come again on both.  `hub_nested` has one port on each hub.
* `bridge`: two ACL buffers are fewer than the three channels that send at once ask for,
  and a queue of two with a count modulo four overruns and wraps with five packets
  (`CountMod` is 256 in the code, a multiple of the size there too).  A behaviour has one
  of seven budgets: faults of the controller's side, of the console's, spurious answers,
  reports of one queue or of all, and mixtures of a fault with reports.  Two faults of
  the controller's side, one of each side, and two shared ones were checked too and pass,
  but take minutes longer.
* `console`: two consoles are what a mixture needs; three moves bring the first one back.
  Faults (unfinished or unexpected requests, suspension, unplugging) and restarts are
  combined in pairs.
* `flash`: words of two bytes and 28 bytes keep what matters: a file that is a whole
  number of words, room for a few, an odd address between two words, an end of the
  sector that both searches reach.

### Fairness

The only scheduler is the loop in `main`: it calls every task again and again, so
every step of a task that stays enabled is taken (weak fairness).  Strong fairness
is used in three places where what a task may do is switched off and on again by
something else: a hub's turn and its ports (the loop comes back to each hub and
each child however often another port interrupts), a request for a channel or a
port's status that can be refused but not for ever, and an answer of the device,
which may be slow or NAK but is not refused for ever.  Nobody has to plug in a
device or issue a request.  Time passes: a timer that runs out is noticed.
In `bridge` the run loop, each part of `ds4emu_task`, the dongle's answers and the
peers' answers are fair, and an idle link of the console is noticed; that a controller
pages, that a report comes and that anything fails is left to chance.  In `console` the
tasks, the interrupts of a transfer under way and a console's next request are fair.

### Conditions in the properties

A property is stated where it holds, and the condition is in the property where the
reader sees it.  What happens outside the condition was tried and is written down:

* `Exclusive`, `Backed`, `ImplementsVirtual`: while `harm` is "none".  Besides memory that is
  overwritten, one thing does harm, and without the condition TLC finds it: the head of
  the list is freed, opens a channel, keeps its index while the root device goes and
  `USBH_DeAllocate_AllChannel` offers the channel again, and, run by the first control
  request of the next device, programs a channel that was given to that device.  That
  freed objects open channels, move their toggles and are unplugged again breaks nothing.
* `ExactlyOnce`: only on a bus with the faults in `Harmless`.  A bulk OUT endpoint
  whose request times out can take a stale `HC_XFRC` for success; an interrupt IN
  endpoint loses a packet after a transaction error, an overrun or a timeout.
* `LossBounded`, `PidInSync`: with the faults in `Bearable`, which are all of them for
  interrupt and OUT endpoints.  A bulk IN endpoint stays out of step with its device
  after a lost acknowledgement or an overrun, and, if its channel is lent, after a late
  answer, since whatever `HC_Status` another endpoint left decides what is made of it.
  `PidInSync` is about bulk IN only; interrupt endpoints are re-synchronised by a toggle
  error, at the price of a packet.
* `Answered`, `TaskRunsAgain`, `StatusMeansOver`: see `Clean` and the clients of
  `MCControlTransfer`.  A polled request whose OUT stage has one transaction error is
  never answered; a blocking call that follows a failed one can leave the device in
  `HOST_CTRL_XFER`; an error can be reported while a retry is still to come.
* `PortServed`: only failing status requests.  An enumeration that fails leaves
  `port_busy` set and the hub never polled again; a port reset that fails does the
  same; a device replugged while another port is busy is taken for gone.
* `UniqueAddress`: not after a driver was given up (`taskFails`), which frees the
  address of a device that still answers to it.
* `Bridging` makes four exceptions, all of which happen: the controller has left; one
  channel of the console is open and the other was refused or closed, which nobody
  repairs (`HalfOpen`); every ACL buffer was lost, because a link that goes takes the
  packets the dongle held for it along, uncounted (`Starved`); a freed timer is still in
  the run loop (`dangling`).  `Drained` has the last two.
* `ConfiguredOpen`: not from a resume of a device that was suspended before it was
  configured to the next reset or request that changes its status or opens the endpoints
  (`woken`).  Without the condition TLC finds reset, suspend, resume.  The console's
  SET_CONFIGURATION repairs it only while `device_config` is 0: once it has been 1 a reset
  keeps it, so after reset, SET_ADDRESS, suspend, resume `USBD_SetConfig` finds a
  configured device with the right configuration, sends the status and opens nothing
  (`usbd_core.c:383-384`, `usbd_req.c:612-615`).
* `CallsPaired`, `Corrected`: a copy into the NVM file that the interrupt crosses can hold
  one console's address and another's key (`crossed`), and it does.
* `CallsPaired` says whom the emulation would call, not that it calls: the flag
  `EMUSTATE_HAS_PS4_BDADDR` can be lost to an unlocked store, and comes back with the next
  report or restart.
* `FileKept`, `ModeKept`, `NeverOverprogrammed`: until `flashfile_findMru`, which
  looks at every byte, finds an MRU beside its word.  That takes one change of mode
  and a restart; from then on old files cannot be destroyed and an old one may be
  found.  `flashfile_writeMru` has no caller besides `flashfile_init` yet, but a loss
  of power is not needed for it to happen once it has.

### Hazards without a property

`PROJECT.json` lists the hazards the properties are for.  These are real too, but no
property reaches them:

* `usbh_devio_manager.c:436`: a stale `HC_XFRC` makes a success of the timeout of a bulk
  OUT request; outside `Harmless`.
* `usbh_devio_manager.c:497`: a blocking request runs other endpoints' tasks from inside a
  handler; in `HostChannels` the tasks of a list take turns, and `DevIOPipe` has one endpoint.
* `usbh_devio_manager.c:124`: what the use of a freed object does to other users of the heap.
* `usbh_core.c:950`: the error count of a device only grows, so after three errors in its
  life nothing is retried.
* `usbh_dev_hub.c:154`: `DeviceDisconnected` gets the hub's device instead of the child's;
  `:182`: a device replugged while another port is busy is taken for gone (`hasty`).
* `hci_transport_stm32usbh.c:123`: events and ACL data share one read timestamp.
* `flashfile.c:166`: the search for an MRU tries every byte (see the conditions above).
* `l2cap.c:702`: a failed connection is looked up by handle as well as by address;
  `l2cap.c:664`: without memory a dummy channel is used by all.
* `usbd_dev_ds4.c:399`: an unknown GET_REPORT is neither answered nor refused (`GetOther`: the
  console waits until it gives up).
* `usbd_dev_ds4.c:452`: a SET_REPORT to an interface other than 0 is received into the shared
  buffer without setting `lastWValue`, and after a pairing report that was given up its data
  would be taken for one.  Only a host that addresses an interface the device does not have
  sends it, so it is not among the requests of `Ds4Usb`.
* `usbd_dev_ds4.c` and `ds4_emu.c`: a console that comes back after another one finds RAM
  and flash disagreeing until it sends its pair again; `EMUSTATE_IS_DS4_BT_CONNECTED` is
  tested and never set.
* Not reached by the present loop: `usbd_dev_cdc.c:370` overruns an unread FIFO;
  `ringbuffer.h:174` copies an item before it disables interrupts.

## 4. What is proved

Every invariant and every action property of the passing runs is a theorem, and so is the
refinement `ImplementsVirtual`.  The theorems hold for any number of
devices, endpoints, channels, hubs, ports, addresses and consoles, any sizes of words,
sectors, files, buffers and queues, and any bound on faults.  Behind each stands an
inductive invariant, which TLC checked on the run before it was proved.

* `HostChannels_proofs`: `TypeCorrect`, `ChannelsExclusive`, `ChannelsBacked`,
  `ChannelsReserved`.  Exclusive ownership alone is not inductive: opening takes an
  unused channel, and one needs to know that whoever holds a channel has it marked
  used (`PoolBacked`).  `PoolInv` joins the two and has two parts: what holds always, and
  what holds until there is `harm`.  Freed objects that are still run are holders like any
  other, so the steps they take are those of `Request`, `Submit` and `Finalize`.  Each pool operator has a lemma that it preserves the invariant
  and what it leaves alone; an action then is a composition of lemmas.
  `LendingInvisible` is the refinement: the initial states map to initial ones, and each
  action is shown to be, for the abstract toggles, one of the steps of `VirtualEndpoints`
  or a stutter, or to be harmful.  An interrupt is the end of a transfer of the one live
  endpoint whose channel it is, or a stutter when that channel is nobody's or a freed
  object's; that takes exclusive ownership, and that opening a channel disarms it
  (`OpenToggles`).  A toggle error is only remembered of an endpoint with a channel
  (`FaultInv`): else the next loan would begin with a repair that is not its own.
* `DevIOPipe_proofs`: `PipeTypeCorrect`, `PacketsExact`, `PidsInSync`, `LossesBounded`.  Which packet
  the next request carries depends on a toggle that is in the channel, in the copy saved by
  `FreeChannel`, or in the request under way, inverted or not yet, and wrong until a pending
  repair (`NextToggle`, `Repaired`).  `InInv` and `OutInv` list the few situations host and
  device can be in between a request and its end (`InBus`, `OutBus`): in step with the
  packet still to come, or one behind with the packet there and its acknowledgement lost.
  `PidInv` is the weaker statement that survives answers after a timeout.
  With any fault at any time no such list exists, and `LossesBounded` counts instead: a
  fault happens in one request and the packet is lost one or two requests later, so
  what the faults so far may still cost is counted along (`IntrDue`, `OutDue`,
  `RepeatDueIn`, `RepeatDueOut`).  The losses and what is due never exceed the faults:
  a step adds to what is due only with a fault (`IntrCost`, `OutCost`), and a packet is
  lost or repeated only as one that was due is struck off.  An OUT request given up while
  it is still on the bus carries the old packet (`Old`), and may yet make good its loss.
* `ControlTransfer_proofs`: `ControlTypeCorrect`, `OkIsDone`, `StatusIsFinal`.  `OK` means done
  because the host is never ahead of the device (`Begun`), and it is not because a stage is
  only over when its channel shows it since it was armed (`ArmedInv`): a leftover `DONE` of
  the attempt before would carry the host past a stage.  `StatusIsFinal` treats the two kinds
  of caller apart: one that polls is never in a transfer it does not poll for
  (`PollingInv`), one that blocks and meets no error always knows where the device is
  (`PatientInv`).
* `HubPorts_proofs`: `HubTypeCorrect`, `OneDeviceAtZero`, `NoAddressLost`, `AddressUnique`,
  `OwnDeviceOnly`.  "One device at address 0" needs that the port at address 0 is the busy
  one (`ZeroInv`), which needs that a port in reset is (`ResetInv`), and, because the handler
  acts on a status it read earlier, that meanwhile no other port of the hub became busy
  (`SeenInv`).  The addresses need the other direction as well: an address in the table has
  exactly one child (`Owned`, `Marked`).  The last two theorems are about one hub
  (`SingleHub`), as with two a SET_ADDRESS may reach the wrong device (`hub_nested`): a device
  that listens was given its address by its own child or by one that was abandoned, whose
  port then stays busy for ever (`OwnInv`, `HeldInv`), so the address is not given again.
* `FlashFile_proofs`: `TypeCorrect`, `FilesWhole`, `BlankProgrammed`, `StoredFileKept`,
  `BootModeKept`.  `TypeInv` holds whatever fails: every operation of the list stays in the
  sector, and every byte of a CRC is that of contents some call meant to store.  With that,
  what passes for a file has contents some call meant to store (`FilesWhole`), however calls
  were cut short.  `StoreInv` says what the sector holds at each point of a call, as long as
  no operation failed by itself and no start-up took bytes beside an MRU for one: the part
  written of the file under way, only zeros between it and its MRU, nothing behind, and no
  byte below that could begin a file (`Stored`, `FileWork`, `MruWork`).  `Rest` is what is
  left of it after a loss of power: no file, or one that is whole.  Both searches of the
  start-up then find exactly that file and that MRU; a search for the lowest offset is
  handled by `Least`, that a set of offsets has a lowest one, proved from the well-foundedness
  of finite sets since induction is out of the prover's reach.
* `Ds4Bridge_proofs`: `BufferSafe`, `ResetKept`, `RadioTrue`, `WaitHasCause`.  The buffer is safe
  because each of the places that send asks the transport first; the proof goes through all
  of them.  `ResetKept` needs to know what is outstanding at each of the first steps
  (`ResetInv`).  The last two hold together or not at all (`BridgeInv`): that the wait for
  the console always ends needs that nothing else frees the channel that waits (`Waiting`,
  `PendingExact`, `CallPending`), hence that its timer is not armed; that a known channel is
  open needs that a channel beyond the wait is on a link (`OnLink`) and that no known
  channel has its timer armed (`CidSettled`); and asking for the console's second channel
  when the first opens overwrites nothing because the second is not in use then
  (`SecondAfterFirst`).
* `Ds4Flow_proofs`: `KnownWhenReady`, `NothingStale`, `BuffersCounted`, `BridgeTypeCorrect`.  The
  start-up asks for three facts early, and spurious status events may end its waits before
  the answers come; but the dongle answers in order, so a fact not known yet has behind it
  in the queue all the commands sent since (`Catching`).  Eighteen are sent after the last
  question, so a dongle that can queue no more has answered before the stack works:
  `KnownWhenReady` assumes `CmdSlots <= 18`, and would be false without.  `BuffersCounted` needs only that the links' packets are in the total (`AclInv`).
  `NothingStale`: a slot of a ring holds the newest packet whose number is congruent to it
  (`Newest`), which is why an overrun loses the oldest and repeats none.
* `Ds4Usb_proofs`: `TypeCorrect`, `EndpointsOpen`, `DateServedSaved`, `ControllerTold`,
  `CalledPaired`.  That endpoints are open when configured, but for a resume, needs the
  same of a suspended device whose saved status is "configured" (`DeviceInv`).
  That the date served is a saved one needs that the flags say no more than
  was saved (`SavedInv`).  That a pair is one console's needs it of the shared buffer
  between setup and data stage, of the RAM copy, of the cache between its two writes, and
  of the flash (`PairInv`).

Assumptions are the named ones on constants in each module, and those in the statements
above (`CmdSlots`, `SingleHub`), and nothing else.

Model-checked only: everything that has to happen in the end (`Served`,
`Answered`, `TaskRunsAgain`, `PortServed`, `Bridging`, `Drained`, `InitDone`, `Corrected`,
`Introduced`), which the prover cannot express.

## 5. Assumptions about what is outside

* A device acknowledges a repeated packet and ignores it, and a SETUP packet
  restarts its control endpoint (USB 2.0).
* `USB_OTG_HC_Init` stops what is under way on a channel: it clears the channel's interrupt
  flags and enables its interrupts anew, and nothing an earlier holder submitted is heard
  of after it.  The halt of a channel that is kept finishes before it is used again, and
  the end of a transfer inverts the toggle at most once.
* Of the firmware after a freed endpoint object was overwritten nothing is said.
* The STM32F4's flash refuses a word at an odd address, and a byte programmed twice
  is of no use unless it was programmed to zero.
* The hub's handler and the processing of its children run in one thread (they do:
  both are called from the loop).  A blocking request runs other endpoints' tasks from
  inside a handler (`USBH_DevIO_Task(0)`); that nesting is not modelled.
* The dongle answers commands in order, announces one free command at a time, and tells
  the outcome of a command after its status.  A failed connection carries handle 0.
  A link it has reported as closed is closed: a DISCONNECTION_COMPLETE with an error status,
  by which it would refuse an `HCI_Disconnect`, is not modelled (`hci.c:841` would keep the
  link while `l2cap.c:790-805` and `ds4_emu.c:371-389` forget its channels).
* A console has one key.  It reads report 0x12 and corrects a wrong address there ("the PS4
  will send another report to correct it", `usbd_dev_ds4.c:383`).  That it reads the report
  again after that, for as long as its address is not there, is our assumption, and
  `Corrected` rests on it: a pair that is lost between the interrupt and the saving is
  replaced only because the console comes back.
* A console wakes a device that it has suspended, or resets it.
* Compile options as committed: STM32F4, `HUB_HAS_RESET`, channels lent per request
  for hubs and HID, owned by the Bluetooth dongle's endpoints.

## 6. Not modelled, and the plan

Modelled since the first version of this plan: the Bluetooth start-up, links and bridge,
and endpoint 0 with the DualShock emulation on top of it.  Left, in this order:

1. Tasks of the DevIO list that run inside one another, composed with `DevIOPipe`.
2. Putting Bluetooth packets together from two pipes with one timestamp.
3. The HID driver's order of requests; keyboard and mouse translation as operators checked
   against a reference definition.

Not modelled because the present firmware never starts it: the serial port (CDC, VCP,
USART), the pass-through, the DualShock 3 emulation, and the use of keyboard and mouse in
the emulation.  Not modelled because it is data: descriptors, report images, service
records.  Pairing is left out: the emulation works with keys that were stored over USB.
Start-up, LEDs, debug output and watchdog have no state that the rest depends on.
`stm32f2`, `stm32f4`, `cmsis`, `uBCSP` and the register layer `usbotg_lib` are
third-party and appear, where at all, as the external side of the modules above; so does
most of `btstack/src`.  They are the larger part of the repository's lines, most of them
register definitions, so the modules cover a small share of the lines and most of the
control of the program proper.
