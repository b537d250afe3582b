---------------------------- MODULE HostChannels ----------------------------
(***************************************************************************)
(* Ownership of the host controller's channels: usbh_hcs.c (the pool), the *)
(* control-pipe part of usbh_dev_manager.c, the list of endpoint objects   *)
(* and the open/free part of usbh_devio_manager.c, and the places in       *)
(* usbh_core.c and usbh_dev_hub.c that drop or reset channels when a       *)
(* device goes away.                                                       *)
(*                                                                         *)
(* A channel is lent to a holder: one of the two control pipes of a device *)
(* (Control.hc_num_in / hc_num_out) or an endpoint object (USBH_DevIO_t.hc)*)
(* The pool is one record so that a handler that opens or frees several    *)
(* channels is a composition of the pool operators:                        *)
(*   used[c]   the HC_USED bit of host.channel[c]                          *)
(*   tgl[c]    the data toggle of host.hc[c] that the holder's direction   *)
(*             uses                                                        *)
(*   armed[c]  a transfer was submitted on c since USB_OTG_HC_Init, whose  *)
(*             end may still invert the toggle                             *)
(*   idx[h]    the holder's index variable, -1 when it has no channel      *)
(*   saved[e]  USBH_DevIO_t.hc_toggle_in/out, -1 when never saved          *)
(*                                                                         *)
(* Unplugging frees the endpoint objects of a device, but the object at    *)
(* the head of the list is freed without being unlinked: it is run again   *)
(* by USBH_DevIO_Task(0), from freed memory.                               *)
(***************************************************************************)
EXTENDS Integers

CONSTANTS Devs,        \* device structures (root device, children of hubs)
          Root,        \* the root device
          Eps,         \* addresses an endpoint object can have
          Subtree,     \* Subtree[d]: d and the devices attached below it
          DynamicHc,   \* DynamicHc[d]: the values of hc_as_needed that the
                       \* driver of d gives its endpoints
          HC_MAX       \* number of host channels of the core

ASSUME HCMaxAssumption == HC_MAX \in Nat
ASSUME SubtreeAssumption == /\ Root \in Devs
                            /\ Subtree \in [Devs -> SUBSET Devs]
                            /\ Subtree[Root] = Devs
                            /\ \A d \in Devs : d \in Subtree[d]
ASSUME DynamicAssumption == DynamicHc \in [Devs -> SUBSET BOOLEAN]
ASSUME HolderAssumption == (Devs \X {"in", "out"}) \cap Eps = {}

VARIABLES pool,        \* the channel pool, see above
          attached,    \* devices that have been attached and not yet dropped
          live,        \* endpoint objects a driver has
          list,        \* endpoint objects on the list, freed ones included
          after,       \* after[e]: the objects e's next_node leads to
          owner,       \* owner[e]: USBH_DevIO_t.pdev
          asNeeded,    \* objects with hc_as_needed # 0
          hasError,    \* hasError[e]: USBH_DevIO_t.hc_has_error
          harm         \* history: "cleared" when the pool has been reset under
                       \* a freed object that had a channel, "overwritten"
                       \* when a freed object has been

devVars == <<attached, live, list, after, owner, asNeeded, harm>>
vars    == <<pool, hasError, devVars>>

HC      == 0 .. HC_MAX - 1
In(d)   == <<d, "in">>
Out(d)  == <<d, "out">>
Pipes(D) == D \X {"in", "out"}
Ctl     == Pipes(Devs)
Holders == Ctl \cup Eps
None    == -1

Pool == [used : [HC -> BOOLEAN], tgl : [HC -> {0, 1}], armed : [HC -> BOOLEAN],
         idx : [Holders -> HC \cup {None}], saved : [Eps -> {None, 0, 1}]]

----------------------------------------------------------------------------
(* The pool operators: usbh_hcs.c. *)

(* Mutant: the HC_USED bit is not tested. *)
LowestFreeAny(p, start)  == {c \in HC : c = start}
(* The lowest unused channel; the first two are left to control pipes. *)
LowestFree(p, start) ==
  LET free == {c \in HC : c >= start /\ ~p.used[c]}
  IN  {c \in free : \A b \in free : c <= b}
GetFreeChannel(p, h) ==
  LET lowest == LowestFree(p, IF h \in Ctl THEN 0 ELSE 2)
  IN  IF lowest = {} THEN None ELSE CHOOSE c \in lowest : TRUE

(* Mutant: an interrupt of the last holder's transfer may still come. *)
HCInitKeep(p, c) == p
(* USB_OTG_HC_Init clears the channel's interrupt flags and masks its halt
   interrupt, so nothing that an earlier holder submitted is heard of again. *)
HCInit(p, c) == [p EXCEPT !.armed = [@ EXCEPT ![c] = FALSE]]
(* Writes the holder's index whether or not a channel was found. *)
OpenChannel(p, h) ==
  LET c == GetFreeChannel(p, h)
  IN  IF c = None
        THEN [p EXCEPT !.idx[h] = None]
        ELSE HCInit([p EXCEPT !.idx  = [@ EXCEPT ![h] = c],
                              !.used = [@ EXCEPT ![c] = TRUE],
                              !.tgl  = [@ EXCEPT ![c] = 0]], c)

(* Mutant: the holder's index is left in place. *)
FreeChannelKeep(p, h) ==
  IF p.idx[h] = None THEN p ELSE [p EXCEPT !.used[p.idx[h]] = FALSE]
FreeChannel(p, h) ==
  IF p.idx[h] = None THEN p
  ELSE [p EXCEPT !.used[p.idx[h]] = FALSE, !.idx[h] = None]

(* USBH_Dev_AllocControl and USBH_Dev_FreeControl. *)
OpenIfClosed(p, h) == IF p.idx[h] = None THEN OpenChannel(p, h) ELSE p
AllocControl(p, d) == OpenIfClosed(OpenIfClosed(p, In(d)), Out(d))
FreeControl(p, d)  == FreeChannel(FreeChannel(p, In(d)), Out(d))

(* USBH_DevIO_OpenChannel: a saved toggle is put back into the channel. *)
RestoreToggle(p, e) ==
  IF p.idx[e] = None \/ p.saved[e] = None THEN p
  ELSE [p EXCEPT !.tgl[p.idx[e]] = p.saved[e]]
(* Mutant: the saved toggle is forgotten. *)
OpenEpFresh(p, e) == IF p.idx[e] = None THEN OpenChannel(p, e) ELSE p
OpenEp(p, e) ==
  IF p.idx[e] = None THEN RestoreToggle(OpenChannel(p, e), e) ELSE p

(* USBH_DevIO_FreeChannel: save the toggle, inverted after a toggle error. *)
SaveToggle(p, e, err) ==
  LET t == p.tgl[p.idx[e]]
  IN  [p EXCEPT !.saved[e] = IF err = 2 THEN 1 - t ELSE t]
FreeEp(p, e, err) ==
  IF p.idx[e] = None THEN p ELSE FreeChannel(SaveToggle(p, e, err), e)

(* USBH_DevIO_Manager_Remove on the endpoint objects S: each gives back its
   channel; the rest of the object keeps its value in the freed memory. *)
RemoveEps(p, S) ==
  [p EXCEPT !.used = [c \in HC |-> p.used[c] /\ \A e \in S : p.idx[e] # c],
            !.idx  = [h \in Holders |-> IF h \in S THEN None ELSE p.idx[h]]]

(* The indices of the holders S are lost, and nothing is freed. *)
ForgetIdx(p, S) ==
  [p EXCEPT !.idx = [h \in Holders |-> IF h \in S THEN None ELSE p.idx[h]]]
(* USBH_DeInit overwrites both control indices with -1 before it asks for
   their channels to be freed, so nothing is freed. *)
DeInitControl(p, D) == ForgetIdx(p, Pipes(D))
----------------------------------------------------------------------------
(* The list of endpoint objects. *)

EpsOf(D) == {e \in Eps : owner[e] \in D}
Head     == {e \in list : after[e] = list \ {e}}
(* Objects that USBH_DevIO_Manager_Unplug finds and unlinks.  An object is
   unlinked from the one before it, and the head has none. *)
Unlinked(D) == (list \cap EpsOf(D)) \ Head

(* Drivers run their own objects, and a blocking control request of any
   device runs what is on the list, whether or not it has been freed. *)
Runs(e) == e \in live \/ (e \in list /\ attached # {})

(* USBH_DevIO_Manager_Unplug for every device of D.  Objects that are not on
   the list are not found: nobody frees them or their channels. *)
UnplugPool(p, D) ==
  ForgetIdx(RemoveEps(p, list \cap EpsOf(D)), (live \cap EpsOf(D)) \ list)
Unplug(D) ==
  LET gone == Unlinked(D)
  IN  /\ list'  = list \ gone
      /\ after' = [e \in Eps |-> IF e \in gone THEN {} ELSE after[e] \ gone]
      /\ live'  = live \ EpsOf(D)
      /\ UNCHANGED <<owner, asNeeded, hasError>>
----------------------------------------------------------------------------
Init == /\ pool = [used  |-> [c \in HC |-> FALSE],
                   tgl   |-> [c \in HC |-> 0],
                   armed |-> [c \in HC |-> FALSE],
                   idx   |-> [h \in Holders |-> None],
                   saved |-> [e \in Eps |-> None]]
        /\ attached = {} /\ live = {} /\ list = {} /\ asNeeded = {}
        /\ after = [e \in Eps |-> {}]
        /\ owner = [e \in Eps |-> Root]
        /\ hasError = [e \in Eps |-> 0]
        /\ harm = "none"

(* A device is attached, below a hub that is. *)
Plug(d) == /\ d \notin attached
           /\ \A p \in Devs : d \in Subtree[p] => p = d \/ p \in attached
           /\ attached' = attached \cup {d}
           /\ UNCHANGED <<pool, live, list, after, owner, asNeeded, hasError, harm>>

(* A control request, or the start of an enumeration, needs both pipes. *)
BeginControl(d) == /\ d \in attached
                   /\ pool' = AllocControl(pool, d)
                   /\ UNCHANGED <<hasError, devVars>>

EndControl(d) == /\ d \in attached
                 /\ pool' = FreeControl(pool, d)
                 /\ UNCHANGED <<hasError, devVars>>

(* USBH_DevIO_Manager_New: calloc may give an address again that is still on
   the list.  Then USBH_DevIO_Manager_Add leaves the list as it is, and what
   was behind the object is lost with its next_node.  An endpoint that is not
   opened as needed opens its channel now and keeps it. *)
NewEp(e, d, n) ==
  LET onList  == e \in list
      dropped == IF onList THEN after[e] ELSE {}
      fresh   == [pool EXCEPT !.idx   = [@ EXCEPT ![e] = None],
                              !.saved = [@ EXCEPT ![e] = None]]
  IN  /\ e \notin live /\ d \in attached /\ n \in DynamicHc[d]
      /\ live'  = live \cup {e}
      /\ list'  = (list \ dropped) \cup {e}
      /\ after' = [f \in Eps |-> IF f # e THEN after[f] \ dropped
                                 ELSE IF onList THEN {} ELSE list]
      /\ owner' = [owner EXCEPT ![e] = d]
      /\ asNeeded' = IF n THEN asNeeded \cup {e} ELSE asNeeded \ {e}
      /\ hasError' = [hasError EXCEPT ![e] = 0]
      /\ pool' = IF n THEN fresh ELSE OpenEp(fresh, e)
      /\ UNCHANGED <<attached, harm>>

(* UIOSTATE_SEND_REQUEST: a channel is opened for an endpoint without one. *)
Request(e) == /\ Runs(e)
              /\ pool' = OpenEp(pool, e)
              /\ hasError' = IF pool.idx[e] = None /\ pool'.idx[e] # None
                               THEN [hasError EXCEPT ![e] = 0] ELSE hasError
              /\ UNCHANGED devVars

(* A transfer on the holder's channel.  USBH_InterruptReceiveData and
   USBH_InterruptSendData invert the toggle when they submit, the others do
   not. *)
Submit(h, flip) ==
  LET c == pool.idx[h]
  IN  /\ c # None
      /\ IF h \in Eps THEN Runs(h) ELSE h \in Pipes(attached)
      /\ pool' = [pool EXCEPT !.tgl[c] = IF flip THEN 1 - @ ELSE @,
                              !.armed[c] = TRUE]
      /\ UNCHANGED <<hasError, devVars>>

(* The channel interrupt inverts the toggle when a bulk transfer completes and
   when a NAKed interrupt transfer halts.  Halting a channel is a request to
   the hardware, so the interrupt may come when c has been given back. *)
Interrupt(c) == /\ pool.armed[c]
                /\ pool' = [pool EXCEPT !.tgl[c] = 1 - @, !.armed[c] = FALSE]
                /\ UNCHANGED <<hasError, devVars>>

(* UIOSTATE_WAIT_DATA: 1 is a transaction error or a timeout, 2 a toggle
   error. *)
TransferError(e, err) == /\ Runs(e) /\ pool.idx[e] # None
                         /\ hasError' = [hasError EXCEPT ![e] = err]
                         /\ UNCHANGED <<pool, devVars>>

(* UIOSTATE_FINALIZE: the channel is lent out again unless it is a fixed one
   that works. *)
Finalize(e) == /\ Runs(e) /\ pool.idx[e] # None
               /\ e \in asNeeded \/ hasError[e] # 0
               /\ pool' = FreeEp(pool, e, hasError[e])
               /\ hasError' = [hasError EXCEPT ![e] = 0]
               /\ UNCHANGED devVars

(* A device behind a hub is unplugged: USBH_DeInit, then the device's
   DeInitDev, which unplugs its endpoints; a hub does the same first to every
   device below it. *)
DeviceGone(d) ==
  LET D == Subtree[d]
  IN  /\ d \in attached \ {Root}
      /\ pool' = UnplugPool(DeInitControl(pool, D), D)
      /\ Unplug(D)
      /\ attached' = attached \ D
      /\ UNCHANGED harm

(* HOST_ERROR_STATE: the same steps in the opposite order; the device itself
   stays. *)
ErrorState(d) ==
  LET D == Subtree[d]
  IN  /\ d \in attached
      /\ pool' = DeInitControl(UnplugPool(pool, D), D)
      /\ Unplug(D)
      /\ attached' = (attached \ D) \cup {d}
      /\ UNCHANGED harm

(* The root device is gone: every device that is still attached is, and then
   USBH_DeAllocate_AllChannel clears the whole pool.  A freed object that is
   still run keeps its index. *)
RootGone ==
  LET p == UnplugPool(DeInitControl(pool, attached), attached)
  IN  /\ Root \in attached
      /\ pool' = [p EXCEPT !.used = [c \in HC |-> FALSE]]
      /\ Unplug(attached)
      /\ attached' = {}
      /\ harm' = IF \E h \in Holders : p.idx[h] # None THEN "cleared" ELSE harm

(* The memory of a freed object that is on the list is freed again or used
   for something else.  Nothing is said of what comes after. *)
Overwrite(e) == /\ e \in list \ live
                /\ harm' = "overwritten"
                /\ UNCHANGED <<pool, attached, live, list, after, owner, asNeeded, hasError>>

Step == \/ \E d \in Devs : \/ Plug(d) \/ BeginControl(d) \/ EndControl(d)
                           \/ DeviceGone(d) \/ ErrorState(d)
        \/ \E e \in Eps, d \in Devs, n \in BOOLEAN : NewEp(e, d, n)
        \/ \E e \in Eps : Request(e) \/ Finalize(e) \/ Overwrite(e)
        \/ \E h \in Holders, flip \in BOOLEAN : Submit(h, flip)
        \/ \E c \in HC : Interrupt(c)
        \/ \E e \in Eps, err \in {1, 2} : TransferError(e, err)
        \/ RootGone

Next == \/ harm # "overwritten" /\ Step
        \/ harm = "overwritten" /\ UNCHANGED vars

Spec == Init /\ [][Next]_vars
----------------------------------------------------------------------------
(* Type correctness of the pool, the endpoint list and the error flags. *)
TypeOK == /\ pool \in Pool
          /\ attached \subseteq Devs
          /\ live \subseteq Eps /\ list \subseteq Eps /\ asNeeded \subseteq Eps
          /\ after \in [Eps -> SUBSET Eps]
          /\ owner \in [Eps -> Devs]
          /\ hasError \in [Eps -> {0, 1, 2}]
          /\ harm \in {"none", "cleared", "overwritten"}

PoolExclusive(p) == \A g, h \in Holders :
                      p.idx[g] # None /\ p.idx[g] = p.idx[h] => g = h

PoolBacked(p) == \A h \in Holders : p.idx[h] # None => p.used[p.idx[h]]

(* Channels 0 and 1 are only ever given to control pipes, so that data
   endpoints cannot starve enumeration. *)
PoolReserved(p) == \A e \in Eps : p.idx[e] = None \/ p.idx[e] >= 2

(* No channel of the host controller is programmed by two holders, the freed
   objects that are still run included, as long as the pool has not been
   reset under one of those and none has been overwritten. *)
Exclusive       == harm = "none" => PoolExclusive(pool)
(* On the same condition, a channel that some holder still points at is never
   on offer: opening, freeing, unplugging and the pool-wide reset leave no
   stale index behind. *)
Backed          == harm = "none" => PoolBacked(pool)
ControlReserved == PoolReserved(pool)

(* Every channel marked used has a holder that can give it back. *)
NoLeak == \A c \in HC : pool.used[c] => \E h \in Holders : pool.idx[h] = c

(* The refinement, for the endpoints a driver has: the toggle is in the
   channel while there is one and in the saved copy otherwise. *)
Lent(e)     == e \in live /\ pool.idx[e] # None
Busy(e)     == Lent(e) /\ pool.armed[pool.idx[e]]
Fault(e)    == e \in live /\ hasError[e] = 2
EpToggle(e) == IF e \notin live THEN 0
               ELSE IF pool.idx[e] # None THEN pool.tgl[pool.idx[e]]
               ELSE IF pool.saved[e] # None THEN pool.saved[e] ELSE 0
VAlive  == [e \in Eps |-> e \in live]
VLent   == [e \in Eps |-> Lent(e)]
VBusy   == [e \in Eps |-> Busy(e)]
VFault  == [e \in Eps |-> Fault(e)]
VToggle == [e \in Eps |-> EpToggle(e)]
Virtual == INSTANCE VirtualEndpoints
             WITH alive <- VAlive, lent <- VLent, busy <- VBusy, fault <- VFault,
                  toggle <- VToggle, broken <- harm # "none"
(* An endpoint's data toggle moves only by its own transfers and by the repair
   of its own toggle errors: neither lending its channel to others between two
   loans, nor an interrupt of an earlier holder's transfer, nor a freed object
   that is still run, ever moves it. *)
ImplementsVirtual == Virtual!VSpec
=============================================================================
