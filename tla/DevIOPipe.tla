----------------------------- MODULE DevIOPipe -----------------------------
(***************************************************************************)
(* One endpoint served by USBH_DevIO_Task: the task polled by the main     *)
(* loop (usbh_devio_manager.c), the request it submits (usbh_ioreq.c), the *)
(* interrupt handlers of its host channel (usb_hcd_int.c) and the device's *)
(* side of the data toggle protocol.                                       *)
(*                                                                         *)
(* Main loop and interrupts interleave between any two task steps; the task*)
(* reads the URB state in one step (Sample) and acts on it in the next.    *)
(* The device numbers its packets (IN) or receives numbered packets (OUT). *)
(***************************************************************************)
EXTENDS Integers, FiniteSets

CONSTANTS Endpoints,       \* kinds of endpoint, and the bus each one meets
          N,               \* bound: packets the endpoint carries
          Retries          \* retries of an OUT request (5 in the code)

AllFaults == {"nak", "ackLost", "xacterr", "stall", "overrun", "timeout"}

(* type and direction of the endpoint; hc_as_needed: its channel is lent per
   request; which bus faults happen, and (a bound) how many altogether.  No
   driver creates a DevIO for an interrupt OUT endpoint. *)
ASSUME EndpointsAssumption ==
  /\ Endpoints \subseteq [type : {"INTR", "BULK"}, dir : {"IN", "OUT"},
                          asNeeded : BOOLEAN, faults : SUBSET AllFaults, max : Nat]
  /\ \A e \in Endpoints : e.type = "INTR" => e.dir = "IN"
ASSUME BoundsAssumption == N \in Nat /\ Retries \in 0 .. 255

VARIABLES ep,              \* the endpoint; never changes
          st,              \* UIOSTATE_*; "ACT" is WAIT_DATA with a sample taken
          hc,              \* the endpoint has a channel
          hasError,        \* hc_has_error
          saved,           \* hc_toggle_in/out, -1 when never saved
          retries,         \* retries left of the OUT request
          remaining,       \* OUT packets still to be sent
          seen,            \* the sampled URB_State and HC_Status
          urb,             \* URB_State[hc]
          hcst,            \* HC_Status[hc]; submitting does not reset it
          errCnt,          \* ErrCnt[hc]
          tgl,             \* toggle bit of the channel
          pid,             \* PID of the outstanding request
          hw,              \* channel hardware: "off", "armed", "halting"
          devTgl, devPkt,  \* device: its toggle, its current packet
          buff,            \* number of the packet in the transfer buffer (OUT: in
                           \* that of the outstanding request)
          got,             \* got[k]: times packet k was handed over
          faults           \* faults so far

taskVars == <<st, hc, hasError, saved, retries, remaining, seen>>
chanVars == <<urb, hcst, errCnt, tgl, pid, hw>>
devVars  == <<devTgl, devPkt, buff>>
moves == <<taskVars, chanVars, devVars, got, faults>>
vars == <<ep, moves>>

IsIn   == ep.dir = "IN"
IsIntr == ep.type = "INTR"
HcStatus == {"IDLE", "XFRC", "NAK", "STALL", "XACTERR", "DATATGLERR"}
UrbState == {"IDLE", "DONE", "NOTREADY", "ERROR", "STALL"}

(* USBH_DevIO_Manager_New; the OUT packets are numbered as the device will
   count them, so devPkt also numbers the packet being sent. *)
Init == /\ ep \in Endpoints
        /\ st = "IDLE" /\ hc = ~ep.asNeeded /\ hasError = 0 /\ saved = -1
        /\ retries = 0 /\ remaining = 0 /\ seen = <<"IDLE", "IDLE">>
        /\ urb = "IDLE" /\ hcst = "IDLE" /\ errCnt = 0
        /\ tgl = 0 /\ pid = 0 /\ hw = "off"
        /\ devTgl = 0 /\ devPkt = 1 /\ buff = 0
        /\ got = [k \in 1 .. N |-> 0] /\ faults = 0
----------------------------------------------------------------------------
Fault(f) == f \in ep.faults /\ faults < ep.max /\ faults' = faults + 1

(* The task.  USBH_DevIO_FreeChannel saves the toggle, inverted after a toggle
   error, and halts the channel after any error. *)
SavedToggleRaw == tgl                      \* mutant: no repair
SavedToggle == IF hasError = 2 THEN 1 - tgl ELSE tgl
FreeChannel == /\ hc' = FALSE
               /\ saved' = SavedToggle
               /\ hw' = IF hasError # 0 /\ hw = "armed" THEN "off" ELSE hw
               /\ hasError' = 0
               /\ UNCHANGED <<urb, hcst, errCnt, tgl, pid>>

Idle == /\ st = "IDLE" /\ st' = "START"
        /\ UNCHANGED <<hc, hasError, saved, retries, remaining, seen,
                       chanVars, devVars, got, faults>>

(* UIOSTATE_START: an IN endpoint is polled when it is enabled and due. *)
StartSkip == /\ st = "START"
             /\ \/ IsIn /\ st' \in {"NEXT", "FINALIZE"} /\ UNCHANGED retries
                \/ ~IsIn /\ remaining = 0 /\ st' = "FINALIZE" /\ retries' = Retries
             /\ UNCHANGED <<hc, hasError, saved, remaining, seen, chanVars,
                            devVars, got, faults>>

StartRequest == /\ st = "START" /\ (IsIn \/ remaining > 0)
                /\ st' = "SEND"
                /\ retries' = IF IsIn THEN retries ELSE Retries
                /\ UNCHANGED <<hc, hasError, saved, remaining, seen, chanVars,
                               devVars, got, faults>>

RequestToggleAlways(t) == 1 - t            \* mutant: bulk requests invert too
RequestToggle(t) == IF IsIntr THEN 1 - t ELSE t

(* UIOSTATE_SEND_REQUEST: open a channel if needed (HC_Init disarms it and the
   saved toggle is put back), then submit.  Interrupt requests invert the
   toggle now, bulk ones leave it to the interrupt handler.  A halt takes
   microseconds: it is over when a channel is used again, by whomever. *)
Send ==
  /\ st = "SEND" /\ hw # "halting"
  /\ LET t == IF hc THEN tgl ELSE IF saved = -1 THEN 0 ELSE saved
     IN  /\ pid' = t
         /\ tgl' = RequestToggle(t)
  /\ hc' = TRUE
  /\ hasError' = IF hc THEN hasError ELSE 0
  /\ urb' = "IDLE" /\ hw' = "armed" /\ st' = "WAIT"
  /\ buff' = IF IsIn THEN buff ELSE devPkt
  /\ UNCHANGED <<saved, retries, remaining, seen, hcst, errCnt, devTgl, devPkt,
                 got, faults>>

(* All channels are lent out: the request is given up until the next turn. *)
SendNoChannel == /\ st = "SEND" /\ ~hc /\ st' = "FINALIZE"
                 /\ UNCHANGED <<hc, hasError, saved, retries, remaining, seen,
                                chanVars, devVars, got, faults>>

(* While the channel is lent to somebody else its HC_Status and ErrCnt are
   theirs; nobody leaves three errors behind. *)
LentToOthers == /\ ~hc /\ hw # "halting"
                /\ hcst' \in HcStatus /\ errCnt' \in 0 .. 2
                /\ UNCHANGED <<taskVars, urb, tgl, pid, hw, devVars, got, faults>>

Sample == /\ st = "WAIT" /\ st' = "ACT" /\ seen' = <<urb, hcst>>
          /\ UNCHANGED <<hc, hasError, saved, retries, remaining, chanVars,
                         devVars, got, faults>>

(* URB_DONE: an IN packet goes to the data handler, after the channel has been
   given back; an OUT request goes on with the next packet. *)
ActDone ==
  /\ st = "ACT" /\ seen[1] = "DONE"
  /\ IF IsIn
       THEN /\ got' = [got EXCEPT ![buff] = @ + 1]
            /\ IF ep.asNeeded THEN FreeChannel
                           ELSE UNCHANGED <<hc, saved, hasError, chanVars>>
            /\ st' = "FINALIZE" /\ UNCHANGED <<remaining, devPkt>>
       ELSE /\ remaining' = remaining - 1
            /\ devPkt' = devPkt + 1
            /\ st' = IF remaining = 1 THEN "FINALIZE" ELSE "SEND"
            /\ UNCHANGED <<got, hc, saved, hasError, chanVars>>
  /\ UNCHANGED <<retries, seen, devTgl, buff, faults>>

AfterFailure == IF ~IsIn /\ retries > 0 THEN "SEND" ELSE "FINALIZE"
RetriesLeftSigned == retries - 1           \* mutant: the counter goes below 0
RetriesLeft == (retries - 1) % 256

(* URB_STALL, URB_NOTREADY and URB_ERROR: an OUT request is submitted again
   while it has retries (a byte, which wraps when it is found to be 0). *)
ActFailed ==
  /\ st = "ACT" /\ seen[1] \in {"STALL", "NOTREADY", "ERROR"}
  /\ hasError' = IF seen[1] # "ERROR" THEN hasError
                 ELSE IF seen[2] = "DATATGLERR" THEN 2 ELSE 1
  /\ st' = AfterFailure
  /\ retries' = IF IsIn THEN retries ELSE RetriesLeft
  /\ UNCHANGED <<hc, saved, remaining, seen, chanVars, devVars, got, faults>>

(* URB_IDLE: keep waiting, or give up.  It is a fault of the bus when the
   channel was still working on the request as the sample was taken. *)
ActWaiting == /\ st = "ACT" /\ seen[1] = "IDLE" /\ st' = "WAIT"
              /\ UNCHANGED <<hc, hasError, saved, retries, remaining, seen,
                             chanVars, devVars, got, faults>>

ActTimeoutNever == FALSE                   \* mutant: no timeout
ActTimeout ==
  /\ st = "ACT" /\ seen[1] = "IDLE"
  /\ \/ hw = "off" /\ seen = <<urb, hcst>> /\ UNCHANGED faults
     \/ Fault("timeout")
  /\ IF ~IsIntr /\ ~IsIn /\ seen[2] = "XFRC"
       THEN st' = "WAIT" /\ urb' = "DONE" /\ hasError' = 1
       ELSE /\ st' = "FINALIZE"
            /\ hasError' = IF IsIntr THEN 1 ELSE hasError
            /\ UNCHANGED urb
  /\ UNCHANGED <<hc, saved, retries, remaining, seen, hcst, errCnt, tgl, pid,
                 hw, devVars, got>>

Finalize == /\ st = "FINALIZE" /\ st' = "NEXT"
            /\ IF hc /\ (ep.asNeeded \/ hasError # 0)
                 THEN FreeChannel
                 ELSE UNCHANGED <<hc, saved, hasError, chanVars>>
            /\ UNCHANGED <<retries, remaining, seen, devVars, got, faults>>

NextTurn == /\ st = "NEXT" /\ st' = "START"
            /\ UNCHANGED <<hc, hasError, saved, retries, remaining, seen,
                           chanVars, devVars, got, faults>>

(* The class driver's TxData: a new buffer of n packets. *)
Write(n) == /\ ~IsIn /\ st = "NEXT" /\ remaining = 0 /\ devPkt + n <= N + 1
            /\ remaining' = n
            /\ UNCHANGED <<st, hc, hasError, saved, retries, seen, chanVars,
                           devVars, got, faults>>
----------------------------------------------------------------------------
(* The bus: the answer to the outstanding request raises the interrupts that
   the two channel handlers serve; it stays "halting" until the halt they ask
   for has been done. *)
Halting(status) == hcst' = status /\ hw' = "halting"

(* The device consumes the handshake of its current packet. *)
DevAdvance == devTgl' = 1 - devTgl /\ devPkt' = devPkt + 1

DoneToggle == 1 - tgl

(* xfercompl, or datatglerr when the packet repeats one already received: the
   host acknowledges it all the same, and the acknowledgement may be lost. *)
DataIn ==
  /\ hw = "armed" /\ IsIn /\ devPkt <= N
  /\ \/ DevAdvance /\ UNCHANGED faults
     \/ Fault("ackLost") /\ UNCHANGED <<devTgl, devPkt>>
  /\ IF pid = devTgl
       THEN /\ buff' = devPkt /\ errCnt' = 0
            /\ IF IsIntr
                 THEN hcst' = "XFRC" /\ hw' = "off" /\ urb' = "DONE" /\ UNCHANGED tgl
                 ELSE Halting("XFRC") /\ tgl' = DoneToggle /\ UNCHANGED urb
       ELSE Halting("DATATGLERR") /\ UNCHANGED <<buff, errCnt, urb, tgl>>
  /\ UNCHANGED <<taskVars, pid, got>>

(* The device takes an OUT packet whose PID it expects and drops a repeated
   one; it acknowledges both. *)
DataOut ==
  /\ hw = "armed" /\ ~IsIn
  /\ IF pid = devTgl
       THEN devTgl' = 1 - devTgl /\ got' = [got EXCEPT ![buff] = @ + 1]
       ELSE UNCHANGED <<devTgl, got>>
  /\ \/ Halting("XFRC") /\ errCnt' = 0 /\ UNCHANGED faults
     \/ Fault("ackLost") /\ Halting("XACTERR") /\ errCnt' = errCnt + 1
  /\ UNCHANGED <<taskVars, urb, tgl, pid, devPkt, buff>>

(* nak: an interrupt or OUT request is halted; a bulk IN request is dropped by
   the hardware until the channel is activated again. *)
Nak ==
  /\ hw = "armed" /\ ("nak" \in ep.faults \/ (IsIn /\ devPkt > N))
  /\ IF IsIn /\ ~IsIntr
       THEN hcst' = "NAK" /\ hw' = "off" /\ urb' = IF urb = "IDLE" THEN "NOTREADY" ELSE urb
       ELSE Halting("NAK") /\ UNCHANGED urb
  /\ errCnt' = IF IsIn THEN errCnt ELSE 0
  /\ UNCHANGED <<taskVars, tgl, pid, devVars, got, faults>>

XactErr == /\ hw = "armed" /\ Fault("xacterr")
           /\ Halting("XACTERR") /\ errCnt' = errCnt + 1
           /\ UNCHANGED <<taskVars, urb, tgl, pid, devVars, got>>

Stall == /\ hw = "armed" /\ Fault("stall") /\ Halting("STALL")
         /\ UNCHANGED <<taskVars, urb, errCnt, tgl, pid, devVars, got>>

(* frmovrun and bblerr halt the channel without writing HC_Status. *)
Overrun == /\ hw = "armed" /\ (IsIntr \/ IsIn) /\ Fault("overrun")
           /\ hw' = "halting"
           /\ UNCHANGED <<taskVars, urb, hcst, errCnt, tgl, pid, devVars, got>>

NakToggleKept == tgl                       \* mutant: the inversion stays
NakToggle == IF IsIntr /\ hcst \in {"NAK", "IDLE"} THEN 1 - tgl ELSE tgl

(* chhltd: what URB state the halt means depends on HC_Status. *)
ChHltdIn ==
  /\ hw = "halting" /\ IsIn /\ hw' = "off"
  /\ urb' = CASE hcst = "XFRC"  -> "DONE"
              [] hcst = "STALL" -> "STALL"
              [] hcst \in {"XACTERR", "DATATGLERR"} -> "ERROR"
              [] OTHER -> IF IsIntr THEN "NOTREADY" ELSE urb
  /\ errCnt' = IF hcst \in {"XACTERR", "DATATGLERR"} THEN 0 ELSE errCnt
  /\ tgl' = NakToggle
  /\ UNCHANGED <<taskVars, hcst, pid, devVars, got, faults>>

ChHltdOut ==
  /\ hw = "halting" /\ ~IsIn /\ hw' = "off"
  /\ urb' = CASE hcst = "XFRC"  -> "DONE"
              [] hcst = "NAK"   -> "NOTREADY"
              [] hcst = "STALL" -> "STALL"
              [] hcst = "XACTERR" /\ errCnt >= 3 -> "ERROR"
              [] OTHER -> urb
  /\ errCnt' = IF hcst = "XACTERR" /\ errCnt >= 3 THEN 0 ELSE errCnt
  /\ tgl' = IF hcst = "XFRC" /\ ~IsIntr THEN DoneToggle ELSE tgl
  /\ UNCHANGED <<taskVars, hcst, pid, devVars, got, faults>>

----------------------------------------------------------------------------
Task == \/ Idle \/ StartSkip \/ StartRequest \/ Send \/ SendNoChannel
        \/ Sample \/ ActDone \/ ActFailed \/ ActWaiting \/ ActTimeout
        \/ Finalize \/ NextTurn
Bus  == DataIn \/ DataOut \/ Nak \/ XactErr \/ Stall \/ Overrun
Next == /\ UNCHANGED ep
        /\ \/ Task \/ Bus \/ ChHltdIn \/ ChHltdOut \/ LentToOthers
           \/ \E n \in 1 .. 2 : Write(n)

(* The main loop keeps calling the task and never skips a due poll or finds the
   pool empty for ever; a request is given up when it has got no answer; halts
   end; a device that has a packet is not NAKing for ever. *)
ActGivesUp == ActTimeout /\ UNCHANGED faults
Fairness == /\ WF_moves(Task) /\ SF_moves(StartRequest) /\ SF_moves(Send)
            /\ SF_moves(ActGivesUp) /\ WF_moves(ChHltdIn) /\ WF_moves(ChHltdOut)
            /\ SF_moves(DataIn) /\ SF_moves(DataOut) /\ WF_moves(Bus)

Spec == Init /\ [][Next]_vars
FairSpec == Spec /\ Fairness
----------------------------------------------------------------------------
(* Types; among them that ErrCnt never passes 3. *)
TypeOK ==
  /\ ep \in Endpoints
  /\ st \in {"IDLE", "START", "SEND", "WAIT", "ACT", "FINALIZE", "NEXT"}
  /\ hc \in BOOLEAN /\ hasError \in 0 .. 2 /\ saved \in {-1, 0, 1}
  /\ retries \in 0 .. 255 /\ remaining \in 0 .. N
  /\ seen \in UrbState \X HcStatus
  /\ urb \in UrbState /\ hcst \in HcStatus /\ errCnt \in 0 .. 3
  /\ tgl \in {0, 1} /\ pid \in {0, 1} /\ hw \in {"off", "armed", "halting"}
  /\ devTgl \in {0, 1} /\ devPkt \in 1 .. N + 1 /\ buff \in 0 .. N
  /\ got \in [1 .. N -> Nat] /\ faults \in 0 .. ep.max

(* Received, acknowledged, and on its way to the data handler. *)
Pending(k) == /\ IsIn /\ buff = k /\ st \in {"WAIT", "ACT"}
              /\ urb = "DONE" \/ (hw = "halting" /\ hcst = "XFRC")

Lost   == {k \in 1 .. devPkt - 1 : got[k] = 0 /\ ~Pending(k)}
Repeated == {k \in 1 .. N : got[k] > 1}

(* The faults an endpoint of each kind makes good without any loss. *)
Harmless == IF IsIntr THEN {"nak", "ackLost"}
            ELSE IF IsIn THEN {"nak", "xacterr", "stall"}
                         ELSE {"nak", "ackLost", "xacterr", "stall"}

(* Every packet one side has finished with was handed over on the other side
   exactly once, on a bus with the faults the endpoint can make good. *)
ExactlyOnce == ep.faults \subseteq Harmless => Lost = {} /\ Repeated = {}

(* The faults after which an endpoint goes on with the next packet.  Bulk IN
   falls out of step with the device when an acknowledgement is lost, and when
   an overrun or a late answer is taken for what the channel did for others. *)
Bearable == IF IsIntr \/ ~IsIn THEN AllFaults
            ELSE {"nak", "xacterr", "stall"} \cup (IF ep.asNeeded THEN {} ELSE {"timeout"})

(* A fault costs at most one packet and repeats at most one, once: after a
   toggle error FreeChannel corrects the toggle ("toggle again to correct the
   error"). *)
FaultCost == /\ Cardinality(Lost) <= faults /\ Cardinality(Repeated) <= faults
             /\ \A k \in 1 .. N : got[k] <= faults + 1
LossBounded == ep.faults \subseteq Bearable => FaultCost

(* A request of a bulk IN endpoint carries the PID the device expects. *)
PidInSync == ~IsIntr /\ IsIn /\ ep.faults \subseteq Bearable
               => (hw = "armed" => pid = devTgl)

(* Faults never wedge an endpoint: the device gets rid of all its packets, and
   the driver's data is all sent in the end. *)
Served == /\ IsIn => <>(devPkt = N + 1)
          /\ remaining > 0 ~> remaining = 0
=============================================================================
