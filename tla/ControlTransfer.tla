-------------------------- MODULE ControlTransfer --------------------------
(***************************************************************************)
(* Control requests to one device: the caller's side USBH_CtlReq           *)
(* (usbh_ioreq.c) and USBH_CtlReq_Blocking (usbh_devio_manager.c), the     *)
(* stage machine USBH_HandleControl that USBH_Process or the blocking loop *)
(* drives (usbh_core.c), the two control channels (usb_hcd_int.c) and the  *)
(* device, which a SETUP packet always restarts.                           *)
(*                                                                         *)
(* A step is one call of USBH_CtlReq or USBH_HandleControl; interrupts     *)
(* come between any two.  CTRL_x and CTRL_x_WAIT are state = x with        *)
(* waiting FALSE and TRUE.                                                 *)
(***************************************************************************)
EXTENDS Integers, FiniteSets

CONSTANTS Clients,        \* kinds of caller, and the bus each one meets
          K,              \* bound: requests issued
          MaxErrorCount,  \* USBH_MAX_ERROR_COUNT
          TotalErrLimit   \* failed requests a device survives (16 in the code)

AllFaults == {"nak", "stall", "stallStatusOut", "xactIn", "xactSetup", "xactOut", "slow"}

(* Whether the callers use USBH_CtlReq_Blocking; which faults happen, and (a
   bound) how many altogether. *)
ASSUME ClientsAssumption ==
  Clients \subseteq [blocking : BOOLEAN, faults : SUBSET AllFaults, max : Nat]
ASSUME ControlAssumption == {K, MaxErrorCount, TotalErrLimit} \subseteq Nat

VARIABLES client,               \* the kind of caller; never changes
          state, waiting,       \* Control.state
          gState, gStateBkp,    \* device state, "TASK" stands for any caller's
          errorcount, total_err,
          RequestState,         \* "SEND" or "WAIT"
          open,                 \* the device holds its two control channels
          urb, hw,              \* URB_State and what is armed, per channel
          errOut,               \* ErrCnt of the OUT channel
          late,                 \* the timer of the stage has run out
          dev,                  \* the device: request and stage it is in
          pc, last, alloc,      \* the caller: where it is, last status, alloc # 0
          cur, kind,            \* number and kind of the request in Control.setup
          result,               \* status returned for each request
          done,                 \* requests the device carried out
          faults

flow == <<state, waiting>>
disp == <<gState, gStateBkp>>
errv == <<errorcount, total_err>>
chan == <<open, urb, hw, errOut>>
call == <<pc, last, alloc, cur, kind, result, RequestState>>
devv == <<dev, done>>
moves == <<flow, disp, errv, chan, late, call, devv, faults>>
vars == <<client, moves>>

Stages   == {"SETUP", "DATA_IN", "DATA_OUT", "STATUS_IN", "STATUS_OUT"}
InStages == {"DATA_IN", "STATUS_IN"}
UrbState == {"IDLE", "DONE", "NOTREADY", "ERROR", "STALL"}
Failures == {"FAIL", "STALL", "NOT_SUPPORTED"}
Chan     == {"IN", "OUT"}
Kinds    == {"IN", "OUT", "NODATA", "NODATA_IN"}   \* direction and wLength
Channel(s) == IF s \in InStages THEN "IN" ELSE "OUT"
Off == [c \in Chan |-> "off"]

(* After the enumeration, which leaves Control.state at CTRL_IDLE. *)
Init == /\ client \in Clients
        /\ state = "IDLE" /\ waiting = FALSE /\ late = FALSE
        /\ gState = "TASK" /\ gStateBkp = "TASK"
        /\ errorcount = 0 /\ total_err = 0
        /\ RequestState = "SEND" /\ open \in BOOLEAN
        /\ urb = [c \in Chan |-> "IDLE"] /\ hw = Off /\ errOut = 0
        /\ dev = [req |-> 0, stage |-> "IDLE"] /\ done = {}
        /\ pc = "none" /\ last = "BUSY" /\ alloc = FALSE
        /\ cur = 0 /\ kind = "NODATA" /\ result = [r \in 1 .. K |-> "none"]
        /\ faults = 0
----------------------------------------------------------------------------
(* USBH_SubmitSetupRequest. *)
Submit == /\ gStateBkp' = gState /\ gState' = "CTRL"
          /\ state' = "SETUP" /\ waiting' = FALSE

PolledEarly ==                                \* mutant: the status stage not awaited
  CASE state \in {"COMPLETE", "STATUS_IN", "STATUS_OUT"} -> "OK"
    [] state = "ERROR" -> "FAIL"
    [] state = "STALLED" -> "NOT_SUPPORTED"
    [] OTHER -> "BUSY"
(* What USBH_CtlReq reports in CMD_WAIT. *)
Polled == CASE state = "COMPLETE" -> "OK"
            [] state = "ERROR" -> "FAIL"
            [] state = "STALLED" -> "NOT_SUPPORTED"
            [] OTHER -> "BUSY"
Answer == /\ Polled # "BUSY" /\ RequestState' = "SEND"
          /\ state' = IF Polled = "OK" THEN "IDLE" ELSE state
          /\ waiting' = FALSE

NewRequest == /\ pc = "none" /\ cur < K
              /\ cur' = cur + 1 /\ kind' \in Kinds

(* A class driver or the enumeration issues a request and polls for its
   status; USBH_Process calls it only while the device is not in a transfer. *)
CtlReqSend == /\ ~client.blocking /\ gState = "TASK" /\ NewRequest
              /\ Submit /\ RequestState' = "WAIT" /\ pc' = "async"
              /\ UNCHANGED <<errv, chan, late, last, alloc,
                             result, devv, faults>>

CtlReqWait == /\ pc = "async" /\ gState = "TASK"
              /\ Answer /\ result' = [result EXCEPT ![cur] = Polled]
              /\ pc' = "none"
              /\ UNCHANGED <<disp, errv, chan, late, last, alloc, cur, kind,
                             devv, faults>>

(* USBH_CtlReq_Blocking: one USBH_HandleControl for whatever is left of an
   earlier request (pc = "pre"), then the states are reset.  It is called from
   class drivers' tasks and from data handlers, whatever gState is.  Newly
   opened channels still show the URB state of their last user. *)
BlockingCall == /\ client.blocking /\ gState # "DISCONNECTED" /\ NewRequest
                /\ pc' = "pre" /\ alloc' = ~open /\ open' = TRUE
                /\ urb' \in IF open THEN {urb} ELSE [Chan -> UrbState]
                /\ UNCHANGED <<flow, disp, errv, hw, errOut,
                               late, last, result, RequestState, devv, faults>>

BlockingReset == /\ pc = "reset" /\ pc' = "req"
                 /\ RequestState' = "SEND" /\ state' = "IDLE" /\ waiting' = FALSE
                 /\ late' = FALSE
                 /\ UNCHANGED <<disp, errv, chan, last, alloc, cur, kind, result,
                                devv, faults>>

(* The first half of the loop's body, USBH_CtlReq. *)
BlockingSend == /\ pc = "req" /\ RequestState = "SEND"
                /\ Submit /\ RequestState' = "WAIT" /\ pc' = "handle"
                /\ UNCHANGED <<errv, chan, late, last, alloc, cur, kind, result,
                               devv, faults>>

BlockingWait == /\ pc = "req" /\ RequestState = "WAIT"
                /\ \/ Answer /\ last' = Polled /\ pc' = "leave"
                   \/ /\ Polled = "BUSY" /\ pc' = "handle"
                      /\ UNCHANGED <<flow, last, RequestState>>
                /\ UNCHANGED <<disp, errv, chan, late, alloc, cur, kind, result,
                               devv, faults>>

(* The second half: what the caller of USBH_HandleControl does with its
   status.  The loop also ends, with that status, when its time is up. *)
TimeUpNever == FALSE                       \* mutant: the loop has no timeout
TimeUp == late
Returned(status) ==
  /\ CASE pc = "pre" -> pc' = "reset" /\ UNCHANGED last
       [] pc = "handle" ->
            \/ (status \in Failures \/ TimeUp) /\ pc' = "leave" /\ last' = status
            \/ status \notin Failures /\ pc' = "req" /\ UNCHANGED last
       [] OTHER -> UNCHANGED <<pc, last>>
  /\ UNCHANGED <<alloc, cur, kind, result, RequestState>>

(* A failed call closes the channels, and opens them again if it found them
   open; a call that opened them closes them in any case. *)
BlockingReturn ==
  /\ pc = "leave" /\ pc' = "none"
  /\ result' = [result EXCEPT ![cur] = last]
  /\ IF last # "OK" \/ alloc
       THEN /\ hw' = Off /\ open' = ~alloc
            /\ urb' \in IF alloc THEN {urb} ELSE [Chan -> UrbState]
       ELSE UNCHANGED <<hw, open, urb>>
  /\ UNCHANGED <<flow, disp, errv, errOut, late, last, alloc, cur, kind,
                 RequestState, devv, faults>>
----------------------------------------------------------------------------
(* USBH_HandleControl runs in the blocking call, or in USBH_Process while the
   device is in a transfer. *)
HandleTurn == pc \in {"pre", "handle"} \/ (pc \in {"none", "async"} /\ gState = "CTRL")

(* CTRL_SETUP, CTRL_DATA_x, CTRL_STATUS_x: submit the stage's transaction;
   CTRL_SETUP opens missing channels.  A channel the code does not hold has
   index -1: what is written there is outside the modelled state. *)
SubmittedUrbKept(c) == urb[c]              \* mutant
SubmittedUrb(c) == "IDLE"
Transmit ==
  /\ HandleTurn /\ state \in Stages /\ ~waiting
  /\ waiting' = TRUE /\ late' = FALSE
  /\ open' = (open \/ state = "SETUP")
  /\ IF open'
       THEN /\ urb' = [urb EXCEPT ![Channel(state)] = SubmittedUrb(Channel(state))]
            /\ hw' = [hw EXCEPT ![Channel(state)] =
                        IF state = "SETUP" THEN "SETUP" ELSE "DATA"]
       ELSE UNCHANGED <<urb, hw>>
  /\ Returned("BUSY")
  /\ UNCHANGED <<state, disp, errv, errOut, devv, faults>>

(* CTRL_x_WAIT reads the channel's URB state, of memory outside the table when
   the channel was closed. *)
Waiting(u) == /\ HandleTurn /\ state \in Stages /\ waiting
              /\ (open => urb[Channel(state)] = u)
              /\ UNCHANGED <<chan, late, devv, faults>>

AfterSetup == [IN |-> "DATA_IN", OUT |-> "DATA_OUT",
               NODATA |-> "STATUS_IN", NODATA_IN |-> "STATUS_OUT"]
NextStage(s) == CASE s = "SETUP"    -> AfterSetup[kind]
                  [] s = "DATA_IN"  -> "STATUS_OUT"
                  [] s = "DATA_OUT" -> "STATUS_IN"
                  [] OTHER          -> "COMPLETE"

(* The dispatch state when a transfer is over. *)
RestoredNot == gState                      \* mutant
Restored == gStateBkp

StageDone == /\ Waiting("DONE")
             /\ state' = NextStage(state) /\ waiting' = FALSE
             /\ IF state' = "COMPLETE"
                  THEN gState' = Restored /\ Returned("OK")
                  ELSE UNCHANGED gState /\ Returned("BUSY")
             /\ UNCHANGED <<gStateBkp, errv>>

(* Only the data and IN status stages know a STALL; an IN stage stays where it
   is. *)
StageStall == /\ Waiting("STALL") /\ state \in {"DATA_IN", "DATA_OUT", "STATUS_IN"}
              /\ gState' = Restored
              /\ IF state = "DATA_OUT"
                   THEN state' = "STALLED" /\ waiting' = FALSE
                   ELSE UNCHANGED flow
              /\ Returned(IF state = "STATUS_IN" THEN "NOT_SUPPORTED" ELSE "STALL")
              /\ UNCHANGED <<gStateBkp, errv>>

StageNotReady == /\ Waiting("NOTREADY") /\ state \in {"DATA_OUT", "STATUS_OUT"}
                 /\ waiting' = FALSE /\ Returned("BUSY")
                 /\ UNCHANGED <<state, disp, errv>>

StageFails == /\ state' = "ERROR" /\ waiting' = FALSE
              /\ Returned("BUSY")
              /\ UNCHANGED <<disp, errv>>
StageError == Waiting("ERROR") /\ StageFails

(* The timer is looked at in the SETUP stage, which is repeated, and in the IN
   stages, which fail. *)
StageTimeout == /\ late /\ Waiting("IDLE")
                /\ \/ /\ state = "SETUP" /\ waiting' = FALSE /\ Returned("BUSY")
                      /\ UNCHANGED <<state, disp, errv>>
                   \/ state \in InStages /\ StageFails

(* Nothing to act on yet, or a status the stage does not handle. *)
StagePending == /\ \/ ~late /\ Waiting("IDLE")
                   \/ late /\ state \in {"DATA_OUT", "STATUS_OUT"} /\ Waiting("IDLE")
                   \/ state \in {"SETUP", "STATUS_OUT"} /\ Waiting("STALL")
                   \/ state \notin {"DATA_OUT", "STATUS_OUT"} /\ Waiting("NOTREADY")
                /\ Returned("BUSY") /\ UNCHANGED <<flow, disp, errv>>

(* CTRL_ERROR: start again from SETUP, or give up and leave the transfer. *)
GiveUpState == IF total_err' > TotalErrLimit THEN "DISCONNECTED" ELSE Restored
RetryOrFail ==
  /\ HandleTurn /\ state = "ERROR"
  /\ errorcount' = (errorcount + 1) % 256
  /\ IF errorcount' <= MaxErrorCount
       THEN /\ state' = "SETUP" /\ Returned("BUSY")
            /\ UNCHANGED <<gState, total_err>>
       ELSE /\ total_err' = (total_err + 1) % 256 /\ gState' = GiveUpState
            /\ Returned("FAIL") /\ UNCHANGED state
  /\ UNCHANGED <<waiting, gStateBkp, chan, late, devv, faults>>

(* CTRL_COMPLETE, CTRL_IDLE and, as an unknown state, CTRL_STALLED. *)
AtRest == /\ HandleTurn /\ state \in {"COMPLETE", "IDLE", "STALLED"}
          /\ total_err' = IF state = "COMPLETE" /\ total_err > 0
                          THEN total_err - 1 ELSE total_err
          /\ Returned(IF state = "STALLED" THEN "BUSY" ELSE "OK")
          /\ UNCHANGED <<flow, disp, errorcount, chan, late, devv, faults>>

HandleControl == Transmit \/ StageDone \/ StageStall \/ StageNotReady
                 \/ StageError \/ StageTimeout \/ StagePending \/ RetryOrFail
                 \/ AtRest
----------------------------------------------------------------------------
(* The bus.  An armed channel meets the device in a stage that answers it, or
   is NAKed for ever (the hardware polls an IN stage on its own). *)
Answers(c) == \/ c = "OUT" /\ hw[c] = "SETUP"
              \/ /\ hw[c] = "DATA" /\ dev.stage \in Stages
                 /\ Channel(dev.stage) = c

Advance(c) == LET next == IF hw[c] = "SETUP" THEN NextStage("SETUP")
                                             ELSE NextStage(dev.stage)
              IN  /\ dev' = [req |-> IF hw[c] = "SETUP" THEN cur ELSE dev.req,
                             stage |-> IF next = "COMPLETE" THEN "IDLE" ELSE next]
                  /\ done' = IF next = "COMPLETE" THEN done \cup {dev.req} ELSE done

Halted(c, u) == hw' = [hw EXCEPT ![c] = "off"] /\ urb' = [urb EXCEPT ![c] = u]
Fault(f) == f \in client.faults /\ faults < client.max /\ faults' = faults + 1

Transfer(c) == /\ Answers(c) /\ Advance(c) /\ Halted(c, "DONE")
               /\ errOut' = IF c = "OUT" THEN 0 ELSE errOut
               /\ UNCHANGED <<flow, disp, errv, open, late, call, faults>>

NakOut == /\ hw["OUT"] = "DATA" /\ Fault("nak") /\ Halted("OUT", "NOTREADY")
          /\ errOut' = 0
          /\ UNCHANGED <<flow, disp, errv, open, late, call, devv>>

StallFault(c) == \/ Fault("stall") /\ dev.stage # "STATUS_OUT"
                 \/ Fault("stallStatusOut") /\ dev.stage = "STATUS_OUT"
Stall(c) == /\ hw[c] = "DATA" /\ Answers(c) /\ StallFault(c)
            /\ Halted(c, "STALL") /\ dev' = [dev EXCEPT !.stage = "IDLE"]
            /\ UNCHANGED <<flow, disp, errv, open, errOut, late, call, done>>

(* An IN packet that does not arrive is reported at once.  An OUT channel
   counts three errors before it reports one, and until then nothing; the
   device may have taken the packet, if only the acknowledgement was lost. *)
XactErrIn == /\ hw["IN"] = "DATA" /\ Fault("xactIn") /\ Halted("IN", "ERROR")
             /\ UNCHANGED <<flow, disp, errv, open, errOut, late, call, devv>>

OutErrLimitOver == 4                       \* mutant
OutErrLimit == 3
XactErrOut == /\ hw["OUT"] # "off"
              /\ Fault(IF hw["OUT"] = "SETUP" THEN "xactSetup" ELSE "xactOut")
              /\ IF errOut + 1 >= OutErrLimit
                   THEN Halted("OUT", "ERROR") /\ errOut' = 0
                   ELSE Halted("OUT", urb["OUT"]) /\ errOut' = errOut + 1
              /\ \/ Answers("OUT") /\ Advance("OUT")
                 \/ UNCHANGED devv
              /\ UNCHANGED <<flow, disp, errv, open, late, call>>

(* Time runs out for a stage that nothing can answer any more, or for one
   whose device is slow. *)
NoAnswer == LET c == Channel(state)
            IN  /\ ~Answers(c)
                /\ urb[c] = "IDLE" \/ (state \in {"SETUP", "STATUS_OUT"} /\ urb[c] = "STALL")
Elapse == /\ waiting /\ state \in Stages /\ ~late /\ late' = TRUE
          /\ \/ NoAnswer /\ UNCHANGED faults
             \/ ~NoAnswer /\ urb[Channel(state)] = "IDLE" /\ Fault("slow")
          /\ UNCHANGED <<flow, disp, errv, chan, call, devv>>

Main == CtlReqSend \/ CtlReqWait \/ BlockingCall \/ BlockingReset
        \/ BlockingSend \/ BlockingWait \/ BlockingReturn \/ HandleControl
Bus == \/ \E c \in Chan : Transfer(c) \/ Stall(c)
       \/ NakOut \/ XactErrIn \/ XactErrOut

Next == (Main \/ Bus \/ Elapse) /\ UNCHANGED client
Spec == Init /\ [][Next]_vars

(* The main loop keeps running, an armed channel the device answers is served,
   and time passes: also for the loop of a blocking call, whose own timer is
   never set again.  Nobody is obliged to issue a request. *)
Running == CtlReqWait \/ BlockingReset \/ BlockingSend \/ BlockingWait
           \/ BlockingReturn \/ HandleControl
FairSpec == /\ Spec /\ WF_moves(Running) /\ WF_moves(Elapse /\ NoAnswer)
            /\ SF_moves(HandleControl /\ pc = "handle" /\ pc' = "leave")
            /\ \A c \in Chan : WF_moves(Transfer(c))
----------------------------------------------------------------------------
(* Types; a stage is being waited for only while there is one, and ErrCnt of the
   OUT channel is back at 0 before the third error. *)
TypeOK ==
  /\ client \in Clients
  /\ state \in Stages \cup {"IDLE", "COMPLETE", "ERROR", "STALLED"}
  /\ waiting \in BOOLEAN /\ (waiting => state \in Stages) /\ late \in BOOLEAN
  /\ gState \in {"TASK", "CTRL", "DISCONNECTED"} /\ gStateBkp \in {"TASK", "CTRL", "DISCONNECTED"}
  /\ errorcount \in 0 .. 255 /\ total_err \in 0 .. 255
  /\ RequestState \in {"SEND", "WAIT"} /\ open \in BOOLEAN
  /\ urb \in [Chan -> UrbState] /\ hw \in [Chan -> {"off", "SETUP", "DATA"}]
  /\ errOut \in 0 .. 2
  /\ dev \in [req : 0 .. K, stage : Stages \cup {"IDLE"}] /\ done \subseteq 1 .. K
  /\ pc \in {"none", "async", "pre", "reset", "req", "handle", "leave"}
  /\ last \in Failures \cup {"OK", "BUSY"} /\ alloc \in BOOLEAN
  /\ cur \in 0 .. K /\ kind \in Kinds /\ faults \in 0 .. client.max
  /\ result \in [1 .. K -> Failures \cup {"OK", "BUSY", "none"}]

(* USBH_OK means that the device has been through the status stage of this
   very request, whatever was retried, repeated or left over from the one
   before (usbh_ioreq.c, "Commands successfully sent and Response Received"). *)
OkMeansDone == \A r \in 1 .. K : result[r] = "OK" => r \in done

(* Callers that are told of a failure only when the request is over: those that
   poll, and blocking ones that meet no error. *)
Clean == ~client.blocking \/ client.faults \subseteq {"nak", "stall"}

(* Once USBH_CtlReq has reported a status nothing more is transmitted for the
   request: the status is given "after completion of the request". *)
StatusMeansOver ==
  [][Clean => \A c \in Chan : hw[c] = "off" /\ hw'[c] # "off"
                                => cur > 0 /\ result[cur] = "none"]_vars

(* Every request issued is answered, unless the device is given up. *)
Answered == pc # "none" ~> (pc = "none" \/ gState = "DISCONNECTED")

(* USBH_Process always gets back to the device's task after a transfer: the
   state saved when a request is submitted is one to return to. *)
TaskRunsAgain == Clean => []<>(gState # "CTRL")
=============================================================================
