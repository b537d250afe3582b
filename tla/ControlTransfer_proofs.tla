----------------------- MODULE ControlTransfer_proofs -----------------------
(***************************************************************************)
(* Types, OkMeansDone and StatusMeansOver of ControlTransfer, for every    *)
(* number of requests, every set of callers and every number of faults.    *)
(*                                                                         *)
(* OkMeansDone is not inductive: that the request a caller is told of was  *)
(* carried out rests on how far host and device have come in it, and a     *)
(* stage is only known to be over because the channel that was armed for   *)
(* it had shown URB_IDLE since.                                            *)
(***************************************************************************)
EXTENDS ControlTransfer, TLAPS

(* The caller waits for the request in Control.setup. *)
Underway == pc \in {"async", "handle"} \/ (pc = "req" /\ RequestState = "WAIT")

(* A request has a number once it is issued; nothing is armed before. *)
NumberInv == /\ cur = 0 => pc = "none" /\ gState # "CTRL" /\ hw = Off
             /\ dev.stage # "IDLE" => dev.req # 0
             /\ \A r \in 1 .. K : r > cur => result[r] = "none"
             /\ pc # "none" => result[cur] = "none"

(* Only open channels are armed, and one that is armed has shown URB_IDLE since
   it was; the SETUP packet is what an OUT channel was armed for last. *)
ArmedInv == /\ \A c \in Chan : hw[c] # "off" => open /\ urb[c] = "IDLE"
            /\ hw["IN"] # "SETUP"
            /\ Underway =>
                 /\ hw["OUT"] = "SETUP" => state = "SETUP"
                 /\ state = "SETUP" /\ waiting => hw["OUT"] # "DATA"
                 /\ state \in Stages /\ (waiting \/ state # "SETUP") => open
                 /\ state # "IDLE"
            /\ pc = "handle" => RequestState = "WAIT"

(* The device has been through stage s of the request. *)
StatusStage == [IN |-> "STATUS_OUT", OUT |-> "STATUS_IN",
                NODATA |-> "STATUS_IN", NODATA_IN |-> "STATUS_OUT"]
Behind(s) == CASE s = "SETUP" -> {AfterSetup[kind], StatusStage[kind], "IDLE"}
               [] s \in {"DATA_IN", "DATA_OUT"} -> {StatusStage[kind], "IDLE"}
               [] OTHER -> {}
Passed(s) == cur \in done \/ (dev.req = cur /\ dev.stage \in Behind(s))

(* The host is never ahead of the device. *)
Begun == CASE state = "SETUP" -> TRUE
           [] state \in {"DATA_IN", "DATA_OUT"} -> AfterSetup[kind] = state /\ Passed("SETUP")
           [] state \in {"STATUS_IN", "STATUS_OUT"} ->
                /\ StatusStage[kind] = state
                /\ cur \in done \/ (dev.req = cur /\ dev.stage \in {state, "IDLE"})
           [] state = "COMPLETE" -> cur \in done
           [] OTHER -> TRUE
InStep == /\ Begun
          /\ state \in Stages /\ waiting /\ urb[Channel(state)] = "DONE" => Passed(state)
StepInv == Underway => InStep
LastInv == pc = "leave" /\ last = "OK" => cur \in done

IInv == TypeOK /\ NumberInv /\ ArmedInv /\ StepInv /\ LastInv /\ OkMeansDone

(* For StatusMeansOver.  A device is in a transfer only while its caller polls
   for the request, as the dispatch state saved is never that of a transfer. *)
PollingInv == ~client.blocking => /\ pc \in {"none", "async"} /\ gStateBkp = "TASK"
                                  /\ gState = "CTRL" => pc = "async"

(* A blocking caller whose device may refuse but meets no error always knows
   where its request stands, so it never leaves it behind: host and device are
   in the same stage, or the answer of the device is there. *)
Patient == client.blocking /\ client.faults \subseteq {"nak", "stall"}
Shows(c) ==
  \/ urb[c] = "IDLE" /\ hw[c] = (IF state = "SETUP" THEN "SETUP" ELSE "DATA")
     /\ (state # "SETUP" => dev.stage = state)
  \/ urb[c] = "DONE" /\ hw[c] = "off"
     /\ (NextStage(state) # "COMPLETE" => dev.stage = NextStage(state))
  \/ urb[c] = "STALL" /\ hw[c] = "off" /\ state \in {"DATA_IN", "DATA_OUT", "STATUS_IN"}
  \/ urb[c] = "NOTREADY" /\ hw[c] = "off" /\ state \in {"DATA_OUT", "STATUS_OUT"}
     /\ dev.stage = state
Together ==
  /\ ~late /\ state \in Stages \cup {"COMPLETE"}
  /\ state = "COMPLETE" => pc = "req" /\ gState # "CTRL" /\ hw = Off
  /\ state \in Stages /\ ~waiting => hw = Off /\ (state # "SETUP" => dev.stage = state)
  /\ state \in Stages /\ waiting =>
       /\ \A c \in Chan : c # Channel(state) => hw[c] = "off"
       /\ Shows(Channel(state))
PatientInv == Patient =>
  /\ pc # "async" /\ gStateBkp # "CTRL"
  /\ Underway => Together
  /\ ~Underway => gState # "CTRL" /\ hw = Off /\ (pc = "req" => ~late /\ ~waiting)
  /\ pc \in {"none", "pre", "leave"} => state \notin Stages \/ waiting

USE ClientsAssumption, ControlAssumption
----------------------------------------------------------------------------
(* Lemmas about the operators the actions are built from. *)
Status == Failures \cup {"OK", "BUSY"}

(* What a call of USBH_HandleControl that returns status leads to. *)
LEMMA ReturnedFacts ==
  ASSUME NEW status \in Status, Returned(status), HandleTurn, TypeOK
  PROVE  /\ last' \in Status
         /\ UNCHANGED <<alloc, cur, kind, result, RequestState>>
         /\ pc = "pre" => pc' = "reset" /\ last' = last
         /\ pc \in {"none", "async"} => pc' = pc /\ last' = last
         /\ pc = "handle" => \/ pc' = "leave" /\ last' = status
                             \/ pc' = "req" /\ last' = last
         /\ pc \in {"none", "async", "pre", "handle"}
<1>1. pc \in {"none", "async", "pre", "handle"}
  BY DEF HandleTurn
<1>2. CASE pc = "pre"
  BY <1>2 DEF Returned, TypeOK, Status
<1>3. CASE pc = "handle"
  BY <1>3 DEF Returned, TypeOK, Status
<1>4. CASE pc \in {"none", "async"}
  BY <1>4 DEF Returned, TypeOK, Status
<1>5. QED
  BY <1>1, <1>2, <1>3, <1>4

LEMMA StageFacts ==
  ASSUME TypeOK, NEW s \in Stages
  PROVE  /\ NextStage(s) \in Stages \cup {"COMPLETE"}
         /\ NextStage("SETUP") \in Stages
         /\ Channel(s) \in Chan
BY DEF TypeOK, NextStage, AfterSetup, Stages, Channel, Chan, InStages, Kinds

(* The device takes a packet of the armed channel c. *)
LEMMA AdvanceFacts ==
  ASSUME TypeOK, NumberInv, NEW c \in Chan, hw[c] # "off", Answers(c), Advance(c)
  PROVE  /\ dev' \in [req : 0 .. K, stage : Stages \cup {"IDLE"}]
         /\ done' \subseteq 1 .. K /\ done \subseteq done'
         /\ dev'.stage # "IDLE" => dev'.req # 0
<1>1. cur \in 1 .. K
  BY DEF TypeOK, NumberInv, Off, Chan
<1>2. CASE hw[c] = "SETUP"
  <2>1. NextStage("SETUP") \in Stages
    BY StageFacts DEF Stages
  <2>2. dev' = [req |-> cur, stage |-> NextStage("SETUP")] /\ done' = done
    BY <1>2, <2>1 DEF Advance, Stages
  <2>3. QED
    BY <1>1, <2>1, <2>2 DEF TypeOK
<1>3. CASE hw[c] # "SETUP"
  <2>1. dev.stage \in Stages /\ dev.req \in 1 .. K
    BY <1>3 DEF Answers, TypeOK, NumberInv, Stages
  <2>2. NextStage(dev.stage) \in Stages \cup {"COMPLETE"}
    BY <2>1, StageFacts
  <2>3. dev' = [req |-> dev.req,
                stage |-> IF NextStage(dev.stage) = "COMPLETE" THEN "IDLE" ELSE NextStage(dev.stage)]
    BY <1>3 DEF Advance
  <2>4. done' = IF NextStage(dev.stage) = "COMPLETE" THEN done \cup {dev.req} ELSE done
    BY <1>3 DEF Advance
  <2>5. CASE NextStage(dev.stage) = "COMPLETE"
    BY <2>1, <2>3, <2>4, <2>5 DEF TypeOK
  <2>6. CASE NextStage(dev.stage) # "COMPLETE"
    <3>1. NextStage(dev.stage) \in Stages
      BY <2>2, <2>6
    <3> DEFINE n == NextStage(dev.stage)
    <3>2. n \in Stages /\ dev' = [req |-> dev.req, stage |-> n] /\ done' = done
      BY <2>3, <2>4, <2>6, <3>1
    <3> HIDE DEF n
    <3>3. QED
      BY <2>1, <3>2 DEF TypeOK
  <2>7. QED
    BY <2>5, <2>6
<1>4. QED
  BY <1>2, <1>3
----------------------------------------------------------------------------
(* Types. *)
LEMMA Sizes == /\ K \in Nat /\ MaxErrorCount \in Nat /\ TotalErrLimit \in Nat
               /\ client \in Clients => client.max \in Nat
OBVIOUS

LEMMA TypeInit == Init => TypeOK
<1> SUFFICES ASSUME Init PROVE TypeOK
  OBVIOUS
<1>1. cur \in 0 .. K /\ faults \in 0 .. client.max /\ done \subseteq 1 .. K
  BY Sizes DEF Init
<1>2. urb \in [Chan -> UrbState] /\ hw \in [Chan -> {"off", "SETUP", "DATA"}]
  BY DEF Init, Off, UrbState
<1>3. dev \in [req : 0 .. K, stage : Stages \cup {"IDLE"}]
  BY Sizes DEF Init
<1>4. result \in [1 .. K -> Failures \cup {"OK", "BUSY", "none"}]
  BY DEF Init
<1>5. /\ state = "IDLE" /\ waiting \in BOOLEAN /\ (waiting => state \in Stages)
      /\ late \in BOOLEAN /\ alloc \in BOOLEAN
      /\ open \in BOOLEAN /\ client \in Clients
      /\ gState = "TASK" /\ gStateBkp = "TASK" /\ RequestState = "SEND"
      /\ errorcount = 0 /\ total_err = 0 /\ errOut = 0
      /\ pc = "none" /\ last = "BUSY" /\ kind = "NODATA"
  BY DEF Init
<1>6. QED
  BY <1>1, <1>2, <1>3, <1>4, <1>5 DEF TypeOK, Kinds

LEMMA TypeCaller ==
  ASSUME TypeOK, NumberInv,
         \/ CtlReqSend \/ CtlReqWait \/ BlockingCall \/ BlockingReset \/ BlockingSend
         \/ BlockingWait \/ BlockingReturn,
         UNCHANGED client
  PROVE  TypeOK'
<1> USE DEF TypeOK, flow, disp, errv, chan, call, devv
<1>1. CASE CtlReqSend
  <2>1. cur' \in 0 .. K
    BY <1>1, Sizes DEF CtlReqSend, NewRequest
  <2>2. QED
    BY <1>1, <2>1 DEF CtlReqSend, NewRequest, Submit, Stages
<1>2. CASE CtlReqWait
  <2>1. state' \in {"IDLE", state} /\ waiting' = FALSE /\ RequestState' = "SEND"
    BY <1>2 DEF CtlReqWait, Answer
  <2>2. Polled \in Failures \cup {"OK", "BUSY"}
    BY DEF Polled, Failures
  <2>3. result' \in [1 .. K -> Failures \cup {"OK", "BUSY", "none"}]
    BY <1>2, <2>2 DEF CtlReqWait
  <2>4. QED
    BY <1>2, <2>1, <2>3 DEF CtlReqWait
<1>3. CASE BlockingCall
  BY <1>3 DEF BlockingCall, NewRequest
<1>4. CASE BlockingReset
  BY <1>4 DEF BlockingReset
<1>5. CASE BlockingSend
  BY <1>5 DEF BlockingSend, Submit, Stages
<1>6. CASE BlockingWait
  <2>1. /\ state' \in {"IDLE", state} /\ waiting' \in BOOLEAN
        /\ (waiting' => state' \in Stages)
        /\ RequestState' \in {"SEND", "WAIT"}
    <3>1. CASE Answer
      BY <3>1 DEF Answer
    <3>2. CASE UNCHANGED <<flow, RequestState>>
      BY <3>2
    <3>3. QED
      BY <1>6, <3>1, <3>2 DEF BlockingWait
  <2>2. Polled \in Failures \cup {"OK", "BUSY"}
    BY DEF Polled, Failures
  <2>3. last' \in Failures \cup {"OK", "BUSY"} /\ pc' \in {"handle", "leave"}
    BY <1>6, <2>2 DEF BlockingWait
  <2>4. /\ UNCHANGED <<disp, errv, chan, late, alloc, cur, kind, result, devv, faults>>
    BY <1>6 DEF BlockingWait
  <2>5. QED
    BY <2>1, <2>3, <2>4
<1>7. CASE BlockingReturn
  <2>1. result' \in [1 .. K -> Failures \cup {"OK", "BUSY", "none"}]
    BY <1>7 DEF BlockingReturn
  <2>2. /\ hw' \in [Chan -> {"off", "SETUP", "DATA"}]
        /\ open' \in BOOLEAN /\ urb' \in [Chan -> UrbState]
    BY <1>7 DEF BlockingReturn, Off
  <2>3. QED
    BY <1>7, <2>1, <2>2 DEF BlockingReturn
<1>8. QED
  BY <1>1, <1>2, <1>3, <1>4, <1>5, <1>6, <1>7

LEMMA TypeHandler ==
  ASSUME TypeOK, HandleControl, UNCHANGED client
  PROVE  TypeOK'
<1> USE DEF flow, disp, errv, chan, call, devv
<1>0. ASSUME NEW status \in Status, Returned(status), HandleTurn,
             UNCHANGED <<devv, faults>>,
             state' \in Stages \cup {"IDLE", "COMPLETE", "ERROR", "STALLED"},
             waiting' \in BOOLEAN, waiting' => state' \in Stages, late' \in BOOLEAN,
             gState' \in {gState, gStateBkp, "DISCONNECTED"}, UNCHANGED gStateBkp,
             errorcount' \in 0 .. 255, total_err' \in 0 .. 255,
             open' \in BOOLEAN, urb' \in [Chan -> UrbState],
             hw' \in [Chan -> {"off", "SETUP", "DATA"}], UNCHANGED errOut
      PROVE  TypeOK'
  BY <1>0, ReturnedFacts DEF TypeOK, Status
<1>1. CASE Transmit
  <2>1. Channel(state) \in Chan /\ open' \in BOOLEAN
    BY <1>1, StageFacts DEF Transmit, TypeOK
  <2>2. urb' \in [Chan -> UrbState] /\ hw' \in [Chan -> {"off", "SETUP", "DATA"}]
    BY <1>1, <2>1 DEF Transmit, TypeOK, SubmittedUrb, UrbState
  <2>3. QED
    BY <1>0, <1>1, <2>1, <2>2 DEF Transmit, TypeOK, Status
<1>2. CASE StageDone
  <2>1. NextStage(state) \in Stages \cup {"COMPLETE"}
    BY <1>2, StageFacts DEF StageDone, Waiting
  <2>2. QED
    BY <1>0, <1>2, <2>1 DEF StageDone, Waiting, Restored, TypeOK, Status
<1>3. CASE StageStall
  BY <1>0, <1>3 DEF StageStall, Waiting, Restored, TypeOK, Status, Failures
<1>4. CASE StageNotReady
  BY <1>0, <1>4 DEF StageNotReady, Waiting, TypeOK, Status
<1>5. CASE StageError
  BY <1>0, <1>5 DEF StageError, StageFails, Waiting, TypeOK, Status
<1>6. CASE StageTimeout
  BY <1>0, <1>6 DEF StageTimeout, StageFails, Waiting, TypeOK, Status
<1>7. CASE StagePending
  BY <1>0, <1>7 DEF StagePending, Waiting, TypeOK, Status
<1>8. CASE RetryOrFail
  <2>1. errorcount' \in 0 .. 255 /\ total_err' \in 0 .. 255
    <3>1. /\ errorcount' = (errorcount + 1) % 256
          /\ total_err' = total_err \/ total_err' = (total_err + 1) % 256
      BY <1>8 DEF RetryOrFail
    <3>2. errorcount \in 0 .. 255 /\ total_err \in 0 .. 255
      BY DEF TypeOK
    <3>3. \A n \in 0 .. 255 : (n + 1) % 256 \in 0 .. 255
      OBVIOUS
    <3>4. QED
      BY <3>1, <3>2, <3>3
  <2>2. QED
    BY <1>0, <1>8, <2>1 DEF RetryOrFail, GiveUpState, Restored, TypeOK, Status, Failures, Stages
<1>9. CASE AtRest
  <2>1. total_err' \in 0 .. 255
    BY <1>9 DEF AtRest, TypeOK
  <2>2. QED
    BY <1>0, <1>9, <2>1 DEF AtRest, TypeOK, Status
<1>10. QED
  BY <1>1, <1>2, <1>3, <1>4, <1>5, <1>6, <1>7, <1>8, <1>9 DEF HandleControl

LEMMA TypeBus ==
  ASSUME TypeOK, NumberInv, Bus \/ Elapse, UNCHANGED client
  PROVE  TypeOK'
<1> USE DEF flow, disp, errv, chan, call, devv
<1>0. /\ client.max \in Nat
      /\ \A f : Fault(f) => faults' \in 0 .. client.max
  BY DEF TypeOK, Fault
<1>1. \A c \in Chan, u \in UrbState :
        Halted(c, u) => /\ urb' \in [Chan -> UrbState]
                        /\ hw' \in [Chan -> {"off", "SETUP", "DATA"}]
  BY DEF Halted, TypeOK
<1>2. ASSUME NEW c \in Chan, Transfer(c) PROVE TypeOK'
  <2>1. hw[c] # "off"
    BY <1>2 DEF Transfer, Answers
  <2>2. QED
    BY <1>1, <1>2, <2>1, AdvanceFacts DEF Transfer, TypeOK, UrbState
<1>3. ASSUME NEW c \in Chan, Stall(c) PROVE TypeOK'
  <2>1. dev' \in [req : 0 .. K, stage : Stages \cup {"IDLE"}]
    BY <1>3 DEF Stall, TypeOK
  <2>2. QED
    BY <1>0, <1>1, <1>3, <2>1 DEF Stall, StallFault, TypeOK, UrbState
<1>4. CASE NakOut
  BY <1>0, <1>1, <1>4 DEF NakOut, TypeOK, UrbState, Chan
<1>5. CASE XactErrIn
  BY <1>0, <1>1, <1>5 DEF XactErrIn, TypeOK, UrbState, Chan
<1>6. CASE XactErrOut
  <2>1. urb["OUT"] \in UrbState
    BY DEF TypeOK, Chan
  <2>2. /\ urb' \in [Chan -> UrbState] /\ hw' \in [Chan -> {"off", "SETUP", "DATA"}]
        /\ errOut' \in 0 .. 2
    BY <1>1, <1>6, <2>1 DEF XactErrOut, TypeOK, UrbState, Chan, OutErrLimit
  <2>3. dev' \in [req : 0 .. K, stage : Stages \cup {"IDLE"}] /\ done' \subseteq 1 .. K
    BY <1>6, AdvanceFacts DEF XactErrOut, TypeOK, Chan
  <2>4. QED
    BY <1>0, <1>6, <2>2, <2>3 DEF XactErrOut, TypeOK
<1>7. CASE Elapse
  BY <1>0, <1>7 DEF Elapse, TypeOK
<1>8. QED
  BY <1>2, <1>3, <1>4, <1>5, <1>6, <1>7 DEF Bus

LEMMA TypeStep == TypeOK /\ NumberInv /\ [Next]_vars => TypeOK'
<1> SUFFICES ASSUME TypeOK, NumberInv, [Next]_vars PROVE TypeOK'
  OBVIOUS
<1>1. CASE UNCHANGED vars
  BY <1>1 DEF vars, moves, flow, disp, errv, chan, call, devv, TypeOK
<1>2. QED
  BY <1>1, TypeCaller, TypeHandler, TypeBus DEF Next, Main
----------------------------------------------------------------------------
(* Every step but the caller's is a step of one of two kinds. *)
HandlerStep == /\ HandleTurn /\ UNCHANGED <<client, alloc, cur, kind, result, RequestState,
                                           errOut, devv, faults, gStateBkp>>
               /\ pc = "pre" => pc' = "reset"
               /\ pc \in {"none", "async"} => pc' = pc
               /\ pc = "handle" => pc' \in {"leave", "req"}
               /\ pc \in {"none", "async", "pre", "handle"}
               /\ pc' # "leave" => last' = last
               /\ gState' \in {gState, gStateBkp, "DISCONNECTED"}
LEMMA HandlerFacts ==
  ASSUME TypeOK, HandleControl, UNCHANGED client PROVE HandlerStep
<1> USE DEF flow, disp, errv, chan, call, devv
<1>0. ASSUME NEW status \in Status, Returned(status), HandleTurn,
             UNCHANGED <<errOut, devv, faults, gStateBkp>>,
             gState' \in {gState, gStateBkp, "DISCONNECTED"}
      PROVE  HandlerStep
  BY <1>0, ReturnedFacts DEF HandlerStep
<1>1. CASE Transmit
  BY <1>0, <1>1 DEF Transmit, Status
<1>2. CASE StageDone
  BY <1>0, <1>2 DEF StageDone, Waiting, Restored, Status
<1>3. CASE StageStall
  BY <1>0, <1>3 DEF StageStall, Waiting, Restored, Status, Failures
<1>4. CASE StageNotReady \/ StageError \/ StageTimeout \/ StagePending
  BY <1>0, <1>4 DEF StageNotReady, StageError, StageTimeout, StagePending, StageFails, Waiting, Status
<1>5. CASE RetryOrFail
  BY <1>0, <1>5 DEF RetryOrFail, GiveUpState, Restored, Status, Failures
<1>6. CASE AtRest
  BY <1>0, <1>6 DEF AtRest, Status
<1>7. QED
  BY <1>1, <1>2, <1>3, <1>4, <1>5, <1>6 DEF HandleControl

(* A step of the bus: one armed channel halts, the device goes on or does not. *)
Halts(c) == /\ hw[c] # "off" /\ hw' = [hw EXCEPT ![c] = "off"]
            /\ \E u \in UrbState : urb' = [urb EXCEPT ![c] = u]
BusStep == /\ UNCHANGED <<client, flow, disp, open, late, call>>
           /\ done \subseteq done' /\ (dev'.stage # "IDLE" => dev'.req # 0)
           /\ \E c \in Chan : Halts(c)
LEMMA BusFacts ==
  ASSUME TypeOK, NumberInv, Bus, UNCHANGED client PROVE BusStep
<1> USE DEF flow, disp, errv, chan, call, devv
<1>1. ASSUME NEW c \in Chan, Transfer(c) PROVE BusStep
  <2>1. hw[c] # "off"
    BY <1>1 DEF Transfer, Answers
  <2>2. QED
    BY <1>1, <2>1, AdvanceFacts DEF BusStep, Halts, Transfer, Halted, UrbState
<1>2. ASSUME NEW c \in Chan, Stall(c) PROVE BusStep
  <2>1. dev'.stage = "IDLE"
    BY <1>2 DEF Stall, TypeOK
  <2>2. QED
    BY <1>2, <2>1 DEF BusStep, Halts, Stall, Halted, UrbState
<1>3. CASE NakOut \/ XactErrIn
  BY <1>3 DEF BusStep, Halts, NakOut, XactErrIn, Halted, UrbState, Chan, NumberInv
<1>4. CASE XactErrOut
  <2>1. "OUT" \in Chan /\ urb["OUT"] \in UrbState /\ "ERROR" \in UrbState
    BY DEF TypeOK, Chan, UrbState
  <2>2. done \subseteq done' /\ (dev'.stage # "IDLE" => dev'.req # 0)
    BY <1>4, <2>1, AdvanceFacts DEF XactErrOut, NumberInv
  <2>3. Halts("OUT")
    BY <1>4, <2>1 DEF XactErrOut, Halted, Halts
  <2>4. QED
    BY <1>4, <2>1, <2>2, <2>3 DEF BusStep, XactErrOut
<1>5. QED
  BY <1>1, <1>2, <1>3, <1>4 DEF Bus
----------------------------------------------------------------------------
LEMMA NumberStep == TypeOK /\ NumberInv /\ [Next]_vars => NumberInv'
<1> SUFFICES ASSUME TypeOK, NumberInv, [Next]_vars PROVE NumberInv'
  OBVIOUS
<1> USE DEF flow, disp, errv, chan, call, devv
<1>0. cur \in 0 .. K /\ K \in Nat /\ result \in [1 .. K -> Failures \cup {"OK", "BUSY", "none"}]
  BY Sizes DEF TypeOK
<1>1. CASE UNCHANGED vars
  BY <1>1 DEF vars, moves, NumberInv
<1>2. CASE CtlReqSend \/ BlockingCall
  <2>1. cur' = cur + 1 /\ cur' \in 1 .. K /\ UNCHANGED <<result, dev>>
    BY <1>0, <1>2 DEF CtlReqSend, BlockingCall, NewRequest
  <2>2. QED
    BY <1>0, <2>1 DEF NumberInv
<1>3. CASE CtlReqWait \/ BlockingReturn
  <2>1. pc # "none" /\ pc' = "none" /\ UNCHANGED <<cur, dev>>
    BY <1>3 DEF CtlReqWait, BlockingReturn
  <2>2. cur # 0 /\ \E x : result' = [result EXCEPT ![cur] = x]
    BY <1>3, <2>1 DEF CtlReqWait, BlockingReturn, NumberInv
  <2>3. QED
    BY <1>0, <2>1, <2>2 DEF NumberInv
<1>4. CASE BlockingReset \/ BlockingSend \/ BlockingWait
  <2>1. pc # "none" /\ UNCHANGED <<cur, dev, result>>
    BY <1>4 DEF BlockingReset, BlockingSend, BlockingWait
  <2>2. QED
    BY <2>1 DEF NumberInv
<1>5. CASE HandleControl /\ UNCHANGED client
  <2>1. HandlerStep
    BY <1>5, HandlerFacts
  <2>2. cur # 0
    BY <2>1 DEF HandlerStep, HandleTurn, NumberInv
  <2>3. QED
    BY <2>1, <2>2 DEF HandlerStep, NumberInv
<1>6. CASE Bus /\ UNCHANGED client
  <2>1. BusStep
    BY <1>6, BusFacts
  <2>2. cur # 0
    BY <2>1 DEF BusStep, Halts, NumberInv, Off
  <2>3. QED
    BY <2>1, <2>2 DEF BusStep, NumberInv
<1>7. CASE Elapse
  BY <1>7 DEF Elapse, NumberInv
<1>8. QED
  BY <1>1, <1>2, <1>3, <1>4, <1>5, <1>6, <1>7 DEF Next, Main
----------------------------------------------------------------------------
LEMMA ArmedStep == TypeOK /\ ArmedInv /\ NumberInv /\ [Next]_vars => ArmedInv'
<1> SUFFICES ASSUME TypeOK, ArmedInv, NumberInv, [Next]_vars PROVE ArmedInv'
  OBVIOUS
<1> USE DEF flow, disp, errv, chan, call, devv, Underway
<1>0. /\ hw \in [Chan -> {"off", "SETUP", "DATA"}] /\ "IN" \in Chan /\ "OUT" \in Chan
      /\ urb \in [Chan -> UrbState] /\ "SETUP" \in Stages /\ Channel("SETUP") = "OUT"
      /\ waiting => state \in Stages
      /\ "IDLE" \notin Stages /\ "ERROR" \notin Stages /\ "COMPLETE" \notin Stages
      /\ "STALLED" \notin Stages
  BY DEF TypeOK, Chan, Channel, InStages, Stages
<1>1. CASE UNCHANGED vars
  BY <1>1 DEF vars, moves, ArmedInv
<1>2. CASE CtlReqSend \/ BlockingSend
  BY <1>0, <1>2 DEF CtlReqSend, BlockingSend, Submit, ArmedInv, NewRequest
<1>3. CASE CtlReqWait
  BY <1>3 DEF CtlReqWait, ArmedInv
<1>4. CASE BlockingCall
  BY <1>0, <1>4 DEF BlockingCall, ArmedInv
<1>5. CASE BlockingReset
  BY <1>5 DEF BlockingReset, ArmedInv
<1>6. CASE BlockingWait
  BY <1>6 DEF BlockingWait, Answer, ArmedInv
<1>7. CASE BlockingReturn
  BY <1>0, <1>7 DEF BlockingReturn, Off, ArmedInv
<1>8. CASE HandleControl /\ UNCHANGED client
  <2>0. HandlerStep
    BY <1>8, HandlerFacts
  <2>1. CASE Transmit
    <3>1. state \in Stages /\ Channel(state) \in Chan /\ waiting' = TRUE /\ state' = state
      BY <2>1, StageFacts DEF Transmit
    <3>2. \/ Channel(state) = "OUT" /\ state = "SETUP"
          \/ Channel(state) \in Chan /\ state # "SETUP"
      BY <3>1, <1>0 DEF Chan
    <3>3. Underway => open'
      BY <2>0, <2>1, <1>0 DEF Transmit, ArmedInv
    <3>4. Underway' => Underway
      BY <2>0 DEF HandlerStep, ArmedInv
    <3>5. (open /\ ~open' => FALSE) /\ (~open' => UNCHANGED <<urb, hw>>)
      BY <2>1 DEF Transmit
    <3>6. open' => /\ urb' = [urb EXCEPT ![Channel(state)] = "IDLE"]
                   /\ hw' = [hw EXCEPT ![Channel(state)] =
                                IF state = "SETUP" THEN "SETUP" ELSE "DATA"]
      BY <2>1 DEF Transmit, SubmittedUrb
    <3>7. \A c \in Chan : hw'[c] # "off" => open' /\ urb'[c] = "IDLE"
      BY <1>0, <3>1, <3>5, <3>6 DEF ArmedInv
    <3>8. hw'["IN"] # "SETUP"
      BY <1>0, <3>1, <3>2, <3>5, <3>6 DEF ArmedInv
    <3>9. Underway' => /\ hw'["OUT"] = "SETUP" => state' = "SETUP"
                       /\ state' = "SETUP" /\ waiting' => hw'["OUT"] # "DATA"
      BY <1>0, <3>1, <3>2, <3>3, <3>4, <3>6 DEF ArmedInv
    <3>10. QED
      BY <2>0, <3>1, <3>3, <3>4, <3>7, <3>8, <3>9, <1>0 DEF HandlerStep, ArmedInv
  <2>2. ASSUME UNCHANGED chan,
               hw["OUT"] = "SETUP" /\ state = "SETUP" => (state' = "SETUP" /\ waiting' = FALSE)
                                                        \/ UNCHANGED flow,
               state' = "SETUP" /\ waiting' => UNCHANGED flow,
               Underway /\ state' \in Stages /\ (waiting' \/ state' # "SETUP") => open,
               state # "IDLE" => state' # "IDLE"
        PROVE  ArmedInv'
    BY <2>0, <2>2, <1>0 DEF HandlerStep, ArmedInv
  <2>3. CASE StageDone
    <3>1. hw["OUT"] = "SETUP" => (state # "SETUP" \/ ~open)
      BY <2>3, <1>0 DEF StageDone, Waiting, ArmedInv
    <3>2. state \in Stages /\ waiting /\ state' = NextStage(state) /\ waiting' = FALSE /\ UNCHANGED chan
      BY <2>3 DEF StageDone, Waiting
    <3>3. Underway => open
      BY <3>2 DEF ArmedInv
    <3>4. state' # "IDLE" /\ state' # "SETUP"
      BY <3>2 DEF NextStage, AfterSetup, TypeOK, Kinds, Stages
    <3>5. QED
      BY <2>0, <3>1, <3>2, <3>3, <3>4, <1>0 DEF HandlerStep, ArmedInv
  <2>4. CASE StageStall
    BY <2>2, <2>4, <1>0 DEF StageStall, Waiting, ArmedInv
  <2>5. CASE StageNotReady
    BY <2>2, <2>5, <1>0 DEF StageNotReady, Waiting, ArmedInv
  <2>6. CASE StageError
    <3>1. hw["OUT"] = "SETUP" /\ state = "SETUP" => ~open
      BY <2>6, <1>0 DEF StageError, Waiting, ArmedInv
    <3>2. QED
      BY <2>2, <2>6, <3>1, <1>0 DEF StageError, StageFails, Waiting, ArmedInv
  <2>7. CASE StageTimeout
    BY <2>2, <2>7, <1>0 DEF StageTimeout, StageFails, Waiting, ArmedInv, InStages
  <2>8. CASE StagePending
    BY <2>2, <2>8, <1>0 DEF StagePending, Waiting, ArmedInv
  <2>9. CASE RetryOrFail
    BY <2>2, <2>9, <1>0 DEF RetryOrFail, ArmedInv
  <2>10. CASE AtRest
    BY <2>2, <2>10, <1>0 DEF AtRest, ArmedInv
  <2>11. QED
    BY <1>8, <2>1, <2>3, <2>4, <2>5, <2>6, <2>7, <2>8, <2>9, <2>10 DEF HandleControl
<1>9. CASE Bus /\ UNCHANGED client
  <2>1. BusStep
    BY <1>9, BusFacts
  <2>2. PICK c \in Chan : Halts(c)
    BY <2>1 DEF BusStep
  <2>3. hw' = [hw EXCEPT ![c] = "off"] /\ \A d \in Chan : d # c => urb'[d] = urb[d]
    BY <2>2, <1>0 DEF Halts
  <2>4. QED
    BY <2>1, <2>3, <1>0 DEF BusStep, ArmedInv
<1>10. CASE Elapse
  BY <1>10 DEF Elapse, ArmedInv
<1>11. QED
  BY <1>1, <1>2, <1>3, <1>4, <1>5, <1>6, <1>7, <1>8, <1>9, <1>10 DEF Next, Main
----------------------------------------------------------------------------
(* The order of the stages. *)
LEMMA StageOrder ==
  ASSUME TypeOK
  PROVE  /\ AfterSetup[kind] \in {"DATA_IN", "DATA_OUT", StatusStage[kind]}
         /\ StatusStage[kind] \in {"STATUS_IN", "STATUS_OUT"}
         /\ NextStage("SETUP") = AfterSetup[kind]
         /\ AfterSetup[kind] \in {"DATA_IN", "DATA_OUT"} =>
              /\ NextStage(AfterSetup[kind]) = StatusStage[kind]
              /\ Channel(AfterSetup[kind]) # Channel(StatusStage[kind])
         /\ NextStage("STATUS_IN") = "COMPLETE" /\ NextStage("STATUS_OUT") = "COMPLETE"
BY DEF TypeOK, Kinds, AfterSetup, StatusStage, NextStage, Channel, InStages

(* The device's part of Begun and Passed, seen from the host's stage s. *)
HostDev(s) == CASE s = "SETUP" -> TRUE
                [] s \in {"DATA_IN", "DATA_OUT"} -> AfterSetup[kind] = s /\ Passed("SETUP")
                [] OTHER -> /\ StatusStage[kind] = s
                            /\ cur \in done \/ (dev.req = cur /\ dev.stage \in {s, "IDLE"})

LEMMA HostStage ==
  ASSUME NEW s \in Stages, state = s PROVE Begun <=> HostDev(s)
BY DEF Begun, HostDev, Stages

(* The device takes the packet of channel c while the host is in stage s: the
   host does not get ahead, what the device has passed stays passed, and it has
   passed s if it is the packet of that stage that was taken. *)
LEMMA DeviceAdvances ==
  ASSUME TypeOK, NumberInv, ArmedInv, Underway, NEW s \in Stages, state = s,
         HostDev(s), NEW c \in Chan, Answers(c), Advance(c), UNCHANGED <<cur, kind>>
  PROVE  /\ HostDev(s)'
         /\ Passed(s) => Passed(s)'
         /\ waiting /\ Channel(s) = c => Passed(s)'
<1> DEFINE after == AfterSetup[kind]
           status == StatusStage[kind]
<1>0. /\ after \in {"DATA_IN", "DATA_OUT", status} /\ status \in {"STATUS_IN", "STATUS_OUT"}
      /\ NextStage("SETUP") = after
      /\ after \in {"DATA_IN", "DATA_OUT"} => NextStage(after) = status
      /\ after \in {"DATA_IN", "DATA_OUT"} => Channel(after) # Channel(status)
      /\ NextStage(status) = "COMPLETE"
      /\ after' = after /\ status' = status
  BY StageOrder
<1> HIDE DEF after, status
<1> DEFINE BehindSetup == {after, status, "IDLE"}
<1>01. /\ Passed("SETUP") <=> (cur \in done \/ (dev.req = cur /\ dev.stage \in BehindSetup))
       /\ \A d \in {"DATA_IN", "DATA_OUT"} :
            Passed(d) <=> (cur \in done \/ (dev.req = cur /\ dev.stage \in {status, "IDLE"}))
       /\ \A d \in {"STATUS_IN", "STATUS_OUT"} : Passed(d) <=> cur \in done
  BY DEF Passed, Behind, after, status
<1>02. /\ Passed("SETUP")' <=> (cur \in done' \/ (dev'.req = cur /\ dev'.stage \in BehindSetup))
       /\ \A d \in {"DATA_IN", "DATA_OUT"} :
            Passed(d)' <=> (cur \in done' \/ (dev'.req = cur /\ dev'.stage \in {status, "IDLE"}))
       /\ \A d \in {"STATUS_IN", "STATUS_OUT"} : Passed(d)' <=> cur \in done'
  BY DEF Passed, Behind, after, status
<1>03. /\ HostDev(s) <=>
            CASE s = "SETUP" -> TRUE
              [] s \in {"DATA_IN", "DATA_OUT"} -> after = s /\ Passed("SETUP")
              [] OTHER -> status = s /\ (cur \in done \/ (dev.req = cur /\ dev.stage \in {s, "IDLE"}))
       /\ HostDev(s)' <=>
            CASE s = "SETUP" -> TRUE
              [] s \in {"DATA_IN", "DATA_OUT"} -> after = s /\ Passed("SETUP")'
              [] OTHER -> status = s /\ (cur \in done' \/ (dev'.req = cur /\ dev'.stage \in {s, "IDLE"}))
  BY <1>0 DEF HostDev, after, status
<1>1. CASE hw[c] = "SETUP"
  <2>1. s = "SETUP"
    BY <1>1 DEF ArmedInv, Chan
  <2>2. dev' = [req |-> cur, stage |-> after]
    BY <1>0, <1>1 DEF Advance
  <2>3. Passed("SETUP")'
    BY <1>02, <2>2
  <2>4. QED
    BY <2>1, <2>3, <1>03
<1>2. CASE hw[c] # "SETUP"
  <2>1. dev.stage \in Stages /\ Channel(dev.stage) = c /\ hw[c] = "DATA"
    BY <1>2 DEF Answers
  <2> DEFINE next == NextStage(dev.stage)
  <2>2. dev' = [req |-> dev.req, stage |-> IF next = "COMPLETE" THEN "IDLE" ELSE next]
        /\ done' = IF next = "COMPLETE" THEN done \cup {dev.req} ELSE done
    BY <1>2 DEF Advance
  <2>20. next \in Stages \cup {"COMPLETE"}
    BY <2>1, StageFacts
  <2> HIDE DEF next
  <2>3. CASE cur \in done
    <3>1. cur \in done'
      BY <2>2, <2>3
    <3>2. QED
      BY <3>1, <1>01, <1>02, <1>03 DEF Stages
  <2>4. CASE cur \notin done
    <3>1. CASE s = "SETUP"
      <4>1. ~(waiting /\ Channel(s) = c)
        BY <2>1, <3>1 DEF ArmedInv, Channel, InStages
      <4>2. ASSUME Passed("SETUP") PROVE Passed("SETUP")'
        <5>1. dev.req = cur /\ dev.stage \in {after, status}
          BY <4>2, <2>4, <1>01, <2>1 DEF Stages
        <5>2. next = "COMPLETE" \/ next = status
          BY <5>1, <1>0 DEF next
        <5>3. QED
          BY <5>1, <5>2, <2>2, <1>02
      <4>3. QED
        BY <3>1, <4>1, <4>2, <1>03
    <3>2. CASE s \in {"DATA_IN", "DATA_OUT"}
      <4>1. dev.req = cur /\ dev.stage \in {after, status} /\ after = s
        BY <3>2, <1>01, <1>03, <2>1, <2>4 DEF Stages
      <4>2. next = IF dev.stage = status THEN "COMPLETE" ELSE status
        BY <4>1, <3>2, <1>0 DEF next
      <4>3. cur \in done' \/ (dev'.req = cur /\ dev'.stage = status)
        BY <4>1, <4>2, <2>2, <1>0
      <4>4. QED
        BY <3>2, <4>1, <4>3, <1>02, <1>03
    <3>3. CASE s \in {"STATUS_IN", "STATUS_OUT"}
      <4>1. dev.req = cur /\ dev.stage = status
        BY <3>3, <1>03, <2>1, <2>4 DEF Stages
      <4>2. cur \in done'
        BY <4>1, <2>2, <1>0 DEF next
      <4>3. QED
        BY <3>3, <4>2, <1>02, <1>03
    <3>4. QED
      BY <3>1, <3>2, <3>3 DEF Stages
  <2>5. QED
    BY <2>3, <2>4
<1>3. QED
  BY <1>1, <1>2

(* A stage whose channel shows URB_DONE is over, and the host goes on. *)
LEMMA HostAdvances ==
  ASSUME TypeOK, NEW s \in Stages, HostDev(s), Passed(s), state' = NextStage(s),
         UNCHANGED <<cur, kind, dev, done>>
  PROVE  Begun'
<1>1. CASE s = "SETUP"
  <2>1. state' = AfterSetup[kind]
    BY <1>1, StageOrder
  <2>2. CASE AfterSetup[kind] \in {"DATA_IN", "DATA_OUT"}
    BY <1>1, <2>1, <2>2 DEF Begun, Passed, Behind
  <2>3. CASE AfterSetup[kind] = StatusStage[kind]
    <3>1. cur \in done \/ (dev.req = cur /\ dev.stage \in {state', "IDLE"})
      BY <1>1, <2>1, <2>3 DEF Passed, Behind
    <3>2. state' \in {"STATUS_IN", "STATUS_OUT"} /\ StatusStage[kind] = state'
      BY <2>1, <2>3, StageOrder
    <3>3. QED
      BY <3>1, <3>2 DEF Begun
  <2>4. QED
    BY <2>2, <2>3, StageOrder
<1>2. CASE s \in {"DATA_IN", "DATA_OUT"}
  <2>1. state' = StatusStage[kind] /\ state' \in {"STATUS_IN", "STATUS_OUT"}
    BY <1>2, StageOrder DEF HostDev
  <2>2. cur \in done \/ (dev.req = cur /\ dev.stage \in {state', "IDLE"})
    BY <1>2, <2>1 DEF Passed, Behind
  <2>3. QED
    BY <2>1, <2>2 DEF Begun
<1>3. CASE s \in {"STATUS_IN", "STATUS_OUT"}
  BY <1>3 DEF NextStage, Passed, Behind, Begun
<1>4. QED
  BY <1>1, <1>2, <1>3 DEF Stages

LEMMA StepHandler ==
  ASSUME TypeOK, NumberInv, ArmedInv, StepInv, HandleControl, UNCHANGED client
  PROVE  StepInv'
<1> USE DEF flow, disp, errv, chan, call, devv
<1>1. HandlerStep
  BY HandlerFacts
<1>2. SUFFICES ASSUME Underway' PROVE InStep'
  BY DEF StepInv
<1>3. Underway
  BY <1>1, <1>2 DEF Underway, HandlerStep, ArmedInv
<1>4. InStep
  BY <1>3 DEF StepInv
<1>5. UNCHANGED <<cur, kind, dev, done>>
  BY <1>1 DEF HandlerStep
<1>6. CASE UNCHANGED <<flow, urb>>
  BY <1>4, <1>5, <1>6 DEF InStep, Begun, Passed, Behind
<1>7. CASE waiting' = FALSE /\ state' \in {state, "SETUP", "ERROR", "STALLED"}
  BY <1>4, <1>5, <1>7 DEF InStep, Begun, Passed, Behind
<1>8. CASE Transmit
  <2>1. state \in Stages /\ state' = state /\ Channel(state) \in Chan
    BY <1>8, StageFacts DEF Transmit
  <2>2. open'
    BY <1>3, <1>8 DEF Transmit, ArmedInv
  <2>3. urb'[Channel(state)] = "IDLE"
    BY <1>8, <2>1, <2>2 DEF Transmit, SubmittedUrb, TypeOK
  <2>4. QED
    BY <1>4, <1>5, <2>1, <2>3 DEF InStep, Begun, Passed, Behind
<1>9. CASE StageDone
  <2>1. state \in Stages /\ waiting /\ waiting' = FALSE /\ state' = NextStage(state)
        /\ (open => urb[Channel(state)] = "DONE")
    BY <1>9 DEF StageDone, Waiting
  <2>2. Passed(state) /\ HostDev(state)
    BY <1>3, <1>4, <2>1, HostStage DEF ArmedInv, InStep
  <2>3. Begun'
    BY <1>5, <2>1, <2>2, HostAdvances
  <2>4. QED
    BY <2>1, <2>3 DEF InStep
<1>10. CASE StageStall
  BY <1>6, <1>7, <1>10 DEF StageStall, Waiting
<1>11. CASE StageNotReady \/ StageError \/ StageTimeout \/ StagePending
  BY <1>6, <1>7, <1>11 DEF StageNotReady, StageError, StageTimeout, StagePending, StageFails, Waiting
<1>12. CASE RetryOrFail
  <2>1. waiting' = waiting /\ ~waiting
    BY <1>12 DEF RetryOrFail, TypeOK, Stages
  <2>2. state' \in {state, "SETUP"}
    BY <1>12 DEF RetryOrFail
  <2>3. QED
    BY <1>4, <1>5, <2>1, <2>2 DEF InStep, Begun, Passed, Behind
<1>13. CASE AtRest
  BY <1>6, <1>13 DEF AtRest
<1>14. QED
  BY <1>8, <1>9, <1>10, <1>11, <1>12, <1>13 DEF HandleControl

LEMMA StepBus ==
  ASSUME TypeOK, NumberInv, ArmedInv, StepInv, Bus, UNCHANGED client
  PROVE  StepInv'
<1> USE DEF flow, disp, errv, chan, call, devv
<1>1. BusStep
  BY BusFacts
<1>2. SUFFICES ASSUME Underway' PROVE InStep'
  BY DEF StepInv
<1>3. Underway /\ UNCHANGED <<state, waiting, cur, kind>>
  BY <1>1, <1>2 DEF Underway, BusStep
<1>4. InStep
  BY <1>3 DEF StepInv
<1>5. CASE state \notin Stages
  BY <1>1, <1>3, <1>4, <1>5 DEF InStep, Begun, BusStep, Stages
<1>6. CASE state \in Stages
  <2> DEFINE s == state
  <2>1. HostDev(s) /\ (Begun' <=> HostDev(s)')
    BY <1>3, <1>4, <1>6, HostStage DEF InStep, Begun, HostDev, Stages
  <2>2. ASSUME NEW c \in Chan, Answers(c), Advance(c),
               \A d \in Chan : d # c => urb'[d] = urb[d]
        PROVE  InStep'
    <3>1. HostDev(s)' /\ (Passed(s) => Passed(s)') /\ (waiting /\ Channel(s) = c => Passed(s)')
      BY <1>3, <1>6, <2>1, <2>2, DeviceAdvances
    <3>2. Channel(s) \in Chan
      BY <1>6, StageFacts
    <3>3. QED
      BY <1>3, <1>4, <1>6, <2>1, <2>2, <3>1, <3>2 DEF InStep
  <2>3. ASSUME dev' = dev \/ (dev' = [dev EXCEPT !.stage = "IDLE"]), done' = done,
               NEW c \in Chan, NEW u \in UrbState \ {"DONE"}, urb' = [urb EXCEPT ![c] = u]
        PROVE  InStep'
    <3>1. dev'.req = dev.req /\ dev'.stage \in {dev.stage, "IDLE"}
      BY <2>3 DEF TypeOK
    <3>2. HostDev(s)' /\ (Passed(s) => Passed(s)')
      BY <1>3, <1>6, <2>1, <2>3, <3>1 DEF HostDev, Passed, Behind, Stages
    <3>3. urb'[Channel(s)] = "DONE" => urb[Channel(s)] = "DONE"
      BY <1>6, <2>3, StageFacts DEF TypeOK
    <3>4. QED
      BY <1>3, <1>4, <1>6, <2>1, <3>2, <3>3 DEF InStep
  <2>4. ASSUME NEW c \in Chan, Transfer(c) PROVE InStep'
    BY <2>2, <2>4 DEF Transfer, Halted, TypeOK
  <2>5. ASSUME NEW c \in Chan, Stall(c) PROVE InStep'
    BY <2>3, <2>5 DEF Stall, Halted, UrbState
  <2>6. CASE NakOut \/ XactErrIn
    BY <2>3, <2>6 DEF NakOut, XactErrIn, Halted, UrbState, Chan
  <2>7. CASE XactErrOut
    <3>1. PICK u \in {"ERROR", urb["OUT"]} : Halted("OUT", u)
      BY <2>7 DEF XactErrOut
    <3>2. hw["OUT"] # "off" /\ urb["OUT"] = "IDLE" /\ "OUT" \in Chan
      BY <2>7 DEF XactErrOut, ArmedInv, Chan
    <3>3. urb' = [urb EXCEPT !["OUT"] = u] /\ u \in UrbState \ {"DONE"}
      BY <3>1, <3>2 DEF Halted, UrbState
    <3>4. CASE UNCHANGED devv
      BY <2>3, <3>2, <3>3, <3>4
    <3>5. CASE Answers("OUT") /\ Advance("OUT")
      BY <2>2, <3>2, <3>3, <3>5 DEF TypeOK
    <3>6. QED
      BY <2>7, <3>4, <3>5 DEF XactErrOut
  <2>8. InStep'
    BY <2>4, <2>5, <2>6, <2>7 DEF Bus
  <2>9. QED
    BY <2>8
<1>7. QED
  BY <1>5, <1>6

LEMMA StepStep == TypeOK /\ NumberInv /\ ArmedInv /\ StepInv /\ [Next]_vars => StepInv'
<1> SUFFICES ASSUME TypeOK, NumberInv, ArmedInv, StepInv, [Next]_vars PROVE StepInv'
  OBVIOUS
<1> USE DEF flow, disp, errv, chan, call, devv
<1>1. CASE CtlReqSend \/ BlockingSend
  BY <1>1 DEF CtlReqSend, BlockingSend, Submit, StepInv, InStep, Begun, Stages
<1>2. CASE CtlReqWait \/ BlockingCall \/ BlockingReset \/ BlockingReturn
  BY <1>2 DEF CtlReqWait, BlockingCall, BlockingReset, BlockingReturn, StepInv, Underway
<1>3. CASE UNCHANGED <<state, waiting, urb, dev, done, cur, kind>> /\ (Underway' => Underway)
  BY <1>3 DEF StepInv, InStep, Begun, Passed, Behind
<1>4. CASE BlockingWait
  BY <1>3, <1>4 DEF BlockingWait, Answer, Underway, StepInv
<1>5. CASE Elapse \/ UNCHANGED vars
  BY <1>3, <1>5 DEF Elapse, vars, moves, Underway
<1>6. QED
  BY <1>1, <1>2, <1>4, <1>5, StepHandler, StepBus DEF Next, Main
----------------------------------------------------------------------------
(* What the caller is told. *)
LEMMA CompleteMeansDone ==
  ASSUME StepInv, Underway, Polled = "OK" PROVE cur \in done
BY DEF StepInv, InStep, Begun, Polled

LEMMA LastStep ==
  TypeOK /\ NumberInv /\ ArmedInv /\ StepInv /\ LastInv /\ [Next]_vars => LastInv'
<1> SUFFICES ASSUME TypeOK, NumberInv, ArmedInv, StepInv, LastInv, [Next]_vars PROVE LastInv'
  OBVIOUS
<1> USE DEF flow, disp, errv, chan, call, devv
<1>1. CASE \/ CtlReqSend \/ CtlReqWait \/ BlockingCall \/ BlockingReset \/ BlockingSend
           \/ BlockingReturn
  BY <1>1 DEF CtlReqSend, CtlReqWait, BlockingCall, BlockingReset, BlockingSend, BlockingReturn,
              LastInv
<1>2. CASE BlockingWait
  <2>1. Underway \/ ~(pc = "req" /\ RequestState = "WAIT")
    BY DEF Underway
  <2>2. QED
    BY <1>2, <2>1, CompleteMeansDone DEF BlockingWait, LastInv
<1>3. CASE HandleControl /\ UNCHANGED client
  <2>1. HandlerStep
    BY <1>3, HandlerFacts
  <2>2. ASSUME NEW status \in Status, Returned(status), HandleTurn,
               pc = "handle" /\ status = "OK" => cur \in done
        PROVE  LastInv'
    BY <2>1, <2>2, ReturnedFacts DEF LastInv, HandlerStep
  <2>3. CASE StageDone
    <3>1. CASE state' = "COMPLETE"
      <4>1. state \in Stages /\ waiting /\ (open => urb[Channel(state)] = "DONE")
            /\ Returned("OK") /\ HandleTurn /\ NextStage(state) = "COMPLETE"
        BY <2>3, <3>1 DEF StageDone, Waiting
      <4>2. pc = "handle" => Passed(state)
        BY <4>1 DEF StepInv, InStep, Underway, ArmedInv
      <4>3. Passed(state) => cur \in done
        <5>1. state \in {"STATUS_IN", "STATUS_OUT"}
          BY <4>1 DEF NextStage, Stages, TypeOK, AfterSetup, Kinds
        <5>2. QED
          BY <5>1 DEF Passed, Behind
      <4>4. QED
        BY <2>2, <4>1, <4>2, <4>3 DEF Status
    <3>2. CASE state' # "COMPLETE"
      BY <2>2, <2>3, <3>2 DEF StageDone, Waiting, Status
    <3>3. QED
      BY <3>1, <3>2
  <2>4. CASE AtRest
    <3>1. pc = "handle" /\ state = "COMPLETE" => cur \in done
      BY DEF StepInv, InStep, Underway, Begun
    <3>2. pc = "handle" => state # "IDLE"
      BY DEF ArmedInv, Underway
    <3>3. QED
      BY <2>2, <2>4, <3>1, <3>2 DEF AtRest, Status
  <2>5. CASE Transmit \/ StageNotReady \/ StageError \/ StageTimeout \/ StagePending
    BY <2>2, <2>5 DEF Transmit, StageNotReady, StageError, StageTimeout, StagePending, StageFails,
                      Waiting, Status
  <2>6. CASE StageStall
    BY <2>2, <2>6 DEF StageStall, Waiting, Status, Failures
  <2>7. CASE RetryOrFail
    BY <2>2, <2>7 DEF RetryOrFail, Status, Failures
  <2>8. QED
    BY <1>3, <2>3, <2>4, <2>5, <2>6, <2>7 DEF HandleControl
<1>4. CASE Bus /\ UNCHANGED client
  <2>1. BusStep
    BY <1>4, BusFacts
  <2>2. QED
    BY <2>1 DEF BusStep, LastInv
<1>5. CASE Elapse \/ UNCHANGED vars
  BY <1>5 DEF Elapse, vars, moves, LastInv
<1>6. QED
  BY <1>1, <1>2, <1>3, <1>4, <1>5 DEF Next, Main

LEMMA OkStep ==
  TypeOK /\ NumberInv /\ StepInv /\ LastInv /\ OkMeansDone /\ [Next]_vars => OkMeansDone'
<1> SUFFICES ASSUME TypeOK, NumberInv, StepInv, LastInv, OkMeansDone, [Next]_vars
             PROVE  OkMeansDone'
  OBVIOUS
<1> USE DEF flow, disp, errv, chan, call, devv
<1>1. CASE UNCHANGED result /\ done \subseteq done'
  BY <1>1 DEF OkMeansDone
<1>2. ASSUME NEW x, result' = [result EXCEPT ![cur] = x], UNCHANGED done, x = "OK" => cur \in done
      PROVE  OkMeansDone'
  BY <1>2 DEF OkMeansDone, TypeOK
<1>3. CASE CtlReqWait
  BY <1>2, <1>3, CompleteMeansDone DEF CtlReqWait, Underway
<1>4. CASE BlockingReturn
  BY <1>2, <1>4 DEF BlockingReturn, LastInv
<1>5. CASE CtlReqSend \/ BlockingCall \/ BlockingReset \/ BlockingSend \/ BlockingWait
  BY <1>1, <1>5 DEF CtlReqSend, BlockingCall, BlockingReset, BlockingSend, BlockingWait
<1>6. CASE HandleControl /\ UNCHANGED client
  BY <1>1, <1>6, HandlerFacts DEF HandlerStep
<1>7. CASE Bus /\ UNCHANGED client
  BY <1>1, <1>7, BusFacts DEF BusStep
<1>8. CASE Elapse \/ UNCHANGED vars
  BY <1>1, <1>8 DEF Elapse, vars, moves
<1>9. QED
  BY <1>3, <1>4, <1>5, <1>6, <1>7, <1>8 DEF Next, Main

LEMMA InitInv == Init => IInv
<1> SUFFICES ASSUME Init PROVE IInv
  OBVIOUS
<1>1. NumberInv /\ ArmedInv
  BY Sizes DEF Init, NumberInv, ArmedInv, Off, Chan, Underway
<1>2. StepInv /\ LastInv /\ OkMeansDone
  BY DEF Init, StepInv, Underway, LastInv, OkMeansDone
<1>3. QED
  BY <1>1, <1>2, TypeInit DEF IInv

THEOREM ControlInvariance == Spec => []IInv
<1>1. IInv /\ [Next]_vars => IInv'
  BY TypeStep, NumberStep, ArmedStep, StepStep, LastStep, OkStep DEF IInv
<1>2. QED
  BY <1>1, InitInv, PTL DEF Spec

(* TypeOK: ErrCnt of the OUT channel never reaches the third error, and a stage
   is awaited only in a stage (USBH_HandleControl's CTRL_x_WAIT states). *)
THEOREM ControlTypeCorrect == Spec => []TypeOK
<1>1. IInv => TypeOK
  BY DEF IInv
<1>2. QED
  BY <1>1, ControlInvariance, PTL

(* OkMeansDone: whoever is told USBH_OK by USBH_CtlReq or USBH_CtlReq_Blocking,
   the device has been through the status stage of that very request: whatever
   was repeated, timed out, left armed by an earlier request or answered late. *)
THEOREM OkIsDone == Spec => []OkMeansDone
<1>1. IInv => OkMeansDone
  BY DEF IInv
<1>2. QED
  BY <1>1, ControlInvariance, PTL
----------------------------------------------------------------------------
(* StatusMeansOver. *)
LEMMA PollingStep ==
  TypeOK /\ NumberInv /\ PollingInv /\ [Next]_vars => PollingInv'
<1> SUFFICES ASSUME TypeOK, NumberInv, PollingInv, [Next]_vars, ~client.blocking, client' = client
             PROVE  PollingInv'
  BY DEF PollingInv, Next, vars
<1> USE DEF flow, disp, errv, chan, call, devv
<1>1. CASE CtlReqSend
  BY <1>1 DEF CtlReqSend, Submit, PollingInv
<1>2. CASE CtlReqWait
  BY <1>2 DEF CtlReqWait, PollingInv
<1>3. CASE BlockingCall \/ BlockingReset \/ BlockingSend \/ BlockingWait \/ BlockingReturn
  BY <1>3 DEF BlockingCall, BlockingReset, BlockingSend, BlockingWait, BlockingReturn, PollingInv
<1>4. CASE HandleControl
  BY <1>4, HandlerFacts DEF HandlerStep, PollingInv
<1>5. CASE Bus
  BY <1>5, BusFacts DEF BusStep, PollingInv
<1>6. CASE Elapse \/ UNCHANGED vars
  BY <1>6 DEF Elapse, vars, moves, PollingInv
<1>7. QED
  BY <1>1, <1>2, <1>3, <1>4, <1>5, <1>6 DEF Next, Main

LEMMA PatientCaller ==
  ASSUME TypeOK, NumberInv, ArmedInv, PatientInv, Patient, UNCHANGED client,
         \/ CtlReqSend \/ CtlReqWait \/ BlockingCall \/ BlockingReset \/ BlockingSend
         \/ BlockingWait \/ BlockingReturn
  PROVE  PatientInv'
<1> USE DEF flow, disp, errv, chan, call, devv
<1>0. client.blocking /\ Stages = {"SETUP", "DATA_IN", "DATA_OUT", "STATUS_IN", "STATUS_OUT"}
  BY DEF Patient, Stages
<1>1. CASE CtlReqSend \/ CtlReqWait
  BY <1>0, <1>1 DEF CtlReqSend, CtlReqWait, PatientInv
<1>2. CASE BlockingCall
  <2>1. pc = "none" /\ pc' = "pre" /\ UNCHANGED <<flow, disp, hw>>
    BY <1>2 DEF BlockingCall, NewRequest
  <2>2. ~Underway /\ ~Underway'
    BY <2>1 DEF Underway
  <2>3. QED
    BY <2>1, <2>2 DEF PatientInv
<1>3. CASE BlockingReset
  BY <1>0, <1>3 DEF BlockingReset, PatientInv, Underway
<1>4. CASE BlockingSend
  <2>1. ~Underway /\ gState # "CTRL" /\ hw = Off /\ gStateBkp # "CTRL"
    BY <1>4 DEF BlockingSend, PatientInv, Underway
  <2>2. pc' = "handle" /\ state' = "SETUP" /\ waiting' = FALSE /\ gStateBkp' = gState
        /\ UNCHANGED <<late, hw>>
    BY <1>4 DEF BlockingSend, Submit
  <2>3. ~late
    BY <1>4, <2>1 DEF BlockingSend, PatientInv
  <2>4. QED
    BY <1>0, <2>1, <2>2, <2>3 DEF PatientInv, Together, Underway
<1>5. CASE BlockingWait
  <2>1. Together
    BY <1>5 DEF BlockingWait, PatientInv, Underway
  <2>2. pc = "req" /\ Underway /\ UNCHANGED <<gState, gStateBkp, hw, urb, late, dev, kind>>
    BY <1>5 DEF BlockingWait, Underway
  <2>3. CASE pc' = "leave"
    <3>1. Polled # "BUSY"
      BY <1>5, <2>3 DEF BlockingWait, Answer
    <3>2. state = "COMPLETE"
      BY <2>1, <3>1 DEF Together, Polled, Stages
    <3>3. gState # "CTRL" /\ hw = Off /\ state' = "IDLE"
      BY <1>5, <2>1, <2>3, <3>2 DEF Together, BlockingWait, Answer, Polled
    <3>4. QED
      BY <1>0, <2>2, <2>3, <3>3 DEF PatientInv, Underway
  <2>4. CASE pc' = "handle"
    <3>1. UNCHANGED flow /\ Polled = "BUSY"
      BY <1>5, <2>4 DEF BlockingWait
    <3>2. state # "COMPLETE"
      BY <3>1 DEF Polled
    <3>3. Together'
      BY <2>1, <2>2, <3>1, <3>2 DEF Together, Shows, NextStage
    <3>4. QED
      BY <2>2, <2>4, <3>3 DEF PatientInv, Underway
  <2>5. QED
    BY <1>5, <2>3, <2>4 DEF BlockingWait
<1>6. CASE BlockingReturn
  BY <1>6 DEF BlockingReturn, PatientInv, Underway
<1>7. QED
  BY <1>1, <1>2, <1>3, <1>4, <1>5, <1>6

LEMMA PatientHandler ==
  ASSUME TypeOK, NumberInv, ArmedInv, PatientInv, Patient, HandleControl, UNCHANGED client
  PROVE  PatientInv'
<1> USE DEF flow, disp, errv, chan, call, devv
<1>0. /\ client.blocking
      /\ Stages = {"SETUP", "DATA_IN", "DATA_OUT", "STATUS_IN", "STATUS_OUT"}
      /\ waiting => state \in Stages
  BY DEF Patient, Stages, TypeOK
<1>1. HandlerStep
  BY HandlerFacts
<1>2. pc \in {"pre", "handle"} /\ gStateBkp' = gStateBkp /\ gStateBkp # "CTRL"
  BY <1>1 DEF HandlerStep, HandleTurn, PatientInv, Underway
(* What is left of an earlier request is not carried on. *)
<1>3. CASE pc = "pre"
  <2>1. ~Underway /\ pc' = "reset" /\ ~Underway' /\ gState # "CTRL" /\ hw = Off
    BY <1>1, <1>3 DEF HandlerStep, Underway, PatientInv
  <2>2. ~Transmit
    BY <1>3 DEF PatientInv, Transmit
  <2>3. hw' = hw
    BY <2>2 DEF HandleControl, StageDone, StageStall, StageNotReady, StageError, StageTimeout,
                StagePending, RetryOrFail, AtRest, Waiting
  <2>4. QED
    BY <1>1, <1>2, <2>1, <2>3 DEF HandlerStep, PatientInv
<1>4. CASE pc = "handle"
  <2>1. Together /\ state \in Stages /\ Underway /\ ~late /\ RequestState = "WAIT"
    BY <1>4 DEF PatientInv, Underway, Together, ArmedInv
  <2>2. \/ pc' = "req" /\ Underway'
        \/ pc' = "leave" /\ ~Underway'
    BY <1>1, <1>4, <2>1 DEF HandlerStep, Underway
  <2>3. ASSUME NEW status \in Status \ Failures, Returned(status), HandleTurn
        PROVE  pc' = "req"
    BY <1>4, <2>1, <2>3 DEF Returned, TimeUp
  <2>4. ASSUME pc' = "req", Together' PROVE PatientInv'
    BY <1>2, <2>2, <2>4 DEF PatientInv
  <2>5. CASE Transmit
    <3>1. pc' = "req"
      BY <2>3, <2>5 DEF Transmit, Status, Failures
    <3>2. open' /\ Channel(state) \in Chan /\ waiting' = TRUE /\ late' = FALSE
          /\ UNCHANGED <<state, dev, kind>> /\ hw = Off
          /\ (state # "SETUP" => dev.stage = state)
      BY <1>1, <2>1, <2>5, StageFacts DEF Transmit, ArmedInv, Together, HandlerStep
    <3>3. /\ urb' = [urb EXCEPT ![Channel(state)] = "IDLE"]
          /\ hw' = [hw EXCEPT ![Channel(state)] = IF state = "SETUP" THEN "SETUP" ELSE "DATA"]
      BY <2>5, <3>2 DEF Transmit, SubmittedUrb
    <3>4. Shows(Channel(state))'
      BY <3>2, <3>3 DEF Shows, TypeOK
    <3>5. Together'
      BY <1>0, <2>1, <3>2, <3>3, <3>4 DEF Together, Off
    <3>6. QED
      BY <2>4, <3>1, <3>5
  <2>6. ASSUME NEW u, Waiting(u)
        PROVE  waiting /\ urb[Channel(state)] = u /\ Shows(Channel(state)) /\ HandleTurn
               /\ UNCHANGED <<chan, late, dev>>
               /\ \A c \in Chan : c # Channel(state) => hw[c] = "off"
    BY <2>1, <2>6 DEF Waiting, Together, ArmedInv
  <2>7. CASE StageDone
    <3> DEFINE n == NextStage(state)
    <3>1. waiting /\ urb[Channel(state)] = "DONE" /\ Shows(Channel(state)) /\ HandleTurn
          /\ UNCHANGED <<chan, late, dev>> /\ state' = n /\ waiting' = FALSE
          /\ \A c \in Chan : c # Channel(state) => hw[c] = "off"
      BY <2>6, <2>7 DEF StageDone
    <3>2. hw[Channel(state)] = "off" /\ (n # "COMPLETE" => dev.stage = n)
      BY <3>1 DEF Shows
    <3>3. hw = Off
      BY <3>1, <3>2 DEF Off, TypeOK
    <3>4. n \in Stages \cup {"COMPLETE"}
      BY <2>1, StageFacts
    <3> HIDE DEF n
    <3>5. pc' = "req" /\ (n = "COMPLETE" => gState' = gStateBkp)
      BY <2>3, <2>7, <3>1 DEF StageDone, Restored, Status, Failures
    <3>6. Together'
      BY <1>0, <1>2, <2>1, <3>1, <3>2, <3>3, <3>4, <3>5 DEF Together
    <3>7. QED
      BY <2>4, <3>5, <3>6
  <2>8. CASE StageStall
    <3>1. waiting /\ urb[Channel(state)] = "STALL" /\ Shows(Channel(state)) /\ UNCHANGED hw
          /\ \A c \in Chan : c # Channel(state) => hw[c] = "off"
      BY <2>6, <2>8 DEF StageStall
    <3>2. hw = Off /\ gState' = gStateBkp
      BY <2>8, <3>1 DEF Off, TypeOK, Shows, StageStall, Restored
    <3>3. waiting' \/ state' \notin Stages
      BY <1>0, <2>8, <3>1 DEF StageStall
    <3>4. pc' = "leave" \/ pc' = "req"
      BY <2>2
    <3>5. pc' = "leave"
      BY <1>4, <2>8 DEF StageStall, Returned, Failures
    <3>6. QED
      BY <1>2, <2>2, <3>1, <3>2, <3>3, <3>5 DEF PatientInv
  <2>9. CASE StageNotReady
    <3>1. waiting /\ urb[Channel(state)] = "NOTREADY" /\ Shows(Channel(state)) /\ HandleTurn
          /\ UNCHANGED <<chan, late, dev, state, disp>> /\ waiting' = FALSE
          /\ \A c \in Chan : c # Channel(state) => hw[c] = "off"
      BY <2>6, <2>9 DEF StageNotReady
    <3>2. hw = Off /\ dev.stage = state
      BY <3>1 DEF Off, TypeOK, Shows
    <3>3. pc' = "req"
      BY <2>3, <2>9, <3>1 DEF StageNotReady, Status, Failures
    <3>4. Together'
      BY <1>0, <2>1, <3>1, <3>2, <3>3 DEF Together
    <3>5. QED
      BY <2>4, <3>3, <3>4
  <2>10. ~StageError
    BY <2>6 DEF StageError, Shows
  <2>11. ~StageTimeout
    BY <2>1 DEF StageTimeout
  <2>12. CASE StagePending
    <3>1. PICK u : Waiting(u)
      BY <2>12 DEF StagePending
    <3>2. UNCHANGED <<chan, late, dev, flow, disp, kind>> /\ HandleTurn /\ Returned("BUSY")
      BY <1>1, <2>12, <3>1, <2>6 DEF StagePending, HandlerStep
    <3>3. pc' = "req"
      BY <2>3, <3>2 DEF Status, Failures
    <3>4. Together'
      BY <1>0, <2>1, <3>2, <3>3 DEF Together, Shows, NextStage
    <3>5. QED
      BY <2>4, <3>3, <3>4
  <2>13. ~RetryOrFail /\ ~AtRest
    BY <1>0, <2>1 DEF RetryOrFail, AtRest
  <2>14. QED
    BY <2>5, <2>7, <2>8, <2>9, <2>10, <2>11, <2>12, <2>13 DEF HandleControl
<1>5. QED
  BY <1>2, <1>3, <1>4

LEMMA PatientBus ==
  ASSUME TypeOK, NumberInv, ArmedInv, PatientInv, Patient, Bus \/ Elapse, UNCHANGED client
  PROVE  PatientInv'
<1> USE DEF flow, disp, errv, chan, call, devv
<1>0. /\ Stages = {"SETUP", "DATA_IN", "DATA_OUT", "STATUS_IN", "STATUS_OUT"}
      /\ waiting => state \in Stages
      /\ \A f : Fault(f) => f \in {"nak", "stall"}
  BY DEF Patient, Stages, TypeOK, Fault
<1>1. CASE Elapse /\ ~Underway
  BY <1>1 DEF Elapse, PatientInv, Underway
<1>2. ~(Elapse /\ Underway)
  <2> SUFFICES ASSUME Elapse, Underway PROVE FALSE
    OBVIOUS
  <2>1. waiting /\ state \in Stages /\ Shows(Channel(state))
    BY DEF Elapse, PatientInv, Together
  <2>2. NoAnswer
    BY <1>0 DEF Elapse
  <2>3. urb[Channel(state)] = "IDLE"
    BY <2>1, <2>2 DEF NoAnswer, Shows
  <2>4. Answers(Channel(state))
    BY <2>1, <2>3 DEF Shows, Answers, Channel, InStages
  <2>5. QED
    BY <2>2, <2>4 DEF NoAnswer
<1>3. CASE Bus
  <2>1. BusStep
    BY <1>3, BusFacts
  <2>2. PICK d \in Chan : Halts(d)
    BY <2>1 DEF BusStep
  <2>3. hw # Off /\ Underway
    BY <2>2 DEF Halts, Off, PatientInv
  <2>4. Together /\ state \in Stages /\ waiting
    BY <2>3 DEF PatientInv, Together
  <2> DEFINE c == Channel(state)
  <2>5. c \in Chan /\ Shows(c) /\ d = c /\ \A e \in Chan : e # c => hw[e] = "off"
    BY <2>2, <2>4, StageFacts DEF Together, Halts
  <2>6. /\ urb[c] = "IDLE" /\ hw[c] = (IF state = "SETUP" THEN "SETUP" ELSE "DATA")
        /\ state # "SETUP" => dev.stage = state
    BY <2>2, <2>5 DEF Halts, Shows
  <2>7. /\ UNCHANGED <<state, waiting, late, kind, pc, RequestState, gState, gStateBkp>>
        /\ \A e \in Chan : e # c => hw'[e] = "off"
    BY <2>1, <2>2, <2>5 DEF BusStep, Halts, TypeOK
  <2>8. ASSUME Shows(c)' PROVE PatientInv'
    <3>1. Channel(state') = c
      BY <2>7
    <3>2. Together'
      BY <2>4, <2>7, <2>8, <3>1, <1>0 DEF Together
    <3>3. QED
      BY <2>3, <2>7, <3>2 DEF PatientInv, Underway
  <2>9. ASSUME NEW b \in Chan, Transfer(b) PROVE PatientInv'
    <3>1. b = c /\ Answers(c) /\ Advance(c) /\ Halted(c, "DONE")
      BY <2>5, <2>9 DEF Transfer, Answers
    <3>2. hw'[c] = "off" /\ urb'[c] = "DONE"
      BY <2>5, <3>1 DEF Halted, TypeOK
    <3> DEFINE n == NextStage(state)
    <3>3. dev'.stage = IF n = "COMPLETE" THEN "IDLE" ELSE n
      BY <2>6, <3>1 DEF Advance
    <3>4. NextStage(state') = n /\ NextStage(state)' = n /\ Channel(state)' = c
      BY <2>7 DEF NextStage
    <3>5. Shows(c)'
      BY <2>7, <3>2, <3>3, <3>4 DEF Shows
    <3>6. QED
      BY <2>8, <3>5
  <2>10. ASSUME NEW b \in Chan, Stall(b) PROVE PatientInv'
    <3>1. b = c /\ Halted(c, "STALL") /\ StallFault(c) /\ hw[c] = "DATA"
      BY <2>5, <2>10 DEF Stall
    <3>2. state \in {"DATA_IN", "DATA_OUT", "STATUS_IN"}
      BY <1>0, <2>4, <2>6, <3>1 DEF StallFault
    <3>3. Shows(c)'
      BY <2>5, <2>7, <3>1, <3>2 DEF Shows, Halted, TypeOK
    <3>4. QED
      BY <2>8, <3>3
  <2>11. CASE NakOut
    <3>1. c = "OUT" /\ Halted(c, "NOTREADY") /\ state # "SETUP" /\ dev' = dev
      BY <2>5, <2>6, <2>11 DEF NakOut, Chan
    <3>2. state \in {"DATA_OUT", "STATUS_OUT"} /\ dev.stage = state
      BY <1>0, <2>4, <2>6, <3>1 DEF Channel, InStages
    <3>3. Shows(c)'
      BY <2>5, <2>7, <3>1, <3>2 DEF Shows, Halted, TypeOK
    <3>4. QED
      BY <2>8, <3>3
  <2>12. ~XactErrIn /\ ~XactErrOut
    BY <1>0 DEF XactErrIn, XactErrOut
  <2>13. QED
    BY <1>3, <2>9, <2>10, <2>11, <2>12 DEF Bus
<1>4. QED
  BY <1>1, <1>2, <1>3

LEMMA PatientStep ==
  ASSUME TypeOK, NumberInv, ArmedInv, PatientInv, [Next]_vars
  PROVE  PatientInv'
<1> USE DEF flow, disp, errv, chan, call, devv, moves, vars
<1>1. CASE UNCHANGED vars
  <2>1. Off' = Off
    BY DEF Off
  <2>2. UNCHANGED <<client, state, waiting, gState, gStateBkp, RequestState, open, urb, hw,
                    late, dev, pc, kind>>
    BY <1>1
  <2>3. Patient' = Patient /\ Underway' = Underway
    BY <2>2 DEF Patient, Underway
  <2>4. NextStage(state)' = NextStage(state) /\ Channel(state)' = Channel(state)
    BY <2>2 DEF NextStage, Channel
  <2>5. Shows(Channel(state))' = Shows(Channel(state))
    BY <2>2, <2>4 DEF Shows
  <2>6. Together' = Together
    BY <2>1, <2>2, <2>4, <2>5 DEF Together
  <2>7. QED
    BY <2>1, <2>2, <2>3, <2>6 DEF PatientInv
<1>2. CASE Next
  <2>1. client' = client
    BY <1>2 DEF Next
  <2>2. CASE ~Patient
    BY <2>1, <2>2 DEF PatientInv, Patient
  <2>3. CASE Patient /\ HandleControl
    BY <2>1, <2>3, PatientHandler
  <2>4. CASE Patient /\ (Bus \/ Elapse)
    BY <2>1, <2>4, PatientBus
  <2>5. CASE Patient /\ Main /\ ~HandleControl
    BY <2>1, <2>5, PatientCaller DEF Main, Patient
  <2>6. QED
    BY <1>2, <2>2, <2>3, <2>4, <2>5 DEF Next, Main
<1>3. QED
  BY <1>1, <1>2

LEMMA InitOver == Init => PollingInv /\ PatientInv
BY DEF Init, PollingInv, PatientInv, Underway, Stages

(* What is transmitted belongs to the request that is being awaited. *)
LEMMA OverStep ==
  ASSUME TypeOK, NumberInv, PollingInv, PatientInv, Next, Clean,
         NEW c \in Chan, hw[c] = "off", hw'[c] # "off"
  PROVE  cur > 0 /\ result[cur] = "none"
<1> USE DEF flow, disp, errv, chan, call, devv
<1>1. ~UNCHANGED hw
  OBVIOUS
<1>2. ~(Bus \/ Elapse)
  <2>1. ~Elapse
    BY <1>1 DEF Elapse
  <2>2. ~Bus
    <3>1. SUFFICES ASSUME Bus, UNCHANGED client PROVE FALSE
      BY DEF Next
    <3>2. PICK d \in Chan : hw' = [hw EXCEPT ![d] = "off"]
      BY <3>1, BusFacts DEF BusStep, Halts
    <3>3. QED
      BY <3>2 DEF TypeOK
  <2>3. QED
    BY <2>1, <2>2
<1>3. HandleControl
  <2>1. ~(CtlReqSend \/ CtlReqWait \/ BlockingCall \/ BlockingReset \/ BlockingSend \/ BlockingWait)
    BY <1>1 DEF CtlReqSend, CtlReqWait, BlockingCall, BlockingReset, BlockingSend, BlockingWait
  <2>2. ~BlockingReturn
    BY DEF BlockingReturn, Off
  <2>3. QED
    BY <1>2, <2>1, <2>2 DEF Next, Main
<1>4. HandleTurn
  BY <1>3, HandlerFacts DEF HandlerStep, Next
<1>5. pc # "none"
  BY <1>4 DEF HandleTurn, PollingInv, PatientInv, Patient, Clean, Underway
<1>6. QED
  BY <1>5 DEF NumberInv, TypeOK

(* No status of a request that is still being transmitted reaches the caller,
   as long as it polls, or blocks and meets no error. *)
THEOREM StatusIsFinal == Spec => StatusMeansOver
<1>1. Init => PollingInv /\ PatientInv
  BY InitOver
<1>2. IInv /\ PollingInv /\ PatientInv /\ [Next]_vars => (PollingInv /\ PatientInv)'
  BY PollingStep, PatientStep DEF IInv
<1>3. IInv /\ PollingInv /\ PatientInv /\ [Next]_vars =>
        [Clean => \A c \in Chan : hw[c] = "off" /\ hw'[c] # "off"
                                => cur > 0 /\ result[cur] = "none"]_vars
  BY OverStep DEF IInv
<1>4. Spec => []IInv
  BY ControlInvariance
<1>5. QED
  BY <1>1, <1>2, <1>3, <1>4, PTL DEF Spec, StatusMeansOver
=============================================================================
