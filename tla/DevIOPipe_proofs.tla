-------------------------- MODULE DevIOPipe_proofs --------------------------
(***************************************************************************)
(* Types, ExactlyOnce, PidInSync and LossBounded of DevIOPipe, for every   *)
(* number of packets, retries and faults and for every kind of endpoint    *)
(* that drivers create.                                                    *)
(*                                                                         *)
(* ExactlyOnce is not inductive: which packet the next request carries     *)
(* rests on a toggle that is in the channel, in the copy FreeChannel made  *)
(* of it, or in the request on the bus, inverted or not yet.               *)
(*                                                                         *)
(* LossBounded counts along what the faults so far may still cost: a fault *)
(* happens in one request, the packet is lost one or two requests later.   *)
(***************************************************************************)
EXTENDS DevIOPipe, FiniteSetTheorems, TLAPS

(* ErrCnt is reset by the halt that follows the third error; the task sends
   only what the driver wrote. *)
CountInv == errCnt = 3 => hw = "halting" /\ hcst = "XACTERR"
SentInv == ~IsIn => /\ devPkt + remaining <= N + 1
                    /\ st \in {"SEND", "WAIT", "ACT"} => remaining > 0

(* What a sample that is not idle shows is still there; only a channel of its
   own lets the endpoint wait. *)
Awaiting == st \in {"WAIT", "ACT"}
SampleInv == /\ Awaiting => hc
             /\ ~hc => hasError = 0

(* The toggle of the next request, and the one it would be after the repair
   FreeChannel still has to make. *)
NextToggle == IF hc THEN tgl ELSE IF saved = -1 THEN 0 ELSE saved
Repaired(t) == IF hasError = 2 THEN 1 - t ELSE t
Took(n) == \A k \in 1 .. N : got[k] = IF k <= n THEN 1 ELSE 0

(* An IN request that carries x asks for the device's packet; or for one the
   host already has, whose acknowledgement was lost. *)
SyncedIn(x) == \/ x = devTgl /\ buff = devPkt - 1
               \/ x = 1 - devTgl /\ buff = devPkt /\ IsIntr
InBus ==
  \/ /\ hw \in {"armed", "halting"} /\ urb = "IDLE" /\ Took(buff) /\ SyncedIn(pid)
     /\ tgl = IF IsIntr THEN 1 - pid ELSE pid
     /\ hw = "halting" => hcst \in IF IsIntr THEN {"NAK", "DATATGLERR"} ELSE {"XACTERR", "STALL"}
  \/ /\ hw = "halting" /\ hcst = "XFRC" /\ urb = "IDLE" /\ ~IsIntr
     /\ Took(buff - 1) /\ SyncedIn(tgl)
  \/ hw = "off" /\ urb = "DONE" /\ Took(buff - 1) /\ SyncedIn(tgl)
  \/ hw = "off" /\ urb \in {"NOTREADY", "STALL"} /\ Took(buff) /\ SyncedIn(tgl)
  \/ hw = "off" /\ urb = "ERROR" /\ Took(buff)
     /\ SyncedIn(IF hcst = "DATATGLERR" THEN 1 - tgl ELSE tgl)
InInv == IsIn /\ ep.faults \subseteq Harmless =>
  /\ Awaiting => hasError = 0 /\ InBus
  /\ st = "ACT" => seen[1] = "IDLE" \/ (hw = "off" /\ seen = <<urb, hcst>>)
  /\ ~Awaiting => /\ hw = "off" /\ Took(buff) /\ SyncedIn(Repaired(NextToggle))
                  /\ st # "FINALIZE" => hasError = 0

(* An OUT request that carries x brings the device a packet it has not taken;
   or repeats the one it took without the host knowing. *)
SyncedOut(x) == \/ x = devTgl /\ Took(devPkt - 1)
                \/ x = 1 - devTgl /\ Took(devPkt)
OutBus ==
  \/ /\ hw \in {"armed", "halting"} /\ urb = "IDLE" /\ tgl = pid /\ SyncedOut(pid)
     /\ buff = devPkt
     /\ hw = "halting" => /\ hcst \in {"NAK", "STALL", "XACTERR", "XFRC"}
                          /\ hcst = "XFRC" => pid = 1 - devTgl /\ Took(devPkt)
  \/ hw = "off" /\ urb = "DONE" /\ tgl = devTgl /\ Took(devPkt)
  \/ hw = "off" /\ urb # "DONE" /\ hcst \in {"NAK", "STALL", "XACTERR"} /\ SyncedOut(tgl)
OutInv == ~IsIn /\ ep.faults \subseteq Harmless =>
  /\ hasError # 2
  /\ Awaiting => OutBus
  /\ st = "ACT" => seen[1] = "IDLE" \/ (hw = "off" /\ seen = <<urb, hcst>>)
  /\ ~Awaiting => hw = "off" /\ SyncedOut(NextToggle)

(* Bulk IN endpoints, also when requests time out and are answered late. *)
PidInv == ~IsIntr /\ IsIn /\ ep.faults \subseteq Bearable =>
  /\ hw = "armed" => pid = devTgl
  /\ NextToggle = devTgl
  /\ hw # "off" => urb = "IDLE" /\ hc
  /\ hw = "halting" => hcst \in {"XFRC", "XACTERR", "STALL"}
  /\ hc /\ urb = "ERROR" => hcst = "XACTERR"
  /\ st = "ACT" => seen[1] = "IDLE" \/ (hw = "off" /\ seen = <<urb, hcst>>)
  /\ hasError # 0 => hasError = 1 /\ hw = "off" /\ st = "FINALIZE"
  /\ ~Awaiting /\ ep.asNeeded => hw = "off"

IInv == /\ TypeOK /\ CountInv /\ SentInv /\ SampleInv
        /\ InInv /\ OutInv /\ PidInv

(* FaultCost.  A fault may only have consequences later, so what it can still
   cost is counted along: IntrDue and OutDue are the packets that may be lost,
   RepeatDueIn and RepeatDueOut those that may be repeated, though nothing goes
   wrong any more. *)
Bit(b) == IF b THEN 1 ELSE 0
Over == hw = "halting" /\ hcst = "XFRC"

(* IN.  A packet in the buffer may be handed over while it is pending, and once
   more when the device repeats it. *)
Copies == got[buff] + Bit(Pending(buff)) + Bit(buff = devPkt)
RepeatDueIn == Bit(buff > 0 /\ got[buff] <= 1 /\ Copies > 1)

(* Interrupt IN: a toggle out of step costs the next packet; so does one that
   is answered after the request was given up. *)
Reverted == IF hcst \in {"NAK", "IDLE", "DATATGLERR"} THEN 1 - tgl ELSE tgl
IntrDue ==
  IF ~hc THEN Bit(NextToggle # devTgl)
  ELSE IF Awaiting
    THEN IF hw = "armed" THEN Bit(pid # devTgl)
         ELSE IF hw = "halting" THEN Bit(Reverted # devTgl)
         ELSE Bit((IF urb = "ERROR" /\ hcst = "DATATGLERR" THEN 1 - tgl ELSE tgl) # devTgl)
    ELSE IF hw = "armed" THEN 1 + Bit(pid # devTgl)
         ELSE IF hw = "halting" /\ hcst \in {"NAK", "IDLE"} THEN 1
         ELSE Bit(Repaired(tgl) # devTgl)
IntrShape ==
  /\ hw = "armed" => hc /\ tgl = 1 - pid
  /\ hw # "off" /\ hc => urb = "IDLE" /\ (Awaiting \/ (st = "FINALIZE" /\ hasError = 1))
  /\ Awaiting => hasError = 0
  /\ st \notin {"WAIT", "ACT", "FINALIZE"} => hasError = 0
  /\ hasError = 2 => hw = "off"
  /\ st = "ACT" => seen[1] = "IDLE" \/ (hw = "off" /\ seen = <<urb, hcst>>)
  /\ Awaiting /\ hw = "off" => urb # "IDLE" /\ (urb = "ERROR" => hcst \in {"XACTERR", "DATATGLERR"})
IntrInv == IsIntr =>
  /\ IntrShape
  /\ Cardinality(Lost) + IntrDue <= faults
  /\ buff <= devPkt
  /\ \A k \in 1 .. N : (k > buff => got[k] = 0) /\ got[k] <= faults + 1
  /\ buff > 0 => Copies <= faults + 1
  /\ Cardinality(Repeated) + RepeatDueIn <= faults

(* Bulk IN, in step (PidInv): only a packet that is answered too late is lost. *)
Late == hw = "armed" /\ ~Awaiting
BulkInv == IsIn /\ ~IsIntr /\ ep.faults \subseteq Bearable =>
  /\ Cardinality(Lost) + Bit(Late) <= faults
  /\ buff = devPkt - 1
  /\ \A k \in 1 .. N : (k > buff => got[k] = 0) /\ got[k] <= 1
  /\ Pending(buff) /\ buff > 0 => got[buff] = 0

(* OUT.  A packet the device has not taken is lost when its request carries the
   other toggle.  Skipping: the task will go on with the next packet; after a
   timeout it does so while the request is still on the bus, and the device may
   take the old packet when the task is at the new one. *)
Fresh == devPkt <= N /\ got[devPkt] = 0
Skipping == urb = "DONE" \/ (st = "ACT" /\ seen[1] = "DONE")
Old == hw = "armed" /\ buff # devPkt
OutDue ==
  IF ~hc THEN Bit(Fresh /\ NextToggle # devTgl)
  ELSE IF Over THEN Bit(Fresh) + Bit(Awaiting /\ Skipping)
  ELSE IF Awaiting /\ Skipping
    THEN IF hw = "off" THEN Bit(Fresh) + Bit(tgl # devTgl)
                       ELSE 1 + Bit(Fresh /\ tgl # devTgl)
  ELSE Bit(Fresh /\ (tgl # devTgl \/ (Old /\ got[buff] > 0)))
(* How often the device may still take the current packet. *)
OutMore ==
  IF ~hc THEN Bit(NextToggle = devTgl)
  ELSE IF Over THEN Bit(~Awaiting)
  ELSE IF Awaiting THEN Bit(~(Skipping /\ hw = "off") /\ tgl = devTgl)
  ELSE IF Old THEN 1
  ELSE Bit(hw = "armed") + Bit(tgl = devTgl)
RepeatsOld == Old /\ pid = devTgl
RepeatDueOut == Bit(devPkt <= N /\ got[devPkt] <= 1 /\ got[devPkt] + OutMore > 1)
                  + Bit(RepeatsOld /\ got[buff] = 1)
OutShape ==
  /\ hw = "armed" => pid = NextToggle /\ buff \in {devPkt - 1, devPkt} \ {0}
  /\ Awaiting => buff = devPkt
  /\ Old => hc /\ hasError = 1 /\ st \in {"SEND", "FINALIZE"}
  /\ Awaiting /\ Skipping /\ hw = "armed" => hasError = 1
  /\ Over /\ hc => tgl = 1 - devTgl
  /\ hc /\ hw = "halting" => hcst \in {"XFRC", "NAK", "STALL", "XACTERR"}
  /\ hasError # 2
  /\ Awaiting /\ hw = "off" /\ urb = "IDLE" => hcst = "XACTERR"
  /\ Awaiting /\ urb = "ERROR" => hcst = "XACTERR"
  /\ Awaiting /\ hw # "off" => urb \in {"IDLE", "DONE"}
  /\ st = "ACT" => seen[1] \in {"IDLE", "DONE"} \/ (hw = "off" /\ seen = <<urb, hcst>>)
OutLossInv == ~IsIn =>
  /\ OutShape
  /\ Cardinality(Lost) + OutDue <= faults
  /\ Cardinality(Repeated) + RepeatDueOut <= faults
  /\ \A k \in 1 .. N : (k > devPkt => got[k] = 0) /\ got[k] <= faults + 1
  /\ devPkt <= N => got[devPkt] + OutMore <= faults + 1
  /\ RepeatsOld => got[buff] <= faults

USE EndpointsAssumption, BoundsAssumption

(* The endpoint's kind, with the set of kinds taken apart once. *)
LEMMA Kind == ep \in Endpoints => /\ ep.max \in Nat /\ ep.faults \subseteq AllFaults
                                  /\ ep.type \in {"INTR", "BULK"} /\ ep.dir \in {"IN", "OUT"}
                                  /\ ep.asNeeded \in BOOLEAN
                                  /\ IsIntr => IsIn
BY DEF IsIntr, IsIn
----------------------------------------------------------------------------
Basic == TypeOK /\ CountInv /\ SentInv /\ SampleInv

LEMMA BasicInit == Init => Basic
<1> SUFFICES ASSUME Init PROVE Basic
  OBVIOUS
<1>1. ep.max \in Nat
  BY Kind DEF Init
<1>2. TypeOK
  BY <1>1 DEF Init, TypeOK, UrbState, HcStatus
<1>3. QED
  BY <1>2 DEF Init, Basic, CountInv, SentInv, SampleInv, Awaiting

LEMMA FreedType ==
  ASSUME TypeOK, FreeChannel
  PROVE  /\ hc' = FALSE /\ hasError' = 0 /\ saved' \in {0, 1}
         /\ hw' = (IF hasError # 0 /\ hw = "armed" THEN "off" ELSE hw)
         /\ UNCHANGED <<urb, hcst, errCnt, tgl, pid>>
BY DEF FreeChannel, SavedToggle, TypeOK

LEMMA BasicTask == ASSUME Basic, Task, UNCHANGED ep PROVE Basic'
<1> USE DEF taskVars, chanVars, devVars
<1>0. /\ ep.max \in Nat /\ IsIn' = IsIn /\ IsIntr' = IsIntr /\ N \in Nat /\ Retries \in 0 .. 255
      /\ ep \in Endpoints /\ faults \in 0 .. ep.max
  BY Kind DEF Basic, TypeOK, IsIn, IsIntr
<1> USE DEF Basic, CountInv, SentInv, SampleInv, Awaiting
<1>1. CASE Idle
  BY <1>0, <1>1 DEF Idle, TypeOK
<1>2. CASE StartSkip
  <2>1. /\ st' \in {"NEXT", "FINALIZE"} /\ retries' \in 0 .. 255
        /\ UNCHANGED <<hc, hasError, saved, remaining, seen, chanVars, devVars, got, faults>>
    BY <1>0, <1>2 DEF StartSkip, TypeOK
  <2>2. QED
    BY <1>0, <2>1 DEF TypeOK
<1>3. CASE StartRequest
  BY <1>0, <1>3 DEF StartRequest, TypeOK
<1>4. CASE Send
  BY <1>0, <1>4 DEF Send, RequestToggle, TypeOK, UrbState
<1>5. CASE SendNoChannel
  BY <1>0, <1>5 DEF SendNoChannel, TypeOK
<1>6. CASE Sample
  BY <1>0, <1>6 DEF Sample, TypeOK
<1>7. CASE ActDone
  <2>1. CASE IsIn
    <3>1. /\ st' = "FINALIZE" /\ UNCHANGED <<remaining, devPkt, retries, seen, devTgl, buff, faults>>
          /\ got' = [got EXCEPT ![buff] = @ + 1]
          /\ FreeChannel \/ UNCHANGED <<hc, saved, hasError, chanVars>>
      BY <1>7, <2>1 DEF ActDone
    <3>2. got' \in [1 .. N -> Nat]
      <4>1. CASE buff \in 1 .. N
        BY <3>1, <4>1 DEF TypeOK
      <4>2. CASE buff \notin 1 .. N
        BY <3>1, <4>2 DEF TypeOK
      <4>3. QED
        BY <4>1, <4>2
    <3>3. CASE FreeChannel
      <4>1. /\ hc' = FALSE /\ hasError' = 0 /\ saved' \in {0, 1}
            /\ hw' = (IF hasError # 0 /\ hw = "armed" THEN "off" ELSE hw)
            /\ UNCHANGED <<urb, hcst, errCnt, tgl, pid>>
        BY <3>3, FreedType
      <4>2. hw' \in {"off", hw} /\ (hw = "halting" => hw' = hw)
        BY <4>1
      <4>3. TypeOK'
        <5>1. TypeOK
          OBVIOUS
        <5>2. saved' \in {-1, 0, 1} /\ hw' \in {"off", "armed", "halting"} /\ hasError' \in 0 .. 2
          BY <4>1, <4>2, <5>1 DEF TypeOK
        <5>3. QED
          BY <5>1, <5>2, <3>1, <3>2, <4>1 DEF TypeOK
      <4>4. CountInv' /\ SentInv' /\ SampleInv'
        BY <1>0, <2>1, <3>1, <4>1, <4>2
      <4>5. QED
        BY <4>3, <4>4
    <3>4. CASE UNCHANGED <<hc, saved, hasError, chanVars>>
      BY <1>0, <2>1, <3>1, <3>2, <3>4 DEF TypeOK
    <3>5. QED
      BY <3>1, <3>3, <3>4
  <2>2. CASE ~IsIn
    BY <1>0, <1>7, <2>2 DEF ActDone, TypeOK
  <2>3. QED
    BY <2>1, <2>2
<1>8. CASE ActFailed
  BY <1>0, <1>8 DEF ActFailed, AfterFailure, RetriesLeft, TypeOK
<1>9. CASE ActWaiting
  BY <1>0, <1>9 DEF ActWaiting, TypeOK
<1>10. CASE ActTimeout
  <2>1. faults' \in 0 .. ep.max
    BY <1>0, <1>10 DEF ActTimeout, Fault
  <2>2. QED
    BY <1>0, <1>10, <2>1 DEF ActTimeout, TypeOK, UrbState
<1>11. CASE Finalize
  <2>1. /\ st' = "NEXT" /\ UNCHANGED <<retries, remaining, seen, devVars, got, faults>>
        /\ FreeChannel \/ UNCHANGED <<hc, saved, hasError, chanVars>>
    BY <1>11 DEF Finalize
  <2>2. CASE FreeChannel
    <3>1. /\ hc' = FALSE /\ hasError' = 0 /\ saved' \in {0, 1}
          /\ hw' = (IF hasError # 0 /\ hw = "armed" THEN "off" ELSE hw)
          /\ UNCHANGED <<urb, hcst, errCnt, tgl, pid>>
      BY <2>2, FreedType
    <3>2. hw' \in {"off", hw} /\ (hw = "halting" => hw' = hw)
      BY <3>1
    <3>3. TypeOK'
      <4>1. TypeOK
        OBVIOUS
      <4>2. saved' \in {-1, 0, 1} /\ hw' \in {"off", "armed", "halting"} /\ hasError' \in 0 .. 2
        BY <3>1, <3>2, <4>1 DEF TypeOK
      <4>3. QED
        BY <4>1, <4>2, <2>1, <3>1 DEF TypeOK
    <3>4. CountInv' /\ SentInv' /\ SampleInv'
      BY <1>0, <2>1, <3>1, <3>2
    <3>5. QED
      BY <3>3, <3>4
  <2>3. CASE UNCHANGED <<hc, saved, hasError, chanVars>>
    BY <1>0, <2>1, <2>3 DEF TypeOK
  <2>4. QED
    BY <2>1, <2>2, <2>3
<1>12. CASE NextTurn
  BY <1>0, <1>12 DEF NextTurn, TypeOK
<1>13. QED
  BY <1>1, <1>2, <1>3, <1>4, <1>5, <1>6, <1>7, <1>8, <1>9, <1>10, <1>11, <1>12 DEF Task

LEMMA BasicBus == ASSUME Basic, UNCHANGED ep,
                         \/ Bus \/ ChHltdIn \/ ChHltdOut \/ LentToOthers
                         \/ \E n \in 1 .. 2 : Write(n)
                  PROVE  Basic'
<1> USE DEF taskVars, chanVars, devVars
<1>0. /\ ep.max \in Nat /\ IsIn' = IsIn /\ IsIntr' = IsIntr /\ N \in Nat
      /\ ep \in Endpoints /\ faults \in 0 .. ep.max
      /\ \A f : Fault(f) => faults' \in 0 .. ep.max
  BY Kind DEF Basic, TypeOK, IsIn, IsIntr, Fault
<1> USE DEF Basic, CountInv, SentInv, SampleInv, Awaiting
<1>1. CASE DataIn
  <2>1. faults' \in 0 .. ep.max
    BY <1>0, <1>1 DEF DataIn
  <2>2. devTgl' \in {0, 1} /\ devPkt' \in 1 .. N + 1
    BY <1>0, <1>1 DEF DataIn, DevAdvance, TypeOK
  <2>3. buff' \in 0 .. N /\ errCnt' \in 0 .. 2
    BY <1>0, <1>1 DEF DataIn, TypeOK, Halting
  <2>4. /\ UNCHANGED <<st, hc, hasError, saved, retries, remaining, seen, pid, got>> /\ IsIn
    BY <1>1 DEF DataIn
  <2>5. urb' \in UrbState /\ hcst' \in HcStatus /\ tgl' \in {0, 1} /\ hw' \in {"off", "halting"}
    BY <1>1 DEF DataIn, Halting, DoneToggle, TypeOK, UrbState, HcStatus
  <2>6. QED
    BY <1>0, <2>1, <2>2, <2>3, <2>4, <2>5 DEF TypeOK
<1>2. CASE DataOut
  <2>1. faults' \in 0 .. ep.max
    BY <1>0, <1>2 DEF DataOut
  <2>2. got' \in [1 .. N -> Nat] /\ devTgl' \in {0, 1}
    BY <1>2 DEF DataOut, TypeOK
  <2>3. errCnt' \in 0 .. 3 /\ (errCnt' = 3 => hcst' = "XACTERR") /\ hw' = "halting"
    BY <1>2 DEF DataOut, TypeOK, Halting
  <2>4. /\ UNCHANGED <<st, hc, hasError, saved, retries, remaining, seen, urb, tgl, pid, devPkt, buff>>
        /\ hcst' \in HcStatus
    BY <1>2 DEF DataOut, Halting, HcStatus
  <2>5. QED
    BY <1>0, <2>1, <2>2, <2>3, <2>4 DEF TypeOK
<1>3. CASE Nak
  BY <1>0, <1>3 DEF Nak, Halting, TypeOK, UrbState, HcStatus
<1>4. CASE XactErr
  <2>1. faults' \in 0 .. ep.max
    BY <1>0, <1>4 DEF XactErr
  <2>2. QED
    BY <1>0, <1>4, <2>1 DEF XactErr, Halting, TypeOK, HcStatus
<1>5. CASE Stall
  <2>1. faults' \in 0 .. ep.max
    BY <1>0, <1>5 DEF Stall
  <2>2. QED
    BY <1>0, <1>5, <2>1 DEF Stall, Halting, TypeOK, HcStatus
<1>6. CASE Overrun
  <2>1. faults' \in 0 .. ep.max
    BY <1>0, <1>6 DEF Overrun
  <2>2. QED
    BY <1>0, <1>6, <2>1 DEF Overrun, TypeOK
<1>7. CASE ChHltdIn
  <2>1. urb' \in UrbState /\ tgl' \in {0, 1} /\ errCnt' \in 0 .. 2
    BY <1>7 DEF ChHltdIn, NakToggle, TypeOK, UrbState, HcStatus
  <2>2. QED
    BY <1>0, <1>7, <2>1 DEF ChHltdIn, TypeOK
<1>8. CASE ChHltdOut
  <2>1. urb' \in UrbState /\ tgl' \in {0, 1} /\ errCnt' \in 0 .. 2
    BY <1>8 DEF ChHltdOut, DoneToggle, TypeOK, UrbState, HcStatus
  <2>2. QED
    BY <1>0, <1>8, <2>1 DEF ChHltdOut, TypeOK
<1>9. CASE LentToOthers
  BY <1>0, <1>9 DEF LentToOthers, TypeOK
<1>10. ASSUME NEW n \in 1 .. 2, Write(n) PROVE Basic'
  BY <1>0, <1>10 DEF Write, TypeOK
<1>11. QED
  BY <1>1, <1>2, <1>3, <1>4, <1>5, <1>6, <1>7, <1>8, <1>9, <1>10 DEF Bus

LEMMA BasicStep == Basic /\ [Next]_vars => Basic'
<1>1. Basic /\ UNCHANGED vars => Basic'
  BY DEF vars, moves, taskVars, chanVars, devVars, Basic, TypeOK, CountInv, SentInv, SampleInv,
         Awaiting, IsIn
<1>2. QED
  BY <1>1, BasicTask, BasicBus DEF Next

THEOREM PipeTypeCorrect == Spec => []TypeOK
<1>1. Basic => TypeOK
  BY DEF Basic
<1>2. QED
  BY <1>1, BasicInit, BasicStep, PTL DEF Spec
----------------------------------------------------------------------------
(* IN endpoints: the harmless faults, and what FreeChannel makes of the toggle. *)
LEMMA HarmlessIn ==
  ASSUME ep \in Endpoints, IsIn, ep.faults \subseteq Harmless
  PROVE  /\ ~Fault("timeout") /\ ~Fault("overrun")
         /\ IsIntr => ~Fault("xacterr") /\ ~Fault("stall")
         /\ ~IsIntr => ~Fault("ackLost")
BY DEF Harmless, Fault

LEMMA Freed ==
  ASSUME TypeOK, FreeChannel, hc
  PROVE  /\ hc' = FALSE /\ hasError' = 0 /\ (hw = "off" => hw' = "off")
         /\ NextToggle' = Repaired(NextToggle) /\ Repaired(NextToggle)' = Repaired(NextToggle)
         /\ UNCHANGED <<urb, hcst, errCnt, tgl, pid>>
<1>1. saved' = Repaired(tgl) /\ saved' # -1 /\ hc' = FALSE /\ hasError' = 0
  BY DEF FreeChannel, SavedToggle, Repaired, TypeOK
<1>2. NextToggle' = saved' /\ NextToggle = tgl
  BY <1>1 DEF NextToggle
<1>3. Repaired(NextToggle)' = NextToggle'
  BY <1>1 DEF Repaired
<1>4. QED
  BY <1>1, <1>2, <1>3 DEF FreeChannel

(* One delivery makes the last packet handed over. *)
LEMMA TookOne ==
  ASSUME TypeOK, NEW n \in 0 .. N, Took(n - 1), got' = [got EXCEPT ![n] = @ + 1]
  PROVE  Took(n)'
BY DEF Took, TypeOK

LEMMA InTask ==
  ASSUME Basic, InInv, IsIn, ep.faults \subseteq Harmless, Task, UNCHANGED ep
  PROVE  InInv'
<1> USE DEF taskVars, chanVars, devVars
<1>0. /\ TypeOK /\ SampleInv /\ IsIn' = IsIn /\ IsIntr' = IsIntr
      /\ ~Fault("timeout")
  BY HarmlessIn DEF Basic, TypeOK, IsIn, IsIntr
<1>1. ASSUME ~Awaiting, st' \in {"IDLE", "START", "SEND", "NEXT", "FINALIZE"}, st # "FINALIZE",
             UNCHANGED <<hc, hasError, saved, chanVars, devVars, got>>
      PROVE  InInv'
  <2>1. SyncedIn(Repaired(NextToggle))' = SyncedIn(Repaired(NextToggle))
    BY <1>0, <1>1 DEF SyncedIn, Repaired, NextToggle
  <2>2. Took(buff)' = Took(buff)
    BY <1>1 DEF Took
  <2>3. QED
    BY <1>0, <1>1, <2>1, <2>2 DEF InInv, Awaiting
<1>2. CASE Idle \/ StartSkip \/ StartRequest \/ SendNoChannel \/ NextTurn
  BY <1>1, <1>2 DEF Idle, StartSkip, StartRequest, SendNoChannel, NextTurn, Awaiting
<1>3. CASE Send
  <2>1. /\ hw = "off" /\ Took(buff) /\ SyncedIn(NextToggle) /\ hasError = 0
    BY <1>0, <1>3 DEF Send, InInv, Awaiting, Repaired
  <2>2. pid' = NextToggle /\ tgl' = IF IsIntr THEN 1 - pid' ELSE pid'
    BY <1>3 DEF Send, NextToggle, RequestToggle
  <2>3. /\ hc' = TRUE /\ hasError' = 0 /\ urb' = "IDLE" /\ hw' = "armed" /\ st' = "WAIT"
        /\ UNCHANGED <<devVars, got>>
    BY <1>3, <2>1 DEF Send
  <2>4. SyncedIn(pid)'
    BY <1>0, <2>1, <2>2, <2>3 DEF SyncedIn
  <2>5. Took(buff)'
    BY <2>1, <2>3 DEF Took
  <2>6. InBus'
    BY <1>0, <2>2, <2>3, <2>4, <2>5 DEF InBus
  <2>7. QED
    BY <2>3, <2>6 DEF InInv, Awaiting
<1>4. ASSUME Awaiting, st' \in {"WAIT", "ACT"}, UNCHANGED <<hasError, chanVars, devVars, got>>,
             st' = "ACT" => seen' = <<urb, hcst>>
      PROVE  InInv'
  <2>1. InBus /\ hasError = 0
    BY <1>4 DEF InInv
  <2>2. InBus'
    BY <1>0, <1>4, <2>1 DEF InBus, SyncedIn, Took
  <2>3. st' = "ACT" => seen[1]' = "IDLE" \/ (hw' = "off" /\ seen' = <<urb', hcst'>>)
    BY <1>4, <2>1 DEF InBus
  <2>4. QED
    BY <1>4, <2>1, <2>2, <2>3 DEF InInv, Awaiting
<1>5. CASE Sample \/ ActWaiting
  BY <1>4, <1>5 DEF Sample, ActWaiting, Awaiting
<1>6. CASE ActDone
  <2>1. st = "ACT" /\ seen[1] = "DONE" /\ hc /\ Awaiting
    BY <1>0, <1>6 DEF ActDone, SampleInv, Awaiting
  <2>2. hw = "off" /\ urb = "DONE" /\ hasError = 0
    BY <2>1 DEF InInv
  <2>3. Took(buff - 1) /\ SyncedIn(tgl)
    BY <2>1, <2>2 DEF InInv, InBus
  <2>4. /\ got' = [got EXCEPT ![buff] = @ + 1] /\ st' = "FINALIZE" /\ UNCHANGED devVars
        /\ FreeChannel \/ UNCHANGED <<hc, saved, hasError, chanVars>>
    BY <1>0, <1>6 DEF ActDone
  <2>5. Took(buff)'
    <3>1. Took(buff)' = \A k \in 1 .. N : got'[k] = IF k <= buff' THEN 1 ELSE 0
      BY DEF Took
    <3>2. QED
      BY <1>0, <2>3, <2>4, <3>1 DEF TypeOK, Took
  <2>6. hw' = "off" /\ Repaired(NextToggle)' = tgl
    <3>1. Repaired(NextToggle) = tgl
      BY <2>1, <2>2 DEF Repaired, NextToggle
    <3>2. CASE FreeChannel
      BY <1>0, <2>1, <2>2, <3>1, <3>2, Freed
    <3>3. CASE UNCHANGED <<hc, saved, hasError, chanVars>>
      BY <2>1, <2>2, <3>3 DEF Repaired, NextToggle
    <3>4. QED
      BY <2>4, <3>2, <3>3
  <2>7. SyncedIn(Repaired(NextToggle))'
    BY <1>0, <2>3, <2>4, <2>6 DEF SyncedIn
  <2>8. QED
    BY <2>4, <2>5, <2>6, <2>7 DEF InInv, Awaiting
<1>7. CASE ActFailed
  <2>1. st = "ACT" /\ seen[1] \in {"STALL", "NOTREADY", "ERROR"} /\ hc /\ Awaiting
    BY <1>0, <1>7 DEF ActFailed, SampleInv, Awaiting
  <2>2. hw = "off" /\ urb = seen[1] /\ hcst = seen[2] /\ hasError = 0
    BY <2>1 DEF InInv
  <2>3. Took(buff) /\ SyncedIn(IF urb = "ERROR" /\ hcst = "DATATGLERR" THEN 1 - tgl ELSE tgl)
    BY <2>1, <2>2 DEF InInv, InBus
  <2>4. /\ st' = "FINALIZE" /\ UNCHANGED <<hc, saved, chanVars, devVars, got>>
        /\ hasError' = 2 <=> (urb = "ERROR" /\ hcst = "DATATGLERR")
    BY <1>0, <1>7, <2>2 DEF ActFailed, AfterFailure
  <2>5. Took(buff)'
    BY <2>3, <2>4 DEF Took
  <2>6. NextToggle' = tgl
    BY <2>1, <2>4 DEF NextToggle
  <2>7. SyncedIn(Repaired(NextToggle))'
    BY <1>0, <2>3, <2>4, <2>6 DEF SyncedIn, Repaired
  <2>8. QED
    BY <2>2, <2>4, <2>5, <2>7 DEF InInv, Awaiting
<1>8. ~ActTimeout
  <2>1. ActTimeout => st = "ACT" /\ hw = "off" /\ urb = "IDLE"
    BY <1>0 DEF ActTimeout
  <2>2. Awaiting => ~(hw = "off" /\ urb = "IDLE")
    BY DEF InInv, InBus
  <2>3. QED
    BY <2>1, <2>2 DEF Awaiting
<1>9. CASE Finalize
  <2>1. /\ st = "FINALIZE" /\ hw = "off" /\ Took(buff) /\ SyncedIn(Repaired(NextToggle))
    BY <1>9 DEF Finalize, InInv, Awaiting
  <2>2. st' = "NEXT" /\ UNCHANGED <<devVars, got>>
    BY <1>9 DEF Finalize
  <2>3. hw' = "off" /\ hasError' = 0 /\ Repaired(NextToggle)' = Repaired(NextToggle)
    <3>1. CASE hc /\ (ep.asNeeded \/ hasError # 0)
      BY <1>0, <1>9, <2>1, <3>1, Freed DEF Finalize
    <3>2. CASE ~(hc /\ (ep.asNeeded \/ hasError # 0))
      BY <1>0, <1>9, <2>1, <3>2 DEF Finalize, Repaired, NextToggle, SampleInv
    <3>3. QED
      BY <3>1, <3>2
  <2>4. SyncedIn(Repaired(NextToggle))'
    BY <1>0, <2>1, <2>2, <2>3 DEF SyncedIn
  <2>5. Took(buff)'
    BY <2>1, <2>2 DEF Took
  <2>6. QED
    BY <2>2, <2>3, <2>4, <2>5 DEF InInv, Awaiting
<1>10. QED
  BY <1>2, <1>3, <1>5, <1>6, <1>7, <1>8, <1>9 DEF Task

LEMMA InOthers ==
  ASSUME Basic, InInv, IsIn, ep.faults \subseteq Harmless, UNCHANGED ep,
         \/ Bus \/ ChHltdIn \/ ChHltdOut \/ LentToOthers
         \/ \E n \in 1 .. 2 : Write(n)
  PROVE  InInv'
<1> USE DEF taskVars, chanVars, devVars
<1>0. /\ TypeOK /\ SampleInv /\ IsIn' = IsIn /\ IsIntr' = IsIntr
      /\ ~Fault("timeout") /\ ~Fault("overrun")
      /\ IsIntr => ~Fault("xacterr") /\ ~Fault("stall")
      /\ ~IsIntr => ~Fault("ackLost")
  BY HarmlessIn DEF Basic, TypeOK, IsIn, IsIntr
<1>1. hw # "off" => Awaiting /\ InBus /\ hasError = 0 /\ urb = "IDLE"
  BY DEF InInv, InBus
<1>2. ASSUME hw # "off", InBus', UNCHANGED <<st, seen, hasError>> PROVE InInv'
  <2>1. st = "ACT" => seen[1] = "IDLE"
    BY <1>2 DEF InInv
  <2>2. QED
    BY <1>1, <1>2, <2>1 DEF InInv, Awaiting
<1>3. CASE DataIn
  <2>1. /\ hw = "armed" /\ urb = "IDLE" /\ Took(buff) /\ SyncedIn(pid)
        /\ tgl = IF IsIntr THEN 1 - pid ELSE pid
    BY <1>1, <1>3 DEF DataIn, InBus
  <2>2. /\ \/ devTgl' = 1 - devTgl /\ devPkt' = devPkt + 1
           \/ IsIntr /\ UNCHANGED <<devTgl, devPkt>>
        /\ UNCHANGED <<st, seen, hasError, pid, got>>
    BY <1>0, <1>3 DEF DataIn, DevAdvance
  <2>3. CASE pid = devTgl
    <3>1. buff = devPkt - 1 /\ buff' = devPkt
      BY <1>0, <1>3, <2>1, <2>3 DEF DataIn, SyncedIn, TypeOK
    <3>2. /\ IsIntr => hw' = "off" /\ urb' = "DONE" /\ tgl' = tgl
          /\ ~IsIntr => hw' = "halting" /\ hcst' = "XFRC" /\ urb' = "IDLE" /\ tgl' = 1 - tgl
      BY <1>3, <2>1, <2>3 DEF DataIn, Halting, DoneToggle
    <3>3. tgl' = 1 - pid
      BY <1>0, <2>1, <3>2
    <3>4. SyncedIn(tgl)'
      BY <1>0, <2>2, <2>3, <3>1, <3>3 DEF SyncedIn, TypeOK
    <3>5. Took(buff - 1)'
      BY <1>0, <2>1, <2>2, <3>1 DEF Took, TypeOK
    <3>6. InBus'
      BY <1>0, <3>2, <3>4, <3>5 DEF InBus
    <3>7. QED
      BY <1>2, <2>1, <2>2, <3>6
  <2>4. CASE pid # devTgl
    <3>1. buff = devPkt /\ pid = 1 - devTgl /\ IsIntr
      BY <2>1, <2>4 DEF SyncedIn
    <3>2. hw' = "halting" /\ hcst' = "DATATGLERR" /\ UNCHANGED <<buff, urb, tgl>>
      BY <1>3, <2>4 DEF DataIn, Halting
    <3>3. SyncedIn(pid)'
      BY <1>0, <2>2, <3>1, <3>2 DEF SyncedIn, TypeOK
    <3>4. Took(buff)'
      BY <2>1, <2>2, <3>2 DEF Took
    <3>5. InBus'
      BY <1>0, <2>1, <2>2, <3>1, <3>2, <3>3, <3>4 DEF InBus
    <3>6. QED
      BY <1>2, <2>1, <2>2, <3>5
  <2>5. QED
    BY <2>3, <2>4
<1>4. CASE Nak \/ XactErr \/ Stall
  <2>1. /\ hw = "armed" /\ urb = "IDLE" /\ Took(buff) /\ SyncedIn(pid)
        /\ tgl = IF IsIntr THEN 1 - pid ELSE pid
    BY <1>1, <1>4 DEF Nak, XactErr, Stall, InBus
  <2>2. UNCHANGED <<st, seen, hasError, devVars, got, tgl, pid>>
    BY <1>4 DEF Nak, XactErr, Stall
  <2>3. Took(buff)' /\ SyncedIn(pid)' /\ SyncedIn(tgl)' = SyncedIn(tgl)
    BY <1>0, <2>1, <2>2 DEF Took, SyncedIn
  <2>4. \/ hw' = "off" /\ urb' = "NOTREADY" /\ ~IsIntr
        \/ hw' = "halting" /\ urb' = "IDLE" /\ hcst' = "NAK" /\ IsIntr
        \/ hw' = "halting" /\ urb' = "IDLE" /\ hcst' \in {"XACTERR", "STALL"} /\ ~IsIntr
    BY <1>0, <1>4, <2>1 DEF Nak, XactErr, Stall, Halting
  <2>5. InBus'
    BY <1>0, <2>1, <2>2, <2>3, <2>4 DEF InBus
  <2>6. QED
    BY <1>2, <2>1, <2>2, <2>5
<1>5. ~DataOut /\ ~Overrun /\ ~ChHltdOut
  BY <1>0 DEF DataOut, Overrun, ChHltdOut
<1>6. CASE ChHltdIn
  <2>1. hw = "halting" /\ InBus /\ urb = "IDLE"
    BY <1>1, <1>6 DEF ChHltdIn
  <2>2. hw' = "off" /\ UNCHANGED <<st, seen, hasError, devVars, got, pid, hcst>>
    BY <1>6 DEF ChHltdIn
  <2>3. /\ Took(buff)' = Took(buff) /\ Took(buff - 1)' = Took(buff - 1)
        /\ \A x : SyncedIn(x) <=> (\/ x = devTgl' /\ buff' = devPkt' - 1
                                   \/ x = 1 - devTgl' /\ buff' = devPkt' /\ IsIntr')
    BY <1>0, <2>2 DEF Took, SyncedIn
  <2>4. CASE Took(buff) /\ SyncedIn(pid) /\ tgl = (IF IsIntr THEN 1 - pid ELSE pid)
             /\ hcst \in IF IsIntr THEN {"NAK", "DATATGLERR"} ELSE {"XACTERR", "STALL"}
    <3>1. CASE hcst = "NAK"
      <4>1. urb' = "NOTREADY" /\ tgl' = pid
        BY <1>0, <1>6, <2>4, <3>1 DEF ChHltdIn, NakToggle, TypeOK
      <4>2. SyncedIn(tgl)'
        BY <2>3, <2>4, <4>1 DEF SyncedIn
      <4>3. QED
        BY <1>2, <2>1, <2>2, <2>3, <2>4, <4>1, <4>2 DEF InBus
    <3>2. CASE hcst = "DATATGLERR"
      <4>1. urb' = "ERROR" /\ 1 - tgl' = pid
        BY <1>0, <1>6, <2>4, <3>2 DEF ChHltdIn, NakToggle, TypeOK
      <4>2. SyncedIn(1 - tgl)'
        BY <2>3, <2>4, <4>1 DEF SyncedIn
      <4>3. QED
        BY <1>2, <2>1, <2>2, <2>3, <2>4, <3>2, <4>1, <4>2 DEF InBus
    <3>3. CASE hcst \in {"XACTERR", "STALL"}
      <4>1. urb' \in {"ERROR", "STALL"} /\ tgl' = pid
        BY <1>0, <1>6, <2>4, <3>3 DEF ChHltdIn, NakToggle, TypeOK
      <4>2. SyncedIn(tgl)'
        BY <2>3, <2>4, <4>1 DEF SyncedIn
      <4>3. QED
        BY <1>2, <2>1, <2>2, <2>3, <2>4, <3>3, <4>1, <4>2 DEF InBus
    <3>4. QED
      BY <2>4, <3>1, <3>2, <3>3
  <2>5. CASE hcst = "XFRC" /\ ~IsIntr /\ Took(buff - 1) /\ SyncedIn(tgl)
    <3>1. urb' = "DONE" /\ tgl' = tgl
      BY <1>6, <2>5 DEF ChHltdIn, NakToggle
    <3>2. SyncedIn(tgl)'
      BY <2>3, <2>5, <3>1 DEF SyncedIn
    <3>3. QED
      BY <1>2, <2>1, <2>2, <2>3, <2>5, <3>1, <3>2 DEF InBus
  <2>6. QED
    BY <2>1, <2>4, <2>5 DEF InBus
<1>7. CASE LentToOthers
  <2>1. ~Awaiting /\ UNCHANGED <<st, hc, hasError, saved, tgl, hw, devVars, got>>
    BY <1>0, <1>7 DEF LentToOthers, SampleInv
  <2>2. /\ Took(buff)' = Took(buff)
        /\ SyncedIn(Repaired(NextToggle))' = SyncedIn(Repaired(NextToggle))
    BY <1>0, <2>1 DEF Took, SyncedIn, Repaired, NextToggle
  <2>3. QED
    BY <2>1, <2>2 DEF InInv, Awaiting
<1>8. ASSUME NEW n \in 1 .. 2, Write(n) PROVE InInv'
  BY <1>0, <1>8 DEF Write
<1>9. QED
  BY <1>3, <1>4, <1>5, <1>6, <1>7, <1>8 DEF Bus
----------------------------------------------------------------------------
(* OUT endpoints, all of them bulk. *)
LEMMA HarmlessOut ==
  ASSUME ep \in Endpoints, ~IsIn, ep.faults \subseteq Harmless
  PROVE  ~IsIntr /\ ~Fault("timeout") /\ ~Fault("overrun")
BY Kind DEF Harmless, Fault

LEMMA OutTask ==
  ASSUME Basic, OutInv, ~IsIn, ep.faults \subseteq Harmless, Task, UNCHANGED ep
  PROVE  OutInv'
<1> USE DEF taskVars, chanVars, devVars
<1>0. /\ TypeOK /\ SampleInv /\ SentInv /\ IsIn' = IsIn /\ IsIntr' = IsIntr
      /\ ~IsIntr /\ ~Fault("timeout") /\ hasError # 2
  BY HarmlessOut DEF Basic, TypeOK, IsIn, IsIntr, OutInv
<1>1. ASSUME ~Awaiting, st' \in {"IDLE", "START", "SEND", "NEXT", "FINALIZE"}, hw' = "off",
             NextToggle' = NextToggle, hasError' # 2, UNCHANGED <<devVars, got>>
      PROVE  OutInv'
  <2>1. SyncedOut(NextToggle)' = SyncedOut(NextToggle)
    BY <1>1 DEF SyncedOut, Took
  <2>2. QED
    BY <1>0, <1>1, <2>1 DEF OutInv, Awaiting
<1>2. CASE Idle \/ StartSkip \/ StartRequest \/ SendNoChannel \/ NextTurn
  <2>1. UNCHANGED <<hc, hasError, saved, chanVars, devVars, got>> /\ ~Awaiting
    BY <1>2 DEF Idle, StartSkip, StartRequest, SendNoChannel, NextTurn, Awaiting
  <2>2. hw = "off"
    BY <2>1 DEF OutInv
  <2>3. st' \in {"IDLE", "START", "SEND", "NEXT", "FINALIZE"}
    BY <1>2 DEF Idle, StartSkip, StartRequest, SendNoChannel, NextTurn
  <2>4. QED
    BY <1>0, <1>1, <2>1, <2>2, <2>3 DEF NextToggle
<1>3. CASE Send
  <2>1. hw = "off" /\ SyncedOut(NextToggle)
    BY <1>0, <1>3 DEF Send, OutInv, Awaiting
  <2>2. pid' = NextToggle /\ tgl' = pid'
    BY <1>0, <1>3 DEF Send, NextToggle, RequestToggle
  <2>3. /\ hasError' # 2 /\ urb' = "IDLE" /\ hw' = "armed" /\ st' = "WAIT"
        /\ UNCHANGED <<devTgl, devPkt, got>> /\ buff' = devPkt
    BY <1>0, <1>3 DEF Send
  <2>4. SyncedOut(pid)'
    BY <2>1, <2>2, <2>3 DEF SyncedOut, Took
  <2>5. OutBus'
    BY <2>2, <2>3, <2>4 DEF OutBus
  <2>6. QED
    BY <2>3, <2>5 DEF OutInv, Awaiting
<1>4. CASE Sample \/ ActWaiting
  <2>1. /\ Awaiting /\ st' \in {"WAIT", "ACT"} /\ UNCHANGED <<hasError, chanVars, devVars, got>>
        /\ st' = "ACT" => seen' = <<urb, hcst>>
    BY <1>4 DEF Sample, ActWaiting, Awaiting
  <2>2. OutBus
    BY <2>1 DEF OutInv
  <2>3. OutBus'
    BY <1>0, <2>1, <2>2 DEF OutBus, SyncedOut, Took
  <2>4. st' = "ACT" => seen[1]' = "IDLE" \/ (hw' = "off" /\ seen' = <<urb', hcst'>>)
    BY <2>1, <2>2 DEF OutBus
  <2>5. QED
    BY <1>0, <2>1, <2>3, <2>4 DEF OutInv, Awaiting
<1>5. ASSUME st = "ACT" PROVE Awaiting /\ hc /\ OutBus
  BY <1>0, <1>5 DEF Awaiting, SampleInv, OutInv
<1>6. CASE ActDone
  <2>1. st = "ACT" /\ hw = "off" /\ urb = "DONE"
    BY <1>6 DEF ActDone, OutInv
  <2>2. tgl = devTgl /\ Took(devPkt)
    BY <1>5, <2>1 DEF OutBus
  <2>3. /\ devPkt' = devPkt + 1 /\ st' \in {"FINALIZE", "SEND"}
        /\ UNCHANGED <<got, hc, saved, hasError, chanVars, devTgl>>
    BY <1>0, <1>6 DEF ActDone
  <2>4. NextToggle' = devTgl'
    BY <1>5, <2>1, <2>2, <2>3 DEF NextToggle
  <2>5. Took(devPkt - 1)'
    BY <1>0, <2>2, <2>3 DEF Took, TypeOK
  <2>6. SyncedOut(NextToggle)'
    BY <2>4, <2>5 DEF SyncedOut
  <2>7. QED
    BY <1>0, <2>1, <2>3, <2>6 DEF OutInv, Awaiting
<1>7. ASSUME st = "ACT", hw = "off", urb # "DONE", st' \in {"FINALIZE", "SEND"}, hasError' # 2,
             UNCHANGED <<hc, hw, tgl, devVars, got>>
      PROVE  OutInv'
  <2>1. SyncedOut(tgl)
    BY <1>5, <1>7 DEF OutBus
  <2>2. NextToggle' = tgl
    BY <1>5, <1>7 DEF NextToggle
  <2>3. SyncedOut(NextToggle)'
    BY <1>7, <2>1, <2>2 DEF SyncedOut, Took
  <2>4. QED
    BY <1>7, <2>3 DEF OutInv, Awaiting
<1>8. CASE ActFailed
  <2>1. st = "ACT" /\ hw = "off" /\ urb \in {"STALL", "NOTREADY", "ERROR"} /\ seen[2] = hcst
    BY <1>8 DEF ActFailed, OutInv
  <2>2. hcst # "DATATGLERR"
    BY <1>5, <2>1 DEF OutBus
  <2>3. st' \in {"FINALIZE", "SEND"} /\ UNCHANGED <<hc, saved, chanVars, devVars, got>>
    BY <1>8 DEF ActFailed, AfterFailure
  <2>4. hasError' # 2
    BY <1>0, <1>8, <2>1, <2>2 DEF ActFailed
  <2>5. QED
    BY <1>7, <2>1, <2>3, <2>4
<1>9. CASE ActTimeout
  <2>1. st = "ACT" /\ hw = "off" /\ urb = "IDLE" /\ seen[2] = hcst
    BY <1>0, <1>9 DEF ActTimeout
  <2>2. hcst # "XFRC"
    BY <1>5, <2>1 DEF OutBus
  <2>3. st' = "FINALIZE" /\ UNCHANGED <<hasError, hc, tgl, hw, devVars, got>>
    BY <1>0, <1>9, <2>1, <2>2 DEF ActTimeout
  <2>4. QED
    BY <1>0, <1>7, <2>1, <2>3
<1>10. CASE Finalize
  <2>1. ~Awaiting /\ hw = "off"
    BY <1>10 DEF Finalize, OutInv, Awaiting
  <2>2. st' = "NEXT" /\ UNCHANGED <<devVars, got>>
    BY <1>10 DEF Finalize
  <2>3. hw' = "off" /\ hasError' # 2 /\ NextToggle' = NextToggle
    <3>1. CASE hc /\ (ep.asNeeded \/ hasError # 0)
      <4>1. FreeChannel
        BY <1>10, <3>1 DEF Finalize
      <4>2. hw' = "off" /\ hasError' = 0 /\ NextToggle' = Repaired(NextToggle)
        BY <1>0, <2>1, <3>1, <4>1, Freed
      <4>3. QED
        BY <1>0, <4>2 DEF Repaired
    <3>2. CASE ~(hc /\ (ep.asNeeded \/ hasError # 0))
      BY <1>0, <1>10, <2>1, <3>2 DEF Finalize, NextToggle
    <3>3. QED
      BY <3>1, <3>2
  <2>4. QED
    BY <1>1, <2>1, <2>2, <2>3
<1>11. QED
  BY <1>2, <1>3, <1>4, <1>6, <1>8, <1>9, <1>10 DEF Task

LEMMA OutOthers ==
  ASSUME Basic, OutInv, ~IsIn, ep.faults \subseteq Harmless, UNCHANGED ep,
         \/ Bus \/ ChHltdIn \/ ChHltdOut \/ LentToOthers
         \/ \E n \in 1 .. 2 : Write(n)
  PROVE  OutInv'
<1> USE DEF taskVars, chanVars, devVars
<1>0. /\ TypeOK /\ SampleInv /\ SentInv /\ IsIn' = IsIn /\ IsIntr' = IsIntr
      /\ ~IsIntr /\ ~Fault("overrun") /\ hasError # 2
  BY HarmlessOut DEF Basic, TypeOK, IsIn, IsIntr, OutInv
<1>1. hw # "off" => Awaiting /\ OutBus /\ urb = "IDLE"
  BY DEF OutInv, OutBus
<1>2. ASSUME hw # "off", OutBus', UNCHANGED <<st, seen, hasError>> PROVE OutInv'
  <2>1. st = "ACT" => seen[1] = "IDLE"
    BY <1>2 DEF OutInv
  <2>2. QED
    BY <1>0, <1>1, <1>2, <2>1 DEF OutInv, Awaiting
<1>3. CASE DataOut
  <2>1. hw = "armed" /\ urb = "IDLE" /\ tgl = pid /\ SyncedOut(pid) /\ Awaiting /\ buff = devPkt
    BY <1>1, <1>3 DEF DataOut, OutBus
  <2>2. /\ hw' = "halting" /\ hcst' \in {"XFRC", "XACTERR"}
        /\ UNCHANGED <<st, seen, hasError, urb, tgl, pid, devPkt, buff>>
    BY <1>3 DEF DataOut, Halting
  <2>3. devPkt \in 1 .. N
    BY <1>0, <2>1 DEF SentInv, Awaiting, TypeOK
  <2>4. pid' = 1 - devTgl' /\ Took(devPkt)'
    <3>1. Took(devPkt)' = \A k \in 1 .. N : got'[k] = IF k <= devPkt' THEN 1 ELSE 0
      BY DEF Took
    <3>2. CASE pid = devTgl
      <4>1. Took(devPkt - 1)
        BY <1>0, <2>1, <3>2 DEF SyncedOut, TypeOK
      <4>2. devTgl' = 1 - devTgl /\ got' = [got EXCEPT ![devPkt] = @ + 1]
        BY <1>3, <2>1, <3>2 DEF DataOut
      <4>3. QED
        BY <1>0, <2>2, <2>3, <3>1, <3>2, <4>1, <4>2 DEF Took, TypeOK
    <3>3. CASE pid # devTgl
      BY <1>3, <2>1, <2>2, <3>1, <3>3 DEF DataOut, SyncedOut, Took
    <3>4. QED
      BY <3>2, <3>3
  <2>5. OutBus'
    BY <2>1, <2>2, <2>4 DEF OutBus, SyncedOut
  <2>6. QED
    BY <1>2, <2>1, <2>2, <2>5
<1>4. CASE Nak \/ XactErr \/ Stall
  <2>1. hw = "armed" /\ urb = "IDLE" /\ tgl = pid /\ SyncedOut(pid) /\ buff = devPkt
    BY <1>1, <1>4 DEF Nak, XactErr, Stall, OutBus
  <2>2. /\ UNCHANGED <<st, seen, hasError, urb, tgl, pid, devVars, got>>
        /\ hw' = "halting" /\ hcst' \in {"NAK", "XACTERR", "STALL"}
    BY <1>0, <1>4 DEF Nak, XactErr, Stall, Halting
  <2>3. SyncedOut(pid)'
    BY <2>1, <2>2 DEF SyncedOut, Took
  <2>4. OutBus'
    BY <2>1, <2>2, <2>3 DEF OutBus
  <2>5. QED
    BY <1>2, <2>1, <2>2, <2>4
<1>5. ~DataIn /\ ~Overrun /\ ~ChHltdIn
  BY <1>0 DEF DataIn, Overrun, ChHltdIn
<1>6. CASE ChHltdOut
  <2>1. /\ hw = "halting" /\ urb = "IDLE" /\ tgl = pid /\ SyncedOut(pid)
        /\ hcst \in {"NAK", "STALL", "XACTERR", "XFRC"}
        /\ hcst = "XFRC" => pid = 1 - devTgl /\ Took(devPkt)
    BY <1>1, <1>6 DEF ChHltdOut, OutBus
  <2>2. hw' = "off" /\ UNCHANGED <<st, seen, hasError, devVars, got, pid, hcst>>
    BY <1>6 DEF ChHltdOut
  <2>3. CASE hcst = "XFRC"
    <3>1. urb' = "DONE" /\ tgl' = devTgl'
      BY <1>0, <1>6, <2>1, <2>2, <2>3 DEF ChHltdOut, DoneToggle, TypeOK
    <3>2. Took(devPkt)'
      BY <2>1, <2>2, <2>3 DEF Took
    <3>3. OutBus'
      BY <2>2, <3>1, <3>2 DEF OutBus
    <3>4. QED
      BY <1>2, <2>1, <2>2, <3>3
  <2>4. CASE hcst # "XFRC"
    <3>1. urb' # "DONE" /\ tgl' = tgl
      BY <1>6, <2>1, <2>4 DEF ChHltdOut
    <3>2. SyncedOut(tgl)'
      BY <2>1, <2>2, <3>1 DEF SyncedOut, Took
    <3>3. OutBus'
      BY <2>1, <2>2, <2>4, <3>1, <3>2 DEF OutBus
    <3>4. QED
      BY <1>2, <2>1, <2>2, <3>3
  <2>5. QED
    BY <2>3, <2>4
<1>7. CASE LentToOthers \/ \E n \in 1 .. 2 : Write(n)
  <2>1. ~Awaiting /\ UNCHANGED <<st, hc, hasError, saved, tgl, hw, devVars, got>>
    BY <1>0, <1>7 DEF LentToOthers, Write, SampleInv, Awaiting
  <2>2. SyncedOut(NextToggle)' = SyncedOut(NextToggle)
    BY <2>1 DEF SyncedOut, Took, NextToggle
  <2>3. QED
    BY <1>0, <2>1, <2>2 DEF OutInv, Awaiting
<1>8. QED
  BY <1>3, <1>4, <1>5, <1>6, <1>7 DEF Bus
----------------------------------------------------------------------------
(* Bulk IN endpoints that may also be answered late. *)
LEMMA BearableIn ==
  ASSUME ep \in Endpoints, IsIn, ~IsIntr, ep.faults \subseteq Bearable
  PROVE  ~Fault("ackLost") /\ ~Fault("overrun") /\ (ep.asNeeded => ~Fault("timeout"))
BY DEF Bearable, Fault

LEMMA PidStep ==
  ASSUME Basic, PidInv, IsIn, ~IsIntr, ep.faults \subseteq Bearable, Next
  PROVE  PidInv'
<1> USE DEF taskVars, chanVars, devVars
<1>0. /\ TypeOK /\ SampleInv /\ IsIn' = IsIn /\ IsIntr' = IsIntr /\ ep' = ep
      /\ ~Fault("ackLost") /\ ~Fault("overrun") /\ (ep.asNeeded => ~Fault("timeout"))
  BY BearableIn DEF Basic, TypeOK, IsIn, IsIntr, Next
<1>1. CASE Idle \/ StartSkip \/ StartRequest \/ SendNoChannel \/ NextTurn
  BY <1>0, <1>1 DEF Idle, StartSkip, StartRequest, SendNoChannel, NextTurn, Awaiting, PidInv, NextToggle
<1>2. CASE Send
  <2>1. /\ pid' = NextToggle /\ tgl' = pid' /\ hc' /\ hasError' = 0
        /\ urb' = "IDLE" /\ hw' = "armed" /\ st' = "WAIT" /\ UNCHANGED devTgl
    BY <1>0, <1>2 DEF Send, NextToggle, RequestToggle, PidInv
  <2>2. QED
    BY <1>0, <2>1 DEF PidInv, NextToggle, Awaiting
<1>3. CASE Sample \/ ActWaiting
  BY <1>0, <1>3 DEF Sample, ActWaiting, Awaiting, PidInv, NextToggle
<1>4. CASE ActDone
  <2>1. st = "ACT" /\ hw = "off" /\ hc /\ hasError = 0 /\ st' = "FINALIZE" /\ UNCHANGED devTgl
    BY <1>0, <1>4 DEF ActDone, PidInv, SampleInv, Awaiting
  <2>2. CASE ep.asNeeded
    <3>1. FreeChannel
      BY <1>0, <1>4, <2>2 DEF ActDone
    <3>2. /\ hc' = FALSE /\ hasError' = 0 /\ hw' = "off" /\ NextToggle' = Repaired(NextToggle)
          /\ UNCHANGED <<urb, hcst, pid>>
      BY <1>0, <2>1, <3>1, Freed
    <3>3. QED
      BY <1>0, <2>1, <3>2 DEF PidInv, Repaired, Awaiting
  <2>3. CASE ~ep.asNeeded
    BY <1>0, <1>4, <2>1, <2>3 DEF ActDone, PidInv, NextToggle, Awaiting
  <2>4. QED
    BY <2>2, <2>3
<1>5. CASE ActFailed
  <2>1. st = "ACT" /\ hw = "off" /\ urb = seen[1] /\ hcst = seen[2] /\ hc
    BY <1>0, <1>5 DEF ActFailed, PidInv, SampleInv, Awaiting
  <2>2. hasError' \in {0, 1} /\ st' = "FINALIZE" /\ UNCHANGED <<hc, saved, chanVars, devVars>>
    BY <1>0, <1>5, <2>1 DEF ActFailed, AfterFailure, PidInv
  <2>3. QED
    BY <1>0, <2>1, <2>2 DEF PidInv, NextToggle, Awaiting
<1>6. CASE ActTimeout
  <2>1. st = "ACT" /\ st' = "FINALIZE" /\ UNCHANGED <<hc, saved, chanVars, devVars, hasError>>
    BY <1>0, <1>6 DEF ActTimeout
  <2>2. ep.asNeeded => hw = "off"
    BY <1>0, <1>6 DEF ActTimeout
  <2>3. hasError = 0
    BY <2>1 DEF PidInv
  <2>4. QED
    BY <1>0, <2>1, <2>2, <2>3 DEF PidInv, NextToggle, Awaiting
<1>7. CASE Finalize
  <2>1. st = "FINALIZE" /\ st' = "NEXT" /\ UNCHANGED devVars
    BY <1>7 DEF Finalize
  <2>2. CASE hc /\ (ep.asNeeded \/ hasError # 0)
    <3>1. hw = "off" /\ hasError # 2
      BY <2>1, <2>2 DEF PidInv, Awaiting
    <3>2. FreeChannel
      BY <1>7, <2>2 DEF Finalize
    <3>3. /\ hc' = FALSE /\ hasError' = 0 /\ hw' = "off" /\ NextToggle' = Repaired(NextToggle)
          /\ UNCHANGED <<urb, hcst, pid>>
      BY <1>0, <2>2, <3>1, <3>2, Freed
    <3>4. QED
      BY <1>0, <2>1, <3>1, <3>3 DEF PidInv, Repaired, Awaiting
  <2>3. CASE ~(hc /\ (ep.asNeeded \/ hasError # 0))
    BY <1>0, <1>7, <2>1, <2>3 DEF Finalize, PidInv, NextToggle, Awaiting, SampleInv
  <2>4. QED
    BY <2>2, <2>3
<1>8. hw # "off" => hc /\ urb = "IDLE" /\ tgl = devTgl /\ hasError = 0
                    /\ (st = "ACT" => seen[1] = "IDLE")
  BY DEF PidInv, NextToggle
<1>9. CASE DataIn
  <2>1. /\ hw = "armed" /\ hw' = "halting" /\ hcst' = "XFRC" /\ tgl' = 1 - tgl /\ urb' = urb
        /\ devTgl' = 1 - devTgl /\ UNCHANGED <<taskVars>>
    BY <1>0, <1>9 DEF DataIn, DevAdvance, Halting, DoneToggle, PidInv
  <2>2. QED
    BY <1>0, <1>8, <2>1 DEF PidInv, NextToggle, Awaiting
<1>10. CASE Nak \/ XactErr \/ Stall
  <2>1. hw = "armed" /\ UNCHANGED <<taskVars, devTgl, tgl, pid>>
    BY <1>10 DEF Nak, XactErr, Stall
  <2>2. \/ hw' = "off" /\ urb' = "NOTREADY"
        \/ hw' = "halting" /\ hcst' \in {"XACTERR", "STALL"} /\ urb' = urb
    BY <1>0, <1>8, <1>10 DEF Nak, XactErr, Stall, Halting
  <2>3. QED
    BY <1>0, <1>8, <2>1, <2>2 DEF PidInv, NextToggle, Awaiting
<1>11. ~DataOut /\ ~Overrun /\ ~ChHltdOut
  BY <1>0 DEF DataOut, Overrun, ChHltdOut
<1>12. CASE ChHltdIn
  <2>1. /\ hw = "halting" /\ hw' = "off" /\ tgl' = tgl
        /\ UNCHANGED <<taskVars, hcst, pid, devTgl>>
    BY <1>0, <1>12 DEF ChHltdIn, NakToggle
  <2>2. urb' = "ERROR" => hcst = "XACTERR"
    BY <1>8, <1>12, <2>1 DEF ChHltdIn, PidInv
  <2>3. QED
    BY <1>0, <1>8, <2>1, <2>2 DEF PidInv, NextToggle, Awaiting
<1>13. CASE LentToOthers \/ \E n \in 1 .. 2 : Write(n)
  BY <1>0, <1>13 DEF LentToOthers, Write, PidInv, NextToggle, Awaiting, SampleInv
<1>14. QED
  BY <1>1, <1>2, <1>3, <1>4, <1>5, <1>6, <1>7, <1>9, <1>10, <1>11, <1>12, <1>13 DEF Next, Task, Bus
----------------------------------------------------------------------------
LEMMA InitInv == Init => IInv
<1> SUFFICES ASSUME Init PROVE IInv
  OBVIOUS
<1>1. Basic
  BY BasicInit
<1>2. Took(0) /\ NextToggle = 0 /\ Repaired(0) = 0
  BY DEF Init, Took, NextToggle, Repaired
<1>3. InInv /\ OutInv /\ PidInv
  BY <1>2 DEF Init, InInv, OutInv, PidInv, Awaiting, SyncedIn, SyncedOut
<1>4. QED
  BY <1>1, <1>3 DEF IInv, Basic

LEMMA InvStep == IInv /\ [Next]_vars => IInv'
<1> SUFFICES ASSUME IInv, [Next]_vars PROVE IInv'
  OBVIOUS
<1>1. Basic /\ Basic'
  BY BasicStep DEF IInv, Basic
<1>2. CASE UNCHANGED vars
  <2>1. UNCHANGED <<ep, st, hc, hasError, saved, seen, urb, hcst, tgl, pid, hw, devTgl, devPkt,
                    buff, got>>
    BY <1>2 DEF vars, moves, taskVars, chanVars, devVars
  <2>2. /\ NextToggle' = NextToggle /\ Repaired(NextToggle)' = Repaired(NextToggle)
        /\ IsIn' = IsIn /\ IsIntr' = IsIntr /\ Harmless' = Harmless /\ Bearable' = Bearable
        /\ Awaiting' = Awaiting
    BY <2>1 DEF NextToggle, Repaired, IsIn, IsIntr, Harmless, Bearable, Awaiting
  <2>3. InBus' = InBus /\ OutBus' = OutBus
    BY <2>1, <2>2 DEF InBus, OutBus, Took, SyncedIn, SyncedOut
  <2>4. Took(buff)' = Took(buff) /\ SyncedIn(Repaired(NextToggle))' = SyncedIn(Repaired(NextToggle))
        /\ SyncedOut(NextToggle)' = SyncedOut(NextToggle)
    BY <2>1, <2>2 DEF Took, SyncedIn, SyncedOut
  <2>5. InInv' /\ OutInv' /\ PidInv'
    BY <2>1, <2>2, <2>3, <2>4 DEF IInv, InInv, OutInv, PidInv
  <2>6. QED
    BY <1>1, <2>5 DEF IInv, Basic
<1>3. CASE Next
  <2>0. InInv /\ OutInv /\ PidInv
    BY DEF IInv
  <2>1. /\ ep' = ep /\ IsIn' = IsIn /\ IsIntr' = IsIntr
        /\ Harmless' = Harmless /\ Bearable' = Bearable
    BY <1>3 DEF Next, IsIn, IsIntr, Harmless, Bearable
  <2>2. InInv'
    <3>1. CASE IsIn /\ ep.faults \subseteq Harmless
      BY <1>1, <1>3, <2>0, <3>1, InTask, InOthers DEF Next
    <3>2. CASE ~(IsIn /\ ep.faults \subseteq Harmless)
      BY <2>1, <3>2 DEF InInv
    <3>3. QED
      BY <3>1, <3>2
  <2>3. OutInv'
    <3>1. CASE ~IsIn /\ ep.faults \subseteq Harmless
      BY <1>1, <1>3, <2>0, <3>1, OutTask, OutOthers DEF Next
    <3>2. CASE ~(~IsIn /\ ep.faults \subseteq Harmless)
      BY <2>1, <3>2 DEF OutInv
    <3>3. QED
      BY <3>1, <3>2
  <2>4. PidInv'
    <3>1. CASE ~IsIntr /\ IsIn /\ ep.faults \subseteq Bearable
      BY <1>1, <1>3, <2>0, <3>1, PidStep
    <3>2. CASE ~(~IsIntr /\ IsIn /\ ep.faults \subseteq Bearable)
      BY <2>1, <3>2 DEF PidInv
    <3>3. QED
      BY <3>1, <3>2
  <2>5. QED
    BY <1>1, <2>2, <2>3, <2>4 DEF IInv, Basic
<1>4. QED
  BY <1>2, <1>3

THEOREM PipeInvariance == Spec => []IInv
BY InitInv, InvStep, PTL DEF Spec

(* Every packet arrives exactly once, through NAKs, lost acknowledgements,
   errors and stalls as far as USBH_DevIO_Task makes them good. *)
THEOREM PacketsExact == Spec => []ExactlyOnce
<1>1. IInv => ExactlyOnce
  <2> SUFFICES ASSUME IInv, ep.faults \subseteq Harmless PROVE Lost = {} /\ Repeated = {}
    BY DEF ExactlyOnce
  <2> USE DEF IInv
  <2>1. CASE IsIn
    <3>1. /\ buff \in {devPkt - 1, devPkt}
          /\ \/ Took(buff)
             \/ /\ Took(buff - 1) /\ Awaiting
                /\ urb = "DONE" \/ (hw = "halting" /\ hcst = "XFRC")
      BY <2>1 DEF InInv, InBus, SyncedIn
    <3>2. Repeated = {}
      BY <3>1 DEF Took, Repeated, TypeOK
    <3>3. ASSUME NEW k \in 1 .. devPkt - 1, got[k] = 0 PROVE Pending(k)
      <4>1. k \in 1 .. N /\ k <= buff
        BY <3>1, <3>3 DEF TypeOK
      <4>2. ~Took(buff) /\ Took(buff - 1)
        BY <3>1, <3>3, <4>1 DEF Took
      <4>3. k = buff
        BY <3>3, <4>1, <4>2 DEF Took, TypeOK
      <4>4. QED
        BY <2>1, <3>1, <4>2, <4>3 DEF Pending, Awaiting
    <3>4. QED
      BY <3>2, <3>3 DEF Lost
  <2>2. CASE ~IsIn
    <3>1. Took(devPkt - 1) \/ Took(devPkt)
      BY <2>2 DEF OutInv, OutBus, SyncedOut
    <3>2. \A k \in 1 .. devPkt - 1 : k \in 1 .. N /\ got[k] = 1
      BY <3>1 DEF Took, TypeOK
    <3>3. QED
      BY <3>1, <3>2 DEF Took, Lost, Repeated, TypeOK
  <2>3. QED
    BY <2>1, <2>2
<1>2. QED
  BY <1>1, PipeInvariance, PTL

(* A bulk IN endpoint stays in step with its device, also when requests time
   out and are answered after the next turn has begun. *)
THEOREM PidsInSync == Spec => []PidInSync
<1>1. IInv => PidInSync
  BY DEF IInv, PidInv, PidInSync
<1>2. QED
  BY <1>1, PipeInvariance, PTL
----------------------------------------------------------------------------
(* FaultCost: counting. *)
HIDE EndpointsAssumption

LEMMA Uncharged ==
  ASSUME NEW S, IsFiniteSet(S), NEW T, T \subseteq S, NEW d \in Nat, NEW e \in Nat, NEW f \in Nat,
         NEW g \in Nat, Cardinality(S) + d <= f, e + f <= d + g
  PROVE  Cardinality(T) + e <= g
<1>1. /\ Cardinality(S) \in Nat /\ Cardinality(T) \in Nat
      /\ Cardinality(T) <= Cardinality(S)
  BY FS_Subset, FS_CardinalityType
<1>2. QED
  BY <1>1

LEMMA Charged ==
  ASSUME NEW S, IsFiniteSet(S), NEW T, NEW x, T \subseteq S \cup {x}, NEW d \in Nat, NEW e \in Nat,
         NEW f \in Nat, NEW g \in Nat, Cardinality(S) + d <= f, e + 1 + f <= d + g
  PROVE  Cardinality(T) + e <= g
<1>1. Cardinality(S) \in Nat
  BY FS_CardinalityType
<1>2. CASE x \in S
  <2>1. T \subseteq S
    BY <1>2
  <2>2. e + f <= d + g
    OBVIOUS
  <2>3. QED
    BY <2>1, <2>2, Uncharged
<1>3. CASE x \notin S
  <2> DEFINE U == S \cup {x}
  <2>1. IsFiniteSet(U) /\ Cardinality(U) = Cardinality(S) + 1
    BY <1>3, FS_AddElement
  <2>2. T \subseteq U
    OBVIOUS
  <2> HIDE DEF U
  <2>3. Cardinality(T) \in Nat /\ Cardinality(T) <= Cardinality(U)
    BY <2>1, <2>2, FS_Subset, FS_CardinalityType
  <2>4. QED
    BY <1>1, <2>1, <2>3
<1>4. QED
  BY <1>2, <1>3

LEMMA Sums ==
  \A a, b, f, g \in Nat : \A u \in 0 .. 1 : g = f + u =>
    /\ a <= b + u => a + f <= b + g
    /\ a + 1 <= b + u => a + 1 + f <= b + g
OBVIOUS

LEMMA Countable ==
  ASSUME TypeOK
  PROVE  /\ Lost \subseteq 1 .. N /\ IsFiniteSet(Lost) /\ Cardinality(Lost) \in Nat
         /\ Repeated \subseteq 1 .. N /\ IsFiniteSet(Repeated) /\ Cardinality(Repeated) \in Nat
         /\ faults \in Nat
<1>1. N \in Nat /\ IsFiniteSet(1 .. N)
  BY FS_Interval
<1>2. Lost \subseteq 1 .. N /\ Repeated \subseteq 1 .. N
  BY <1>1 DEF Lost, Repeated, TypeOK
<1>3. \A S : S \subseteq 1 .. N => IsFiniteSet(S) /\ Cardinality(S) \in Nat
  BY <1>1, FS_Subset, FS_CardinalityType
<1>4. faults \in Nat
  BY Kind DEF TypeOK
<1>5. QED
  BY <1>2, <1>3, <1>4

LEMMA Bits == \A b \in BOOLEAN : Bit(b) \in 0 .. 1 /\ (b <=> Bit(b) = 1)
BY DEF Bit

(* A fault is counted when it happens. *)
LEMMA FaultsGrow ==
  ASSUME Basic, Next PROVE faults' \in {faults, faults + 1}
<1>1. faults \in Nat /\ \A f : Fault(f) => faults' = faults + 1
  BY Kind DEF Basic, TypeOK, Fault
<1>2. CASE Task
  BY <1>1, <1>2 DEF Task, Idle, StartSkip, StartRequest, Send, SendNoChannel, Sample, ActDone,
     ActFailed, ActWaiting, ActTimeout, Finalize, NextTurn
<1>3. CASE Bus
  BY <1>1, <1>3 DEF Bus, DataIn, DataOut, Nak, XactErr, Stall, Overrun
<1>4. CASE ChHltdIn \/ ChHltdOut \/ LentToOthers \/ \E n \in 1 .. 2 : Write(n)
  BY <1>4 DEF ChHltdIn, ChHltdOut, LentToOthers, Write
<1>5. QED
  BY <1>2, <1>3, <1>4 DEF Next
----------------------------------------------------------------------------
(* Interrupt IN endpoints. *)
LEMMA IntrDueType == TypeOK => IntrDue \in 0 .. 2
BY DEF IntrDue, Bit

(* Whatever leaves packets and copies alone. *)
LEMMA IntrKept ==
  ASSUME Basic, Basic', IntrInv, IsIntr, IsIntr', IntrShape', UNCHANGED <<got, buff, devPkt>>,
         NEW u \in 0 .. 1, faults' = faults + u,
         Pending(buff)' => Pending(buff) \/ u = 1,
         \/ IntrDue' <= IntrDue + u /\ (Pending(buff) => Pending(buff)')
         \/ IntrDue' + 1 <= IntrDue + u
  PROVE  IntrInv'
<1>1. /\ TypeOK /\ TypeOK' /\ IntrDue \in Nat /\ IntrDue' \in Nat /\ faults \in Nat /\ faults' \in Nat
      /\ IsFiniteSet(Lost) /\ IsFiniteSet(Repeated)
  <2>1. TypeOK /\ TypeOK'
    BY DEF Basic
  <2>2. (IntrDue \in 0 .. 2)'
    BY <2>1, IntrDueType, PTL
  <2>3. QED
    BY <2>1, <2>2, IntrDueType, Countable
<1>2. \A k : Pending(k) => k = buff
  BY DEF Pending
<1>3. Lost' \subseteq Lost \cup {buff} /\ ((Pending(buff) => Pending(buff)') => Lost' \subseteq Lost)
  BY <1>2 DEF Lost
<1>4. Cardinality(Lost') + IntrDue' <= faults'
  <2>1. Cardinality(Lost) + IntrDue <= faults
    BY DEF IntrInv
  <2>2. CASE IntrDue' <= IntrDue + u /\ (Pending(buff) => Pending(buff)')
    <3>1. Lost' \subseteq Lost
      BY <1>3, <2>2
    <3>2. IntrDue' + faults <= IntrDue + faults'
      BY <1>1, <2>2, Sums
    <3>3. QED
      BY <1>1, <2>1, <3>1, <3>2, Uncharged
  <2>3. CASE IntrDue' + 1 <= IntrDue + u
    <3>1. IntrDue' + 1 + faults <= IntrDue + faults'
      BY <1>1, <2>3, Sums
    <3>2. QED
      BY <1>1, <1>3, <2>1, <3>1, Charged
  <2>4. QED
    BY <2>2, <2>3
<1>5. Repeated' = Repeated
  BY DEF Repeated
<1>6. /\ buff > 0 => got[buff] \in Nat
      /\ Copies = got[buff] + Bit(Pending(buff)) + Bit(buff = devPkt)
      /\ Copies' = got[buff] + Bit(Pending(buff)') + Bit(buff = devPkt)
  BY <1>1 DEF Copies, TypeOK, Bit
<1>7. /\ Bit(Pending(buff)) \in 0 .. 1 /\ Bit(Pending(buff)') \in 0 .. 1 /\ Bit(buff = devPkt) \in 0 .. 1
      /\ Bit(Pending(buff)') <= Bit(Pending(buff)) + u
  BY DEF Bit
<1>8. buff > 0 => Copies' <= Copies + u /\ Copies' <= faults' + 1 /\ Copies \in Nat /\ Copies' \in Nat
  BY <1>1, <1>6, <1>7 DEF IntrInv
<1>9. RepeatDueIn \in Nat /\ RepeatDueIn' \in Nat /\ RepeatDueIn' <= RepeatDueIn + u
  BY <1>8 DEF RepeatDueIn, Bit
<1>10. Cardinality(Repeated') + RepeatDueIn' <= faults'
  <2>1. Cardinality(Repeated) + RepeatDueIn <= faults
    BY DEF IntrInv
  <2>2. Cardinality(Repeated) \in Nat
    BY <1>1, FS_CardinalityType
  <2>3. QED
    BY <1>1, <1>5, <1>9, <2>1, <2>2
<1>11. \A k \in 1 .. N : (k > buff' => got'[k] = 0) /\ got'[k] <= faults' + 1
  <2>1. \A k \in 1 .. N : got[k] \in Nat
    BY <1>1 DEF TypeOK
  <2>2. QED
    BY <1>1, <2>1 DEF IntrInv
<1>12. QED
  BY <1>4, <1>8, <1>10, <1>11 DEF IntrInv

LEMMA IntrShapeStep ==
  ASSUME Basic, IsIntr, IntrShape, Next PROVE IntrShape'
<1> USE DEF taskVars, chanVars, devVars
<1>0. /\ TypeOK /\ SampleInv /\ IsIn
  BY Kind DEF Basic, TypeOK
<1>1. CASE Idle \/ StartSkip \/ StartRequest \/ SendNoChannel \/ NextTurn
  BY <1>0, <1>1 DEF Idle, StartSkip, StartRequest, SendNoChannel, NextTurn, Awaiting, IntrShape, SampleInv
<1>2. CASE Send
  <2>1. /\ pid' \in {0, 1} /\ tgl' = 1 - pid' /\ hc' /\ hasError' = 0
        /\ urb' = "IDLE" /\ hw' = "armed" /\ st' = "WAIT"
    BY <1>0, <1>2 DEF Send, RequestToggle, TypeOK, IntrShape, Awaiting
  <2>2. QED
    BY <2>1 DEF IntrShape, Awaiting
<1>3. CASE Sample \/ ActWaiting
  BY <1>0, <1>3 DEF Sample, ActWaiting, Awaiting, IntrShape, SampleInv
<1>4. CASE ActDone
  <2>1. st = "ACT" /\ hw = "off" /\ hc /\ hasError = 0 /\ st' = "FINALIZE"
    BY <1>0, <1>4 DEF ActDone, IntrShape, SampleInv, Awaiting
  <2>2. CASE ep.asNeeded
    <3>1. hc' = FALSE /\ hasError' = 0 /\ hw' = "off"
      BY <1>0, <1>4, <2>1, <2>2 DEF ActDone, FreeChannel
    <3>2. QED
      BY <2>1, <3>1 DEF IntrShape, Awaiting
  <2>3. CASE ~ep.asNeeded
    BY <1>0, <1>4, <2>1, <2>3 DEF ActDone, IntrShape, Awaiting
  <2>4. QED
    BY <2>2, <2>3
<1>5. CASE ActFailed
  <2>1. st = "ACT" /\ hw = "off" /\ st' = "FINALIZE" /\ UNCHANGED hw
    BY <1>0, <1>5 DEF ActFailed, AfterFailure, IntrShape
  <2>2. QED
    BY <2>1 DEF IntrShape, Awaiting
<1>6. CASE ActTimeout
  BY <1>0, <1>6 DEF ActTimeout, IntrShape, Awaiting
<1>7. CASE Finalize
  <2>1. st = "FINALIZE" /\ st' = "NEXT"
    BY <1>7 DEF Finalize
  <2>2. CASE FreeChannel
    BY <1>0, <2>1, <2>2 DEF FreeChannel, IntrShape, Awaiting, TypeOK
  <2>3. CASE ~FreeChannel
    <3>1. ~(hc /\ hasError # 0) /\ UNCHANGED <<hc, saved, hasError, chanVars>>
      BY <1>7, <2>3 DEF Finalize
    <3>2. QED
      BY <1>0, <2>1, <3>1 DEF IntrShape, Awaiting, SampleInv
  <2>4. QED
    BY <2>2, <2>3
<1>8. CASE DataIn
  <2>1. /\ hw = "armed" /\ hc /\ UNCHANGED taskVars
        /\ \/ hcst' = "XFRC" /\ hw' = "off" /\ urb' = "DONE"
           \/ hcst' = "DATATGLERR" /\ hw' = "halting" /\ urb' = urb
    BY <1>0, <1>8 DEF DataIn, Halting, IntrShape
  <2>2. QED
    BY <1>0, <2>1 DEF IntrShape, Awaiting
<1>9. CASE Nak \/ XactErr \/ Stall \/ Overrun
  <2>1. hw = "armed" /\ hc /\ hw' = "halting" /\ UNCHANGED <<taskVars, urb>>
    BY <1>0, <1>9 DEF Nak, XactErr, Stall, Overrun, Halting, IntrShape
  <2>2. QED
    BY <1>0, <2>1 DEF IntrShape, Awaiting
<1>10. CASE ChHltdIn
  <2>1. /\ hw = "halting" /\ hw' = "off" /\ UNCHANGED <<taskVars, hcst>>
    BY <1>0, <1>10 DEF ChHltdIn
  <2>2. urb' # "IDLE" /\ (urb' = "ERROR" => hcst' \in {"XACTERR", "DATATGLERR"})
    BY <1>0, <1>10 DEF ChHltdIn, TypeOK, HcStatus
  <2>3. QED
    BY <1>0, <2>1, <2>2 DEF IntrShape, Awaiting
<1>11. CASE LentToOthers
  BY <1>0, <1>11 DEF LentToOthers, IntrShape, Awaiting, SampleInv
<1>12. ~DataOut /\ ~ChHltdOut /\ ~\E n \in 1 .. 2 : Write(n)
  BY <1>0 DEF DataOut, ChHltdOut, Write
<1>13. QED
  BY <1>1, <1>2, <1>3, <1>4, <1>5, <1>6, <1>7, <1>8, <1>9, <1>10, <1>11, <1>12 DEF Next, Task, Bus

(* What a step may cost: u of a fault, and a packet in the buffer. *)
IntrCosts(u) == /\ UNCHANGED <<got, buff, devPkt>> /\ faults' = faults + u
                /\ Pending(buff)' => Pending(buff) \/ u = 1
                /\ \/ IntrDue' <= IntrDue + u /\ (Pending(buff) => Pending(buff)')
                   \/ IntrDue' + 1 <= IntrDue + u

LEMMA IntrCost ==
  ASSUME Basic, Basic', IsIntr, IsIntr', IntrShape, IntrShape', Next, ~DataIn, ~ActDone
  PROVE  IntrCosts(0) \/ IntrCosts(1)
<1> USE DEF taskVars, chanVars, devVars
<1>0. /\ TypeOK /\ TypeOK' /\ SampleInv /\ IsIn /\ IsIn' /\ faults \in Nat
  <2>1. IsIn
    BY Kind DEF Basic, TypeOK
  <2>2. QED
    BY <2>1, Countable DEF Basic, Next, IsIn
<1> DEFINE P == Pending(buff)
<1>a. P <=> Awaiting /\ (urb = "DONE" \/ (hw = "halting" /\ hcst = "XFRC"))
  BY <1>0 DEF Pending, Awaiting
<1>b. P' <=> Awaiting' /\ (urb' = "DONE" \/ (hw' = "halting" /\ hcst' = "XFRC"))
  BY <1>0 DEF Pending, Awaiting
<1> HIDE DEF P
<1>q. ASSUME NEW u \in 0 .. 1, UNCHANGED <<got, buff, devPkt>>, faults' = faults + u,
             P' => P \/ u = 1,
             \/ IntrDue' <= IntrDue + u /\ (P => P')
             \/ IntrDue' + 1 <= IntrDue + u
      PROVE IntrCosts(u)
  BY <1>q DEF IntrCosts, P
<1>e. ASSUME UNCHANGED <<got, buff, devPkt, faults>>, P' <=> P, IntrDue' = IntrDue
      PROVE IntrCosts(0)
  <2>1. IntrDue \in Nat
    BY <1>0, IntrDueType
  <2>2. QED
    BY <1>0, <1>e, <2>1, <1>q
<1>1. CASE Idle \/ StartSkip \/ StartRequest \/ SendNoChannel \/ NextTurn
  <2>1. /\ ~Awaiting /\ ~Awaiting'
        /\ UNCHANGED <<hc, hasError, saved, chanVars, devVars, got, faults>>
    BY <1>1 DEF Idle, StartSkip, StartRequest, SendNoChannel, NextTurn, Awaiting
  <2>2. IntrDue' = IntrDue
    BY <2>1 DEF IntrDue, NextToggle, Repaired
  <2>3. QED
    BY <1>a, <1>b, <1>e, <2>1, <2>2
<1>2. CASE Send
  <2>1. /\ pid' = NextToggle /\ hc' /\ hw' = "armed" /\ urb' = "IDLE" /\ Awaiting' /\ ~Awaiting
        /\ UNCHANGED <<buff, devPkt, devTgl, got, faults>>
    BY <1>0, <1>2 DEF Send, NextToggle, Awaiting
  <2>2. hc => hw = "off" /\ hasError = 0
    BY <1>2 DEF Send, IntrShape, Awaiting
  <2>3. IntrDue = Bit(NextToggle # devTgl) /\ IntrDue' = Bit(NextToggle # devTgl)
    BY <2>1, <2>2 DEF IntrDue, NextToggle, Repaired
  <2>4. QED
    BY <1>a, <1>b, <1>e, <2>1, <2>3
<1>3. CASE Sample \/ ActWaiting
  <2>1. Awaiting /\ Awaiting' /\ UNCHANGED <<hc, hasError, saved, chanVars, devVars, got, faults>>
    BY <1>3 DEF Sample, ActWaiting, Awaiting
  <2>2. IntrDue' = IntrDue
    BY <2>1 DEF IntrDue, NextToggle, Repaired, Reverted
  <2>3. QED
    BY <1>a, <1>b, <1>e, <2>1, <2>2
<1>4. CASE ActFailed
  <2>1. /\ Awaiting /\ ~Awaiting' /\ hc /\ hasError = 0 /\ hw = "off" /\ urb = seen[1] /\ hcst = seen[2]
        /\ urb # "DONE" /\ UNCHANGED <<hc, saved, chanVars, devVars, got, faults>>
        /\ hasError' = (IF urb # "ERROR" THEN 0 ELSE IF hcst = "DATATGLERR" THEN 2 ELSE 1)
    BY <1>0, <1>4 DEF ActFailed, AfterFailure, IntrShape, Awaiting, SampleInv
  <2>2. IntrDue' = IntrDue
    BY <2>1 DEF IntrDue, Repaired
  <2>3. QED
    BY <1>a, <1>b, <1>e, <2>1, <2>2
<1>5. CASE ActTimeout
  <2>1. /\ st = "ACT" /\ Awaiting /\ ~Awaiting' /\ hasError' = 1 /\ hc
        /\ UNCHANGED <<hc, saved, chanVars, devVars, got>>
    BY <1>0, <1>5 DEF ActTimeout, Awaiting, SampleInv
  <2>2. faults' = faults + 1
    BY <1>0, <1>5, <2>1 DEF ActTimeout, Fault, IntrShape
  <2>3. IntrDue' <= IntrDue + 1 /\ (P => IntrDue' + 1 <= IntrDue + 1)
    <3>1. CASE hw = "armed"
      <4>1. ~P
        BY <1>a, <2>1, <3>1 DEF IntrShape
      <4>2. IntrDue = Bit(pid # devTgl) /\ IntrDue' = 1 + Bit(pid # devTgl)
        BY <2>1, <3>1 DEF IntrDue
      <4>3. QED
        BY <4>1, <4>2 DEF Bit
    <3>2. CASE hw = "halting"
      <4>1. P <=> hcst = "XFRC"
        BY <1>a, <2>1, <3>2 DEF IntrShape
      <4>2. IntrDue = Bit(Reverted # devTgl)
        BY <2>1, <3>2 DEF IntrDue
      <4>3. IntrDue' = IF hcst \in {"NAK", "IDLE"} THEN 1 ELSE Bit(tgl # devTgl)
        BY <2>1, <3>2 DEF IntrDue, Repaired
      <4>4. QED
        BY <4>1, <4>2, <4>3 DEF Bit, Reverted
    <3>3. CASE hw = "off"
      <4>1. IntrDue = Bit((IF urb = "ERROR" /\ hcst = "DATATGLERR" THEN 1 - tgl ELSE tgl) # devTgl)
        BY <2>1, <3>3 DEF IntrDue
      <4>2. IntrDue' = Bit(tgl # devTgl)
        BY <2>1, <3>3 DEF IntrDue, Repaired
      <4>3. P => urb # "ERROR"
        BY <1>a, <3>3
      <4>4. QED
        BY <4>1, <4>2, <4>3 DEF Bit
    <3>4. QED
      BY <1>0, <3>1, <3>2, <3>3 DEF TypeOK
  <2>4. QED
    BY <1>b, <1>q, <2>1, <2>2, <2>3
<1>6. CASE Finalize
  <2>1. ~Awaiting /\ ~Awaiting' /\ UNCHANGED <<devVars, got, faults>>
    BY <1>6 DEF Finalize, Awaiting
  <2>2. CASE hc /\ (ep.asNeeded \/ hasError # 0)
    <3>1. hc' = FALSE /\ NextToggle' = Repaired(tgl)
      BY <1>0, <1>6, <2>2, Freed DEF Finalize, NextToggle
    <3>2. IntrDue' = Bit(Repaired(tgl) # devTgl)
      BY <2>1, <3>1 DEF IntrDue
    <3>3. \/ IntrDue = 1 + Bit(pid # devTgl) \/ IntrDue = 1 \/ IntrDue = Bit(Repaired(tgl) # devTgl)
      BY <2>1, <2>2 DEF IntrDue
    <3>4. IntrDue' <= IntrDue
      BY <3>2, <3>3 DEF Bit
    <3>5. QED
      BY <1>0, <1>a, <1>b, <1>q, <2>1, <3>2, <3>3, <3>4 DEF Bit
  <2>3. CASE ~(hc /\ (ep.asNeeded \/ hasError # 0))
    <3>1. UNCHANGED <<hc, saved, hasError, chanVars>>
      BY <1>6, <2>3 DEF Finalize
    <3>2. IntrDue' = IntrDue
      BY <2>1, <3>1 DEF IntrDue, NextToggle, Repaired
    <3>3. QED
      BY <1>a, <1>b, <1>e, <2>1, <3>1, <3>2
  <2>4. QED
    BY <2>2, <2>3
<1>7. CASE Nak
  <2>1. /\ hw = "armed" /\ hw' = "halting" /\ hcst' = "NAK" /\ urb = "IDLE" /\ hc /\ tgl = 1 - pid
        /\ UNCHANGED <<taskVars, urb, tgl, pid, devVars, got, faults>>
    BY <1>0, <1>7 DEF Nak, Halting, IntrShape
  <2>2. ~P /\ ~P' /\ Awaiting' = Awaiting
    BY <1>a, <1>b, <2>1 DEF Awaiting
  <2>3. CASE Awaiting
    <3>1. IntrDue = Bit(pid # devTgl) /\ IntrDue' = Bit(1 - (1 - pid) # devTgl)
      BY <2>1, <2>2, <2>3 DEF IntrDue, Reverted
    <3>2. QED
      BY <1>0, <1>e, <2>1, <2>2, <3>1 DEF TypeOK
  <2>4. CASE ~Awaiting
    <3>1. IntrDue = 1 + Bit(pid # devTgl) /\ IntrDue' = 1
      BY <2>1, <2>2, <2>4 DEF IntrDue
    <3>2. QED
      BY <1>0, <1>q, <2>1, <2>2, <3>1 DEF Bit
  <2>5. QED
    BY <2>3, <2>4
<1>8. CASE XactErr \/ Stall \/ Overrun
  <2>1. /\ hw = "armed" /\ hw' = "halting" /\ urb = "IDLE" /\ hc /\ faults' = faults + 1
        /\ UNCHANGED <<taskVars, urb, tgl, pid, devVars, got>>
    BY <1>0, <1>8 DEF XactErr, Stall, Overrun, Fault, Halting, IntrShape
  <2>2. ~P /\ Awaiting' = Awaiting
    BY <1>a, <2>1 DEF Awaiting
  <2>3. CASE Awaiting
    <3>1. IntrDue = Bit(pid # devTgl) /\ IntrDue' = Bit(Reverted' # devTgl)
      BY <2>1, <2>2, <2>3 DEF IntrDue
    <3>2. QED
      BY <1>0, <1>q, <2>1, <2>2, <3>1 DEF Bit
  <2>4. CASE ~Awaiting
    <3>1. IntrDue = 1 + Bit(pid # devTgl) /\ (IntrDue' = 1 \/ IntrDue' = Bit(Repaired(tgl)' # devTgl))
      BY <2>1, <2>2, <2>4 DEF IntrDue, Repaired
    <3>2. QED
      BY <1>0, <1>q, <2>1, <2>2, <3>1 DEF Bit
  <2>5. QED
    BY <2>3, <2>4
<1>9. CASE ChHltdIn
  <2>1. /\ hw = "halting" /\ hw' = "off"
        /\ hcst \in {"NAK", "IDLE"} => tgl' = 1 - tgl
        /\ UNCHANGED <<taskVars, hcst, pid, devVars, got, faults>>
        /\ Awaiting' = Awaiting /\ (hc /\ Awaiting => urb = "IDLE")
    BY <1>0, <1>9 DEF ChHltdIn, NakToggle, IntrShape, Awaiting
  <2>2. (urb' = "DONE" <=> hcst = "XFRC") /\ (urb' = "ERROR" <=> hcst \in {"XACTERR", "DATATGLERR"})
    BY <1>0, <1>9 DEF ChHltdIn
  <2>3. P' <=> P
    BY <1>0, <1>a, <1>b, <2>1, <2>2 DEF SampleInv
  <2>4. hcst \notin {"NAK", "IDLE"} => tgl' = tgl
    BY <1>0, <1>9 DEF ChHltdIn, NakToggle
  <2>5. CASE ~hc
    <3>1. IntrDue' = IntrDue
      BY <2>1, <2>5 DEF IntrDue, NextToggle
    <3>2. QED
      BY <1>e, <2>1, <2>3, <3>1
  <2>6. CASE hc /\ Awaiting
    <3>1. IntrDue = Bit(Reverted # devTgl)
      BY <2>1, <2>6 DEF IntrDue
    <3>2. IntrDue' = Bit((IF urb' = "ERROR" /\ hcst = "DATATGLERR" THEN 1 - tgl' ELSE tgl') # devTgl)
      BY <2>1, <2>6 DEF IntrDue
    <3>3. IntrDue' = IntrDue
      BY <2>1, <2>2, <2>4, <3>1, <3>2 DEF Reverted
    <3>4. QED
      BY <1>e, <2>1, <2>3, <3>3
  <2>7. CASE hc /\ ~Awaiting
    <3>1. IntrDue' = Bit(Repaired(tgl)' # devTgl)
      BY <2>1, <2>7 DEF IntrDue, Repaired
    <3>2. CASE hcst \in {"NAK", "IDLE"}
      <4>1. IntrDue = 1
        BY <2>1, <2>7, <3>2 DEF IntrDue
      <4>2. QED
        BY <1>0, <1>q, <2>1, <2>3, <3>1, <4>1 DEF Bit
    <3>3. CASE hcst \notin {"NAK", "IDLE"}
      <4>1. IntrDue = Bit(Repaired(tgl) # devTgl) /\ Repaired(tgl)' = Repaired(tgl)
        BY <2>1, <2>4, <2>7, <3>3 DEF IntrDue, Repaired
      <4>2. QED
        BY <1>e, <2>1, <2>3, <3>1, <4>1
    <3>4. QED
      BY <3>2, <3>3
  <2>8. QED
    BY <2>5, <2>6, <2>7
<1>10. CASE LentToOthers
  <2>1. /\ ~hc /\ ~hc' /\ UNCHANGED <<taskVars, tgl, devVars, got, faults>>
    BY <1>10 DEF LentToOthers
  <2>2. ~Awaiting /\ ~Awaiting' /\ IntrDue' = IntrDue
    BY <1>0, <2>1 DEF SampleInv, Awaiting, IntrDue, NextToggle
  <2>3. QED
    BY <1>a, <1>b, <1>e, <2>1, <2>2
<1>11. ~DataOut /\ ~ChHltdOut /\ ~\E n \in 1 .. 2 : Write(n)
  BY <1>0 DEF DataOut, ChHltdOut, Write
<1>12. QED
  BY <1>1, <1>2, <1>3, <1>4, <1>5, <1>6, <1>7, <1>8, <1>9, <1>10, <1>11 DEF Next, Task, Bus

LEMMA IntrDataIn ==
  ASSUME Basic, Basic', IntrInv, IsIntr, IsIn', IntrShape', DataIn
  PROVE  IntrInv'
<1> USE DEF taskVars, chanVars, devVars
<1>0. /\ TypeOK /\ TypeOK' /\ IsIn /\ faults \in Nat /\ faults' \in Nat /\ IntrShape
      /\ IsFiniteSet(Lost) /\ IsFiniteSet(Repeated) /\ Cardinality(Repeated) \in Nat
      /\ IntrDue \in Nat /\ IntrDue' \in Nat
  <2>1. TypeOK /\ TypeOK'
    BY DEF Basic
  <2>2. (IntrDue \in 0 .. 2)' /\ (faults \in Nat)'
    BY <2>1, IntrDueType, Countable, PTL
  <2>3. QED
    BY <2>1, <2>2, IntrDueType, Countable DEF DataIn, IntrInv
<1>1. PICK u \in 0 .. 1 : /\ faults' = faults + u
                          /\ \/ u = 0 /\ devTgl' = 1 - devTgl /\ devPkt' = devPkt + 1
                             \/ u = 1 /\ UNCHANGED <<devTgl, devPkt>>
  BY <1>0 DEF DataIn, Fault, DevAdvance
<1>2. /\ hw = "armed" /\ hc /\ tgl = 1 - pid /\ urb = "IDLE" /\ devPkt \in 1 .. N
      /\ hc' /\ hasError' = hasError /\ tgl' = tgl /\ Awaiting' = Awaiting /\ got' = got
      /\ ~Awaiting => hasError = 1
      /\ pid \in {0, 1} /\ devTgl \in {0, 1}
  BY <1>0 DEF DataIn, IntrShape, TypeOK, Awaiting
<1>3. /\ ~Pending(buff) /\ \A k : ~Pending(k)
      /\ IntrDue = Bit(pid # devTgl) + Bit(~Awaiting)
  BY <1>2 DEF Pending, Awaiting, IntrDue, Bit
<1>4. /\ Cardinality(Lost) + IntrDue <= faults
      /\ buff \in 0 .. devPkt /\ buff \in 0 .. N
      /\ \A k \in 1 .. N : got[k] \in Nat /\ (k > buff => got[k] = 0) /\ got[k] <= faults + 1
      /\ buff > 0 => Copies <= faults + 1
      /\ Cardinality(Repeated) + RepeatDueIn <= faults
  BY <1>0 DEF IntrInv, TypeOK
<1>5. buff > 0 => Copies = got[buff] + Bit(buff = devPkt)
  <2>1. buff > 0 => got[buff] \in Nat
    BY <1>4
  <2>2. QED
    BY <1>3, <2>1 DEF Copies, Bit
<1>6. /\ \A k : got'[k] = got[k]
      /\ Repeated' = Repeated
      /\ \A k : Pending(k)' => k = buff'
  BY <1>2 DEF Repeated, Pending
(* The packets lost: the device's current one, when the task does not wait for
   it or its toggle is out of step. *)
<1>7. Cardinality(Lost') + IntrDue' <= faults'
  <2>1. CASE pid = devTgl
    <3>1. /\ buff' = devPkt /\ hw' = "off" /\ urb' = "DONE" /\ hcst' = "XFRC"
      BY <1>0, <2>1 DEF DataIn
    <3>2. IntrDue' = Bit(1 - pid # devTgl')
      BY <1>2, <3>1 DEF IntrDue, Repaired
    <3>3. Awaiting => \A k : k = devPkt => Pending(k)'
      BY <1>0, <1>2, <3>1 DEF Pending, Awaiting, DataIn
    <3>4. Lost' \subseteq Lost \cup {devPkt} /\ (Awaiting => Lost' \subseteq Lost)
      BY <1>1, <1>2, <1>3, <1>6, <3>1, <3>3 DEF Lost
    <3>5. CASE Awaiting
      <4>1. IntrDue' + faults <= IntrDue + faults'
        BY <1>0, <1>1, <1>2, <1>3, <2>1, <3>2, <3>5 DEF Bit
      <4>2. QED
        BY <1>0, <1>4, <3>4, <3>5, <4>1, Uncharged
    <3>6. CASE ~Awaiting
      <4>1. IntrDue' + 1 + faults <= IntrDue + faults'
        BY <1>0, <1>1, <1>2, <1>3, <2>1, <3>2, <3>6 DEF Bit
      <4>2. QED
        BY <1>0, <1>4, <3>4, <4>1, Charged
    <3>7. QED
      BY <3>5, <3>6
  <2>2. CASE pid # devTgl
    <3>1. /\ buff' = buff /\ hw' = "halting" /\ urb' = "IDLE" /\ hcst' = "DATATGLERR"
      BY <1>0, <1>2, <2>2 DEF DataIn, Halting
    <3>2. IntrDue' = IF Awaiting THEN Bit(pid # devTgl') ELSE Bit(1 - pid # devTgl')
      <4>1. Reverted' = pid
        BY <1>2, <3>1 DEF Reverted
      <4>2. Repaired(tgl)' = 1 - pid \/ Awaiting
        BY <1>2 DEF Repaired
      <4>3. CASE Awaiting
        BY <1>2, <3>1, <4>1, <4>3 DEF IntrDue
      <4>4. CASE ~Awaiting
        BY <1>2, <3>1, <4>2, <4>4 DEF IntrDue, Repaired
      <4>5. QED
        BY <4>3, <4>4
    <3>3. Lost' \subseteq Lost \cup {devPkt} /\ (u = 1 => Lost' \subseteq Lost)
      BY <1>1, <1>2, <1>3, <1>6, <3>1 DEF Lost
    <3>4. CASE u = 0
      <4>1. IntrDue' + 1 + faults <= IntrDue + faults'
        BY <1>0, <1>1, <1>2, <1>3, <2>2, <3>2, <3>4 DEF Bit
      <4>2. QED
        BY <1>0, <1>4, <3>3, <4>1, Charged
    <3>5. CASE u = 1
      <4>1. IntrDue' + faults <= IntrDue + faults'
        BY <1>0, <1>1, <1>2, <1>3, <2>2, <3>2, <3>5 DEF Bit
      <4>2. QED
        BY <1>0, <1>4, <3>3, <3>5, <4>1, Uncharged
    <3>6. QED
      BY <3>4, <3>5
  <2>3. QED
    BY <2>1, <2>2
(* The copies: of the packet in the buffer, or of the one received again. *)
<1>8. /\ buff' \in {buff, devPkt} /\ buff' <= devPkt'
      /\ \A k \in 1 .. N : (k > buff' => got[k] = 0) /\ got[k] <= faults' + 1
  <2>1. buff' \in {buff, devPkt}
    BY <1>0 DEF DataIn
  <2>2. devPkt' \in {devPkt, devPkt + 1}
    BY <1>1
  <2>3. \A k \in 1 .. N : k > buff' => got[k] = 0
    BY <1>2, <1>4, <2>1
  <2>4. \A k \in 1 .. N : got[k] <= faults' + 1
    BY <1>0, <1>1, <1>4
  <2>5. QED
    BY <1>2, <1>4, <2>1, <2>2, <2>3, <2>4
<1>9. buff' > 0 => /\ got[buff'] \in Nat /\ Copies' \in Nat
                   /\ Copies' = got[buff'] + Bit(Pending(buff)') + Bit(buff' = devPkt')
  <2>1. buff' > 0 => got[buff'] \in Nat
    BY <1>2, <1>4, <1>8
  <2>2. Copies' = got[buff'] + Bit(Pending(buff)') + Bit(buff' = devPkt')
    BY <1>6 DEF Copies, Pending
  <2>3. QED
    BY <2>1, <2>2 DEF Bit
<1>10. buff' > 0 => \/ Copies' <= 1 + u
                    \/ buff' = buff /\ Copies' <= Copies + u
  <2> SUFFICES ASSUME buff' > 0, ~(Copies' <= 1 + u) PROVE buff' = buff /\ Copies' <= Copies + u
    OBVIOUS
  <2>1. CASE buff' = devPkt
    <3>1. Bit(buff' = devPkt') = u
      BY <1>1, <1>2, <2>1 DEF Bit
    <3>2. got[devPkt] # 0
      BY <1>9, <2>1, <3>1 DEF Bit
    <3>3. buff = devPkt
      BY <1>2, <1>4, <3>2
    <3>4. Copies = got[buff] + 1
      BY <1>2, <1>5, <3>3 DEF Bit
    <3>5. QED
      BY <1>2, <1>4, <1>9, <2>1, <3>1, <3>3, <3>4 DEF Bit
  <2>2. CASE buff' = buff /\ buff # devPkt
    <3>1. ~Pending(buff)'
      <4>1. pid # devTgl
        BY <1>0, <2>2 DEF DataIn
      <4>2. hw' = "halting" /\ urb' = "IDLE" /\ hcst' = "DATATGLERR"
        BY <1>0, <1>2, <4>1 DEF DataIn, Halting
      <4>3. QED
        BY <4>2 DEF Pending
    <3>2. Bit(buff' = devPkt') = 0
      BY <1>1, <1>2, <1>4, <2>2 DEF Bit
    <3>3. QED
      BY <1>4, <1>5, <1>9, <2>2, <3>1, <3>2 DEF Bit
  <2>3. QED
    BY <1>8, <2>1, <2>2
<1>11. buff' > 0 => Copies' <= faults' + 1
  BY <1>0, <1>1, <1>4, <1>5, <1>9, <1>10 DEF Bit
<1>12. RepeatDueIn' <= RepeatDueIn + u /\ RepeatDueIn' \in Nat /\ RepeatDueIn \in Nat
  <2>1. buff > 0 => got[buff] \in Nat /\ Copies \in Nat
    BY <1>4, <1>5 DEF Bit
  <2>2. RepeatDueIn' = Bit(buff' > 0 /\ got[buff'] <= 1 /\ Copies' > 1)
    BY <1>6 DEF RepeatDueIn
  <2>3. CASE buff' > 0 /\ buff' = buff /\ Copies' <= Copies + u
    BY <1>9, <2>1, <2>2, <2>3 DEF RepeatDueIn, Bit
  <2>4. CASE buff' > 0 /\ Copies' <= 1 + u
    BY <1>9, <2>2, <2>4 DEF RepeatDueIn, Bit
  <2>5. CASE ~(buff' > 0)
    BY <2>2, <2>5 DEF RepeatDueIn, Bit
  <2>6. QED
    BY <1>10, <2>3, <2>4, <2>5
<1>13. Cardinality(Repeated') + RepeatDueIn' <= faults'
  BY <1>0, <1>1, <1>4, <1>6, <1>12
<1>14. QED
  BY <1>6, <1>7, <1>8, <1>11, <1>13 DEF IntrInv

LEMMA IntrActDone ==
  ASSUME Basic, Basic', IntrInv, IsIntr, IsIntr', IntrShape', ActDone
  PROVE  IntrInv'
<1> USE DEF taskVars, chanVars, devVars
<1>0. /\ TypeOK /\ TypeOK' /\ IsIn /\ faults \in Nat /\ faults' = faults /\ IntrShape
      /\ IsFiniteSet(Lost) /\ IsFiniteSet(Repeated)
      /\ IntrDue \in Nat /\ IntrDue' \in Nat /\ N \in Nat
  <2>1. TypeOK /\ TypeOK'
    BY DEF Basic
  <2>2. (IntrDue \in 0 .. 2)'
    BY <2>1, IntrDueType, PTL
  <2>3. IsIn
    BY <2>1, Kind DEF TypeOK
  <2>4. QED
    BY <2>1, <2>2, <2>3, IntrDueType, Countable DEF ActDone, IntrInv
<1>1. /\ st = "ACT" /\ Awaiting /\ hw = "off" /\ urb = "DONE" /\ hc /\ hasError = 0
      /\ ~Awaiting' /\ UNCHANGED <<devTgl, devPkt, buff, faults, tgl>>
      /\ got' = [got EXCEPT ![buff] = @ + 1]
  <2>1. /\ st = "ACT" /\ seen[1] = "DONE" /\ st' = "FINALIZE" /\ UNCHANGED <<devTgl, devPkt, buff, faults>>
        /\ got' = [got EXCEPT ![buff] = @ + 1]
        /\ FreeChannel \/ UNCHANGED <<hc, saved, hasError, chanVars>>
    BY <1>0 DEF ActDone
  <2>2. UNCHANGED tgl
    BY <2>1 DEF FreeChannel
  <2>3. hw = "off" /\ urb = "DONE" /\ hasError = 0 /\ hc
    BY <1>0, <2>1 DEF IntrShape, SampleInv, Awaiting, Basic
  <2>4. QED
    BY <2>1, <2>2, <2>3 DEF Awaiting
<1>2. /\ Cardinality(Lost) + IntrDue <= faults
      /\ buff \in 0 .. devPkt /\ buff \in 0 .. N
      /\ \A k \in 1 .. N : got[k] \in Nat /\ (k > buff => got[k] = 0) /\ got[k] <= faults + 1
      /\ buff > 0 => Copies <= faults + 1
      /\ Cardinality(Repeated) + RepeatDueIn <= faults
  BY <1>0 DEF IntrInv, TypeOK
<1>3. \A k \in 1 .. N : got'[k] = IF k = buff THEN got[k] + 1 ELSE got[k]
  BY <1>0, <1>1 DEF TypeOK
<1>4. (\A k : ~Pending(k)') /\ (\A k : Pending(k) => k = buff) /\ Pending(buff)
  BY <1>0, <1>1 DEF Pending, Awaiting
<1>5. IntrDue' = IntrDue
  <2>1. IntrDue = Bit(tgl # devTgl)
    BY <1>1 DEF IntrDue
  <2>2. CASE ep.asNeeded
    <3>1. NextToggle' = tgl /\ hc' = FALSE
      BY <1>0, <1>1, <2>2, Freed DEF ActDone, NextToggle, Repaired
    <3>2. QED
      BY <1>1, <2>1, <3>1 DEF IntrDue
  <2>3. CASE ~ep.asNeeded
    <3>1. UNCHANGED <<hc, saved, hasError, chanVars>>
      BY <1>0, <2>3 DEF ActDone
    <3>2. QED
      BY <1>1, <2>1, <3>1 DEF IntrDue, Repaired
  <2>4. QED
    BY <2>2, <2>3
<1>6. Cardinality(Lost') + IntrDue' <= faults'
  <2>1. Lost' \subseteq Lost
    <3>1. ASSUME NEW k \in 1 .. devPkt - 1, got'[k] = 0 PROVE got[k] = 0 /\ k # buff
      BY <1>0, <1>2, <1>3, <3>1 DEF TypeOK
    <3>2. QED
      BY <1>1, <1>4, <3>1 DEF Lost
  <2>2. IntrDue' + faults <= IntrDue + faults'
    BY <1>0, <1>5
  <2>3. QED
    BY <1>0, <1>2, <2>1, <2>2, Uncharged
<1>7. \A k \in 1 .. N : k > buff' => got'[k] = 0
  BY <1>1, <1>2, <1>3
<1>8. CASE buff = 0
  <2>1. /\ \A k \in 1 .. N : got'[k] = got[k]
        /\ Repeated' = Repeated
    BY <1>2, <1>3, <1>8 DEF Repeated
  <2>2. RepeatDueIn = 0 /\ RepeatDueIn' = 0
    BY <1>1, <1>8 DEF RepeatDueIn, Bit
  <2>3. QED
    BY <1>0, <1>1, <1>2, <1>6, <1>7, <1>8, <2>1, <2>2 DEF IntrInv
<1>9. CASE buff > 0
  <2>1. /\ buff \in 1 .. N /\ got[buff] \in Nat /\ got'[buff] = got[buff] + 1
        /\ Copies = got[buff] + 1 + Bit(buff = devPkt) /\ Copies' = Copies
    <3>1. buff \in 1 .. N /\ got[buff] \in Nat /\ got'[buff] = got[buff] + 1
      BY <1>2, <1>3, <1>9
    <3>2. Copies' = got[buff] + 1 + 0 + Bit(buff = devPkt)
      BY <1>1, <1>4, <3>1 DEF Copies, Bit
    <3>3. QED
      BY <1>4, <3>1, <3>2 DEF Copies, Bit
  <2>2. Copies \in Nat /\ Copies <= faults + 1 /\ got[buff] + 1 <= Copies
    BY <1>2, <1>9, <2>1 DEF Bit
  <2>3. \A k \in 1 .. N : got'[k] <= faults' + 1
    BY <1>0, <1>2, <1>3, <2>1, <2>2
  <2>4. RepeatDueIn = Bit(got[buff] <= 1 /\ Copies > 1) /\ RepeatDueIn' = Bit(got[buff] + 1 <= 1 /\ Copies > 1)
    BY <1>1, <1>9, <2>1 DEF RepeatDueIn
  <2>5. Cardinality(Repeated') + RepeatDueIn' <= faults'
    <3>1. CASE got[buff] = 1
      <4>1. Repeated' \subseteq Repeated \cup {buff}
        BY <1>3 DEF Repeated
      <4>2. RepeatDueIn = 1 /\ RepeatDueIn' = 0
        BY <2>1, <2>2, <2>4, <3>1 DEF Bit
      <4>3. RepeatDueIn' + 1 + faults <= RepeatDueIn + faults' /\ RepeatDueIn \in Nat /\ RepeatDueIn' \in Nat
            /\ faults' \in Nat
        BY <1>0, <4>2
      <4>4. QED
        BY <1>0, <1>2, <4>1, <4>3, Charged
    <3>2. CASE got[buff] # 1
      <4>1. Repeated' \subseteq Repeated
        BY <1>2, <1>3, <2>1, <3>2 DEF Repeated
      <4>2. RepeatDueIn \in Nat /\ RepeatDueIn' \in Nat /\ RepeatDueIn' <= RepeatDueIn
        BY <2>1, <2>2, <2>4, <3>2 DEF Bit
      <4>3. QED
        BY <1>0, <1>2, <4>1, <4>2, Uncharged
    <3>3. QED
      BY <3>1, <3>2
  <2>6. QED
    BY <1>0, <1>1, <1>2, <1>6, <1>7, <2>1, <2>2, <2>3, <2>5 DEF IntrInv
<1>10. QED
  BY <1>2, <1>8, <1>9

LEMMA IntrStep ==
  ASSUME Basic, Basic', IntrInv, IsIntr, IsIntr', Next PROVE IntrInv'
<1>1. IntrShape'
  BY IntrShapeStep DEF IntrInv
<1>2. CASE ~DataIn /\ ~ActDone
  <2>1. PICK u \in 0 .. 1 : IntrCosts(u)
    BY <1>1, <1>2, IntrCost DEF IntrInv
  <2>2. QED
    BY <1>1, <2>1, IntrKept DEF IntrCosts
<1>3. IsIn'
  BY Kind DEF Basic, TypeOK, Next, IsIn
<1>4. QED
  BY <1>1, <1>2, <1>3, IntrDataIn, IntrActDone
----------------------------------------------------------------------------
(* Bulk IN endpoints. *)
LEMMA BulkKept ==
  ASSUME Basic, Basic', BulkInv, IsIn, ~IsIntr, ep.faults \subseteq Bearable,
         UNCHANGED <<got, buff, devPkt>>, NEW u \in 0 .. 1, faults' = faults + u,
         Pending(buff)' => Pending(buff),
         \/ (Late' => Late \/ u = 1) /\ (Pending(buff) => Pending(buff)')
         \/ ~Late' /\ u = 1
  PROVE  BulkInv'
<1>1. /\ TypeOK /\ TypeOK' /\ faults \in Nat /\ faults' \in Nat /\ IsFiniteSet(Lost)
      /\ Bit(Late) \in Nat /\ Bit(Late') \in Nat
  <2>1. TypeOK /\ TypeOK'
    BY DEF Basic
  <2>2. (faults \in Nat)'
    BY <2>1, Countable, PTL
  <2>3. QED
    BY <2>1, <2>2, Countable DEF Bit
<1>2. /\ Cardinality(Lost) + Bit(Late) <= faults
      /\ buff = devPkt - 1
      /\ \A k \in 1 .. N : (k > buff => got[k] = 0) /\ got[k] <= 1
      /\ Pending(buff) /\ buff > 0 => got[buff] = 0
  BY DEF BulkInv, Late
<1>3. \A k : Pending(k) => k = buff
  BY DEF Pending
<1>4. Lost' \subseteq Lost \cup {buff} /\ ((Pending(buff) => Pending(buff)') => Lost' \subseteq Lost)
  BY <1>3 DEF Lost
<1>5. Cardinality(Lost') + Bit(Late') <= faults'
  <2>1. CASE (Late' => Late \/ u = 1) /\ (Pending(buff) => Pending(buff)')
    <3>1. Lost' \subseteq Lost
      BY <1>4, <2>1
    <3>2. Bit(Late') + faults <= Bit(Late) + faults'
      BY <1>1, <2>1 DEF Bit
    <3>3. QED
      BY <1>1, <1>2, <3>1, <3>2, Uncharged
  <2>2. CASE ~Late' /\ u = 1
    <3>1. Bit(Late') + 1 + faults <= Bit(Late) + faults'
      BY <1>1, <2>2 DEF Bit
    <3>2. QED
      BY <1>1, <1>2, <1>4, <3>1, Charged
  <2>3. QED
    BY <2>1, <2>2
<1>6. QED
  BY <1>2, <1>5 DEF BulkInv, Late

LEMMA BulkStep ==
  ASSUME Basic, Basic', PidInv, BulkInv, IsIn, ~IsIntr, ep.faults \subseteq Bearable, Next
  PROVE  BulkInv'
<1> USE DEF taskVars, chanVars, devVars
<1>0. /\ TypeOK /\ TypeOK' /\ SampleInv /\ IsIn' /\ faults \in Nat
      /\ ~Fault("ackLost") /\ ~Fault("overrun")
      /\ hw = "armed" => pid = devTgl
      /\ hw # "off" => urb = "IDLE" /\ hc
      /\ hw = "halting" => hcst \in {"XFRC", "XACTERR", "STALL"}
      /\ st = "ACT" => seen[1] = "IDLE" \/ (hw = "off" /\ seen = <<urb, hcst>>)
  BY BearableIn, Countable DEF Basic, TypeOK, IsIn, Next, PidInv
<1> DEFINE P == Pending(buff)
           Costs(u) == /\ UNCHANGED <<got, buff, devPkt>> /\ faults' = faults + u /\ (P' => P)
                       /\ \/ (Late' => Late \/ u = 1) /\ (P => P')
                          \/ ~Late' /\ u = 1
<1>a. P <=> Awaiting /\ (urb = "DONE" \/ (hw = "halting" /\ hcst = "XFRC"))
  BY <1>0 DEF Pending, Awaiting
<1>b. P' <=> Awaiting' /\ (urb' = "DONE" \/ (hw' = "halting" /\ hcst' = "XFRC"))
  BY <1>0 DEF Pending, Awaiting
<1>q. ASSUME NEW u \in 0 .. 1, Costs(u) PROVE BulkInv'
  BY <1>q, BulkKept
<1>z. faults + 0 = faults
  BY <1>0
<1> HIDE DEF P
<1>1. CASE Idle \/ StartSkip \/ StartRequest \/ SendNoChannel \/ NextTurn
  <2>1. ~Awaiting /\ ~Awaiting' /\ UNCHANGED <<hw, got, buff, devPkt, faults>>
    BY <1>1 DEF Idle, StartSkip, StartRequest, SendNoChannel, NextTurn, Awaiting
  <2>2. Costs(0)
    BY <1>a, <1>b, <1>z, <2>1 DEF Late
  <2>3. QED
    BY <1>q, <2>2
<1>2. CASE Send
  <2>1. /\ hw' = "armed" /\ urb' = "IDLE" /\ Awaiting' /\ ~Awaiting
        /\ UNCHANGED <<buff, devPkt, got, faults>>
    BY <1>0, <1>2 DEF Send, Awaiting
  <2>2. Costs(0)
    BY <1>a, <1>b, <1>z, <2>1 DEF Late
  <2>3. QED
    BY <1>q, <2>2
<1>3. CASE Sample \/ ActWaiting
  <2>1. Awaiting /\ Awaiting' /\ UNCHANGED <<chanVars, devVars, got, faults>>
    BY <1>3 DEF Sample, ActWaiting, Awaiting
  <2>2. Costs(0)
    BY <1>a, <1>b, <1>z, <2>1 DEF Late
  <2>3. QED
    BY <1>q, <2>2
<1>4. CASE ActFailed
  <2>1. /\ st = "ACT" /\ hw = "off" /\ urb # "DONE" /\ ~Awaiting'
        /\ UNCHANGED <<hw, buff, devPkt, got, faults>>
    BY <1>0, <1>4 DEF ActFailed, AfterFailure, Awaiting
  <2>2. Costs(0)
    BY <1>a, <1>b, <1>z, <2>1 DEF Late
  <2>3. QED
    BY <1>q, <2>2
<1>5. CASE ActTimeout
  <2>1. Awaiting /\ ~Awaiting' /\ UNCHANGED <<chanVars, devVars, got>>
    BY <1>0, <1>5 DEF ActTimeout, Awaiting
  <2>2. CASE faults' = faults + 1
    <3>1. Costs(1)
      BY <1>0, <1>a, <1>b, <2>1, <2>2 DEF Late
    <3>2. QED
      BY <1>q, <3>1
  <2>3. CASE faults' # faults + 1
    <3>1. hw = "off" /\ urb = "IDLE" /\ faults' = faults
      BY <1>0, <1>5, <2>3 DEF ActTimeout, Fault
    <3>2. Costs(0)
      BY <1>a, <1>b, <1>z, <2>1, <3>1 DEF Late
    <3>3. QED
      BY <1>q, <3>2
  <2>4. QED
    BY <2>2, <2>3
<1>6. CASE Finalize
  <2>1. ~Awaiting /\ ~Awaiting' /\ UNCHANGED <<devVars, got, faults>> /\ hw' \in {hw, "off"}
    BY <1>6 DEF Finalize, FreeChannel, Awaiting
  <2>2. Costs(0)
    BY <1>a, <1>b, <1>z, <2>1 DEF Late
  <2>3. QED
    BY <1>q, <2>2
<1>7. CASE Nak
  <2>1. /\ hw = "armed" /\ hw' = "off" /\ urb' = "NOTREADY" /\ Awaiting' = Awaiting
        /\ UNCHANGED <<buff, devPkt, got, faults>>
    BY <1>0, <1>7 DEF Nak, Awaiting
  <2>2. Costs(0)
    BY <1>0, <1>a, <1>b, <1>z, <2>1 DEF Late
  <2>3. QED
    BY <1>q, <2>2
<1>8. CASE XactErr \/ Stall
  <2>1. /\ hw = "armed" /\ hw' = "halting" /\ hcst' \in {"XACTERR", "STALL"} /\ urb' = urb
        /\ Awaiting' = Awaiting /\ faults' = faults + 1 /\ UNCHANGED <<buff, devPkt, got>>
    BY <1>0, <1>8 DEF XactErr, Stall, Fault, Halting, Awaiting
  <2>2. Costs(1)
    BY <1>0, <1>a, <1>b, <2>1 DEF Late
  <2>3. QED
    BY <1>q, <2>2
<1>9. CASE ChHltdIn
  <2>1. /\ hw = "halting" /\ hw' = "off" /\ urb = "IDLE" /\ Awaiting' = Awaiting
        /\ UNCHANGED <<hcst, buff, devPkt, got, faults>>
    BY <1>0, <1>9 DEF ChHltdIn, Awaiting
  <2>2. urb' = "DONE" <=> hcst = "XFRC"
    BY <1>0, <1>9, <2>1 DEF ChHltdIn
  <2>3. Costs(0)
    BY <1>a, <1>b, <1>z, <2>1, <2>2 DEF Late
  <2>4. QED
    BY <1>q, <2>3
<1>10. CASE LentToOthers
  <2>1. ~Awaiting /\ ~Awaiting' /\ UNCHANGED <<hw, buff, devPkt, got, faults>>
    BY <1>0, <1>10 DEF LentToOthers, SampleInv, Awaiting
  <2>2. Costs(0)
    BY <1>a, <1>b, <1>z, <2>1 DEF Late
  <2>3. QED
    BY <1>q, <2>2
<1>11. /\ IsFiniteSet(Lost) /\ devPkt \in 1 .. N + 1 /\ N \in Nat
       /\ Cardinality(Lost) + Bit(Late) <= faults
       /\ buff = devPkt - 1
       /\ \A k \in 1 .. N : got[k] \in Nat /\ (k > buff => got[k] = 0) /\ got[k] <= 1
       /\ P /\ buff > 0 => got[buff] = 0
  BY <1>0, Countable DEF BulkInv, Late, TypeOK, P
<1>12. CASE DataIn
  <2>1. /\ hw = "armed" /\ hw' = "halting" /\ hcst' = "XFRC" /\ Awaiting' = Awaiting /\ urb = "IDLE"
        /\ urb' = urb /\ buff' = devPkt /\ devPkt' = devPkt + 1 /\ UNCHANGED <<got, faults>>
        /\ devPkt \in 1 .. N
    BY <1>0, <1>11, <1>12 DEF DataIn, DevAdvance, Halting, Awaiting
  <2>2. (\A k : ~Pending(k)) /\ (Awaiting => \A k : k = devPkt => Pending(k)')
    BY <1>0, <2>1 DEF Pending, Awaiting, DataIn
  <2>3. Lost' \subseteq Lost \cup {devPkt} /\ (Awaiting => Lost' \subseteq Lost)
    BY <2>1, <2>2 DEF Lost
  <2>4. Cardinality(Lost') + Bit(Late') <= faults'
    <3>1. Bit(Late') = 0 /\ Bit(Late) = Bit(~Awaiting)
      BY <2>1 DEF Late, Bit
    <3>2. CASE Awaiting
      BY <1>0, <1>11, <2>1, <2>3, <3>1, <3>2, Uncharged DEF Bit
    <3>3. CASE ~Awaiting
      <4>1. /\ Bit(Late') + 1 + faults <= Bit(Late) + faults'
            /\ Bit(Late) \in Nat /\ Bit(Late') \in Nat /\ faults' \in Nat
        BY <1>0, <2>1, <3>1, <3>3 DEF Bit
      <4>2. QED
        BY <1>0, <1>11, <2>3, <4>1, Charged
    <3>4. QED
      BY <3>2, <3>3
  <2>5. QED
    BY <1>11, <2>1, <2>4 DEF BulkInv, Late
<1>13. CASE ActDone
  <2>1. /\ Awaiting /\ ~Awaiting' /\ hw = "off" /\ urb = "DONE" /\ UNCHANGED <<devPkt, buff, faults>>
        /\ got' = [got EXCEPT ![buff] = @ + 1]
    BY <1>0, <1>13 DEF ActDone, Awaiting
  <2>2. hw' = "off"
    BY <1>0, <1>13, <2>1 DEF ActDone, FreeChannel
  <2>3. \A k \in 1 .. N : got'[k] = IF k = buff THEN got[k] + 1 ELSE got[k]
    BY <1>0, <2>1 DEF TypeOK
  <2>4. buff > 0 => got[buff] = 0
    BY <1>11, <1>a, <2>1
  <2>5. \A k : ~Pending(k)'
    BY <2>1 DEF Pending, Awaiting
  <2>6. Lost' \subseteq Lost
    <3>1. ASSUME NEW k \in 1 .. devPkt - 1, got'[k] = 0 PROVE got[k] = 0 /\ k # buff
      BY <1>11, <2>3, <3>1
    <3>2. QED
      BY <2>1, <3>1 DEF Lost, Pending
  <2>7. Cardinality(Lost') + Bit(Late') <= faults'
    <3>1. Bit(Late') = 0 /\ Bit(Late) = 0
      BY <2>1, <2>2 DEF Late, Bit
    <3>2. QED
      BY <1>0, <1>11, <2>1, <2>6, <3>1, Uncharged
  <2>8. \A k \in 1 .. N : (k > buff => got'[k] = 0) /\ got'[k] <= 1
    BY <1>11, <2>3, <2>4
  <2>9. QED
    BY <1>11, <2>1, <2>5, <2>7, <2>8 DEF BulkInv, Late
<1>14. ~DataOut /\ ~Overrun /\ ~ChHltdOut /\ ~\E n \in 1 .. 2 : Write(n)
  BY <1>0 DEF DataOut, Overrun, ChHltdOut, Write
<1>15. QED
  BY <1>1, <1>2, <1>3, <1>4, <1>5, <1>6, <1>7, <1>8, <1>9, <1>10, <1>12, <1>13, <1>14 DEF Next, Task, Bus
----------------------------------------------------------------------------
(* OUT endpoints. *)
LEMMA OutShapeStep ==
  ASSUME Basic, ~IsIn, OutShape, Next PROVE OutShape'
<1> USE DEF taskVars, chanVars, devVars
<1>0. /\ TypeOK /\ SampleInv /\ ~IsIntr /\ devPkt \in 1 .. N + 1 /\ N \in Nat
      /\ tgl \in {0, 1} /\ pid \in {0, 1} /\ devTgl \in {0, 1} /\ hw \in {"off", "armed", "halting"}
  BY Kind DEF Basic, TypeOK
<1>1. CASE Idle \/ StartSkip \/ StartRequest \/ NextTurn
  <2>1. /\ st \in {"IDLE", "START", "NEXT"} /\ ~Awaiting /\ ~Awaiting' /\ st' # "ACT"
        /\ UNCHANGED <<hc, hasError, saved, chanVars, devVars>>
    BY <1>1 DEF Idle, StartSkip, StartRequest, NextTurn, Awaiting
  <2>2. ~Old
    BY <2>1 DEF OutShape
  <2>3. NextToggle' = NextToggle /\ Old' = Old /\ Over' = Over
    BY <2>1 DEF NextToggle, Old, Over
  <2>4. QED
    BY <2>1, <2>2, <2>3 DEF OutShape
<1>2. CASE Send
  <2>1. /\ pid' = NextToggle' /\ hc' /\ hw' = "armed" /\ urb' = "IDLE" /\ st' = "WAIT"
        /\ buff' = devPkt /\ devPkt' = devPkt /\ hasError' \in {0, hasError}
    BY <1>0, <1>2 DEF Send, NextToggle, RequestToggle
  <2>2. ~Skipping' /\ ~Old' /\ ~Over' /\ Awaiting'
    BY <2>1 DEF Skipping, Old, Over, Awaiting
  <2>3. QED
    BY <1>0, <2>1, <2>2 DEF OutShape
<1>3. CASE SendNoChannel
  <2>1. /\ ~hc /\ ~Awaiting' /\ st' # "ACT" /\ UNCHANGED <<hc, hasError, saved, chanVars, devVars>>
    BY <1>3 DEF SendNoChannel, Awaiting
  <2>2. NextToggle' = NextToggle /\ Old' = Old
    BY <2>1 DEF NextToggle, Old
  <2>3. QED
    BY <2>1, <2>2 DEF OutShape
<1>4. CASE Sample \/ ActWaiting
  <2>1. /\ Awaiting /\ Awaiting' /\ hc /\ UNCHANGED <<hc, hasError, saved, chanVars, devVars>>
        /\ st' = "ACT" => seen' = <<urb, hcst>>
        /\ Skipping' => Skipping
    BY <1>0, <1>4 DEF Sample, ActWaiting, Awaiting, SampleInv, Skipping
  <2>2. NextToggle' = NextToggle /\ Old' = Old /\ Over' = Over
    BY <2>1 DEF NextToggle, Old, Over
  <2>3. ~Old
    BY <2>1 DEF OutShape, Old
  <2>4. st' = "ACT" => seen'[1] \in {"IDLE", "DONE"} \/ (hw' = "off" /\ seen' = <<urb', hcst'>>)
    BY <2>1 DEF OutShape
  <2>5. QED
    BY <2>1, <2>2, <2>3, <2>4 DEF OutShape
<1>5. CASE ActDone
  <2>1. /\ st = "ACT" /\ Awaiting /\ Skipping /\ hc /\ st' \in {"SEND", "FINALIZE"} /\ ~Awaiting'
        /\ devPkt' = devPkt + 1 /\ UNCHANGED <<hc, saved, hasError, chanVars, devTgl, buff>>
    BY <1>0, <1>5 DEF ActDone, Awaiting, SampleInv, Skipping
  <2>2. buff = devPkt /\ (hw = "armed" => hasError = 1)
    BY <2>1 DEF OutShape
  <2>3. NextToggle' = NextToggle /\ Over' = Over
    BY <2>1 DEF NextToggle, Over
  <2>4. hw' = "armed" => pid' = NextToggle' /\ buff' \in {devPkt' - 1, devPkt'} \ {0}
    BY <1>0, <2>1, <2>2, <2>3 DEF OutShape
  <2>5. QED
    BY <2>1, <2>2, <2>3, <2>4 DEF OutShape, Old
<1>6. CASE ActFailed
  <2>1. /\ st = "ACT" /\ hw = "off" /\ seen = <<urb, hcst>> /\ Awaiting
    BY <1>0, <1>6 DEF ActFailed, OutShape, Awaiting
  <2>2. ~(seen[1] = "ERROR" /\ seen[2] = "DATATGLERR")
    BY <2>1 DEF OutShape
  <2>3. hasError' # 2 /\ hw' = "off" /\ st' \in {"SEND", "FINALIZE"}
    BY <1>6, <2>1, <2>2 DEF ActFailed, AfterFailure, OutShape
  <2>4. QED
    BY <2>3 DEF OutShape, Awaiting, Old, Over
<1>7. CASE ActTimeout
  <2>1. /\ st = "ACT" /\ Awaiting /\ hc /\ UNCHANGED <<hc, saved, hw, hcst, tgl, pid, devVars>>
        /\ hasError # 2 /\ buff = devPkt
        /\ \/ st' = "WAIT" /\ urb' = "DONE" /\ hasError' = 1
           \/ st' = "FINALIZE" /\ UNCHANGED <<urb, hasError>>
    BY <1>0, <1>7 DEF ActTimeout, Awaiting, SampleInv, OutShape
  <2>2. NextToggle' = NextToggle /\ ~Old' /\ Over' = Over
    BY <2>1 DEF NextToggle, Old, Over
  <2>3. CASE st' = "WAIT" /\ urb' = "DONE" /\ hasError' = 1
    BY <2>1, <2>2, <2>3 DEF OutShape, Awaiting
  <2>4. CASE st' = "FINALIZE" /\ UNCHANGED <<urb, hasError>>
    BY <2>1, <2>2, <2>4 DEF OutShape, Awaiting
  <2>5. QED
    BY <2>1, <2>3, <2>4
<1>8. CASE Finalize
  <2>1. st = "FINALIZE" /\ st' = "NEXT" /\ ~Awaiting /\ UNCHANGED devVars
    BY <1>8 DEF Finalize, Awaiting
  <2>2. CASE hc /\ (ep.asNeeded \/ hasError # 0)
    <3>1. FreeChannel
      BY <1>8, <2>2 DEF Finalize
    <3>2. /\ hc' = FALSE /\ hasError' = 0 /\ NextToggle' = Repaired(NextToggle)
          /\ UNCHANGED <<urb, hcst, tgl, pid>>
      BY <1>0, <2>2, <3>1, Freed
    <3>3. NextToggle' = NextToggle
      BY <3>2 DEF Repaired, OutShape
    <3>4. hw' = "armed" => hw = "armed" /\ ~Old
      BY <3>1 DEF FreeChannel, OutShape
    <3>5. ~Old' /\ (hw' = "armed" => buff' \in {devPkt' - 1, devPkt'} \ {0})
      BY <2>1, <3>4 DEF Old, OutShape
    <3>6. QED
      BY <2>1, <3>2, <3>3, <3>4, <3>5 DEF OutShape, Awaiting
  <2>3. CASE ~(hc /\ (ep.asNeeded \/ hasError # 0))
    <3>1. UNCHANGED <<hc, saved, hasError, chanVars>>
      BY <1>8, <2>3 DEF Finalize
    <3>2. ~Old
      BY <2>3 DEF OutShape
    <3>3. NextToggle' = NextToggle /\ Old' = Old /\ Over' = Over
      BY <2>1, <3>1 DEF NextToggle, Old, Over
    <3>4. QED
      BY <2>1, <3>1, <3>2, <3>3 DEF OutShape, Awaiting
  <2>4. QED
    BY <2>2, <2>3
<1>9. CASE DataOut \/ Nak \/ XactErr \/ Stall
  <2>1. /\ hw = "armed" /\ hw' = "halting" /\ hcst' \in {"XFRC", "NAK", "STALL", "XACTERR"}
        /\ UNCHANGED <<taskVars, urb, tgl, pid, devPkt, buff>>
    BY <1>0, <1>9 DEF DataOut, Nak, XactErr, Stall, Halting
  <2>2. Awaiting => urb \in {"IDLE", "DONE"}
    BY <2>1 DEF OutShape
  <2>3. Over' /\ hc' => tgl' = 1 - devTgl'
    <3>1. CASE DataOut
      <4>1. hc => pid = tgl
        BY <2>1 DEF OutShape, NextToggle
      <4>2. CASE pid = devTgl
        BY <1>0, <2>1, <3>1, <4>1, <4>2 DEF DataOut
      <4>3. CASE pid # devTgl
        BY <1>0, <2>1, <3>1, <4>1, <4>3 DEF DataOut
      <4>4. QED
        BY <4>2, <4>3
    <3>2. CASE ~DataOut
      BY <1>0, <1>9, <3>2 DEF Nak, XactErr, Stall, Halting, Over
    <3>3. QED
      BY <3>1, <3>2
  <2>4. Awaiting' = Awaiting /\ ~Old' /\ (st = "ACT" => seen[1] \in {"IDLE", "DONE"})
    BY <2>1 DEF Awaiting, Old, OutShape
  <2>5. QED
    BY <2>1, <2>2, <2>3, <2>4 DEF OutShape
<1>10. CASE ChHltdOut
  <2>1. /\ hw = "halting" /\ hw' = "off" /\ Awaiting' = Awaiting
        /\ UNCHANGED <<taskVars, hcst, pid, devVars>>
    BY <1>10 DEF ChHltdOut, Awaiting
  <2>2. Awaiting => /\ urb \in {"IDLE", "DONE"} /\ hcst \in {"XFRC", "NAK", "STALL", "XACTERR"} /\ hc
                    /\ st = "ACT" => seen[1] \in {"IDLE", "DONE"}
    BY <1>0, <2>1 DEF OutShape, SampleInv
  <2>3. Awaiting => /\ urb' = "IDLE" => hcst = "XACTERR"
                    /\ urb' = "ERROR" => hcst = "XACTERR"
    BY <1>10, <2>2 DEF ChHltdOut
  <2>4. ~Old' /\ ~Over'
    BY <2>1 DEF Old, Over
  <2>5. QED
    BY <2>1, <2>2, <2>3, <2>4 DEF OutShape
<1>11. CASE LentToOthers
  <2>1. /\ ~hc /\ ~Awaiting /\ ~Awaiting' /\ UNCHANGED <<taskVars, urb, tgl, pid, hw, devVars>>
    BY <1>0, <1>11 DEF LentToOthers, SampleInv, Awaiting
  <2>2. NextToggle' = NextToggle /\ Old' = Old /\ st' # "ACT"
    BY <2>1 DEF NextToggle, Old, Awaiting
  <2>3. QED
    BY <2>1, <2>2 DEF OutShape
<1>12. CASE \E n \in 1 .. 2 : Write(n)
  <2>1. ~Awaiting /\ ~Awaiting' /\ UNCHANGED <<st, hc, hasError, saved, chanVars, devVars>>
    BY <1>12 DEF Write, Awaiting
  <2>2. NextToggle' = NextToggle /\ Old' = Old /\ Over' = Over /\ st' # "ACT"
    BY <2>1 DEF NextToggle, Old, Over, Awaiting
  <2>3. QED
    BY <2>1, <2>2 DEF OutShape
<1>13. ~DataIn /\ ~Overrun /\ ~ChHltdIn
  BY <1>0 DEF DataIn, Overrun, ChHltdIn
<1>14. QED
  BY <1>1, <1>2, <1>3, <1>4, <1>5, <1>6, <1>7, <1>8, <1>9, <1>10, <1>11, <1>12, <1>13 DEF Next, Task, Bus

LEMMA OutTypes == OutDue \in 0 .. 2 /\ OutMore \in 0 .. 2
BY DEF OutDue, OutMore, Bit

(* What a step that hands nothing over may cost. *)
OutCosts(u) == /\ UNCHANGED <<got, devPkt>> /\ faults' = faults + u
               /\ OutDue' <= OutDue + u /\ OutMore' <= OutMore + u
               /\ RepeatsOld' => RepeatsOld /\ buff' = buff

LEMMA OutCost ==
  ASSUME Basic, ~IsIn, OutShape, Next, ~DataOut, ~ActDone
  PROVE  OutCosts(0) \/ OutCosts(1)
<1> USE DEF taskVars, chanVars, devVars
<1>0. /\ TypeOK /\ SampleInv /\ ~IsIntr /\ faults \in Nat
      /\ tgl \in {0, 1} /\ pid \in {0, 1} /\ devTgl \in {0, 1} /\ hw \in {"off", "armed", "halting"}
  BY Kind, Countable DEF Basic, TypeOK
<1>t. OutDue \in 0 .. 2 /\ OutMore \in 0 .. 2
  BY OutTypes
<1>z. faults + 0 = faults /\ OutDue + 0 = OutDue /\ OutMore + 0 = OutMore
      /\ OutDue <= OutDue /\ OutMore <= OutMore /\ OutMore <= OutMore + 1
  BY <1>0, <1>t
<1>w. hc /\ hw = "armed" => pid = tgl
  BY DEF OutShape, NextToggle
<1>e. ASSUME Awaiting' <=> Awaiting, Awaiting => (Skipping' <=> Skipping),
             UNCHANGED <<hc, saved, hw, hcst, tgl, pid, devVars, got, faults>>
      PROVE  OutCosts(0)
  <2>1. NextToggle' = NextToggle /\ Over' = Over /\ Old' = Old /\ Fresh' = Fresh
    BY <1>e DEF NextToggle, Over, Old, Fresh
  <2>2. OutDue' = OutDue
    BY <1>e, <2>1 DEF OutDue, Bit
  <2>3. OutMore' = OutMore
    BY <1>e, <2>1 DEF OutMore, Bit
  <2>4. QED
    BY <1>e, <1>z, <2>1, <2>2, <2>3 DEF OutCosts, RepeatsOld
<1>1. CASE Idle \/ StartSkip \/ StartRequest \/ NextTurn \/ SendNoChannel
  <2>1. ~Awaiting /\ ~Awaiting' /\ UNCHANGED <<hc, saved, chanVars, devVars, got, faults>>
    BY <1>1 DEF Idle, StartSkip, StartRequest, NextTurn, SendNoChannel, Awaiting
  <2>2. QED
    BY <1>e, <2>1
<1>2. CASE LentToOthers
  <2>1. ~hc /\ ~hc' /\ UNCHANGED <<saved, hw, tgl, pid, devVars, got, faults>>
    BY <1>2 DEF LentToOthers
  <2>2. NextToggle' = NextToggle /\ Old' = Old /\ Fresh' = Fresh
    BY <2>1 DEF NextToggle, Old, Fresh
  <2>3. OutDue' = OutDue /\ OutMore' = OutMore
    BY <2>1, <2>2 DEF OutDue, OutMore
  <2>4. QED
    BY <1>z, <2>1, <2>2, <2>3 DEF OutCosts, RepeatsOld
<1>3. CASE \E n \in 1 .. 2 : Write(n)
  <2>1. Awaiting' = Awaiting /\ Skipping' = Skipping
        /\ UNCHANGED <<hc, saved, chanVars, devVars, got, faults>>
    BY <1>3 DEF Write, Awaiting, Skipping
  <2>2. QED
    BY <1>e, <2>1
<1>4. CASE Sample \/ ActWaiting
  <2>1. Awaiting' = Awaiting /\ Skipping' = Skipping
        /\ UNCHANGED <<hc, saved, chanVars, devVars, got, faults>>
    BY <1>4 DEF Sample, ActWaiting, Awaiting, Skipping
  <2>2. QED
    BY <1>e, <2>1
<1>5. CASE Send
  <2>1. /\ st = "SEND" /\ hw # "halting" /\ tgl' = NextToggle /\ hc' /\ hw' = "armed" /\ urb' = "IDLE"
        /\ st' = "WAIT" /\ buff' = devPkt /\ UNCHANGED <<devTgl, devPkt, got, faults>>
    BY <1>0, <1>5 DEF Send, NextToggle, RequestToggle
  <2>2. /\ ~Skipping' /\ ~Old' /\ ~Over' /\ Awaiting' /\ ~Awaiting /\ ~Over /\ Fresh' = Fresh
        /\ hc => NextToggle = tgl
    BY <2>1 DEF Skipping, Old, Over, Awaiting, Fresh, NextToggle
  <2>3. OutDue' = Bit(Fresh /\ NextToggle # devTgl) /\ OutMore' = Bit(NextToggle = devTgl)
    BY <2>1, <2>2 DEF OutDue, OutMore
  <2>4. OutDue = Bit(Fresh /\ (NextToggle # devTgl \/ (hc /\ Old /\ got[buff] > 0)))
    BY <2>2 DEF OutDue
  <2>5. OutMore = Bit(NextToggle = devTgl) \/ OutMore = 1 \/ OutMore = 1 + Bit(NextToggle = devTgl)
    BY <2>2 DEF OutMore, Bit
  <2>6. OutDue' <= OutDue + 0 /\ OutMore' <= OutMore + 0
    BY <2>3, <2>4, <2>5 DEF Bit
  <2>7. QED
    BY <1>z, <2>1, <2>2, <2>6 DEF OutCosts, RepeatsOld
<1>6. CASE ActFailed
  <2>1. /\ st = "ACT" /\ hw = "off" /\ urb # "DONE" /\ seen[1] # "DONE" /\ hc /\ Awaiting /\ ~Awaiting'
        /\ UNCHANGED <<hc, saved, chanVars, devVars, got, faults>>
    BY <1>0, <1>6 DEF ActFailed, AfterFailure, OutShape, Awaiting, SampleInv
  <2>2. ~Skipping /\ ~Over /\ ~Over' /\ ~Old /\ ~Old' /\ Fresh' = Fresh
    BY <2>1 DEF Skipping, Over, Old, Fresh
  <2>3. OutDue' = OutDue
    BY <2>1, <2>2 DEF OutDue
  <2>4. OutMore' = OutMore
    BY <2>1, <2>2 DEF OutMore, Bit
  <2>5. QED
    BY <1>z, <2>1, <2>2, <2>3, <2>4 DEF OutCosts, RepeatsOld
<1>7. CASE ActTimeout
  <2>1. /\ st = "ACT" /\ seen[1] = "IDLE" /\ hc /\ hc' /\ Awaiting /\ buff = devPkt
        /\ UNCHANGED <<saved, hw, hcst, tgl, pid, devVars, got>>
        /\ \/ st' = "WAIT" /\ urb' = "DONE" /\ seen[2] = "XFRC"
           \/ st' = "FINALIZE" /\ urb' = urb
        /\ \/ hw = "off" /\ seen = <<urb, hcst>> /\ faults' = faults
           \/ faults' = faults + 1
    BY <1>0, <1>7 DEF ActTimeout, Fault, OutShape, Awaiting, SampleInv
  <2>2. /\ ~Old /\ ~Old' /\ Over' = Over /\ Fresh' = Fresh
        /\ Over => hw = "halting"
    BY <2>1 DEF Old, Over, Fresh
  <2>3. OutDue = IF Over THEN Bit(Fresh) + Bit(Skipping)
                 ELSE IF Skipping THEN IF hw = "off" THEN Bit(Fresh) + Bit(tgl # devTgl)
                                                     ELSE 1 + Bit(Fresh /\ tgl # devTgl)
                 ELSE Bit(Fresh /\ tgl # devTgl)
    BY <2>1, <2>2 DEF OutDue, Bit
  <2>4. OutMore = IF Over THEN 0 ELSE Bit(~(Skipping /\ hw = "off") /\ tgl = devTgl)
    BY <2>1, <2>2 DEF OutMore, Bit
  <2>5. CASE hw = "off" /\ seen = <<urb, hcst>> /\ faults' = faults
    <3>1. urb = "IDLE" /\ hcst = "XACTERR"
      BY <2>1, <2>5 DEF OutShape
    <3>2. st' = "FINALIZE" /\ ~Skipping /\ ~Over /\ ~Awaiting'
      BY <2>1, <2>5, <3>1 DEF Skipping, Over, Awaiting
    <3>3. OutDue' = OutDue
      BY <2>1, <2>2, <2>3, <3>2 DEF OutDue
    <3>4. OutMore' = OutMore
      BY <2>1, <2>2, <2>4, <2>5, <3>2 DEF OutMore, Bit
    <3>5. QED
      BY <1>z, <2>1, <2>2, <2>5, <3>3, <3>4 DEF OutCosts, RepeatsOld
  <2>6. CASE st' = "WAIT" /\ urb' = "DONE" /\ faults' = faults + 1
    <3>1. Awaiting' /\ Skipping'
      BY <2>6 DEF Awaiting, Skipping
    <3>2. OutDue' = IF Over THEN Bit(Fresh) + 1
                    ELSE IF hw = "off" THEN Bit(Fresh) + Bit(tgl # devTgl)
                                       ELSE 1 + Bit(Fresh /\ tgl # devTgl)
      BY <2>1, <2>2, <3>1 DEF OutDue, Bit
    <3>3. OutMore' = IF Over THEN 0 ELSE Bit(hw # "off" /\ tgl = devTgl)
      BY <2>1, <2>2, <3>1 DEF OutMore, Bit
    <3>4. OutDue' <= OutDue + 1
      BY <2>3, <3>2 DEF Bit
    <3>5. OutMore' <= OutMore + 1
      BY <2>4, <3>3 DEF Bit
    <3>6. QED
      BY <2>1, <2>2, <2>6, <3>4, <3>5 DEF OutCosts, RepeatsOld
  <2>7. CASE st' = "FINALIZE" /\ urb' = urb /\ faults' = faults + 1
    <3>1. ~Awaiting'
      BY <2>7 DEF Awaiting
    <3>2. OutDue' = IF Over THEN Bit(Fresh) + 0 ELSE Bit(Fresh /\ tgl # devTgl)
      BY <2>1, <2>2, <3>1 DEF OutDue, Bit
    <3>3. OutMore' = IF Over THEN 1 ELSE Bit(hw = "armed") + Bit(tgl = devTgl)
      BY <2>1, <2>2, <3>1 DEF OutMore, Bit
    <3>4. OutDue' <= OutDue + 1
      BY <2>3, <3>2 DEF Bit
    <3>5. OutMore' <= OutMore + 1
      BY <2>4, <3>3 DEF Bit
    <3>6. QED
      BY <2>1, <2>2, <2>7, <3>4, <3>5 DEF OutCosts, RepeatsOld
  <2>8. QED
    BY <2>1, <2>5, <2>6, <2>7
<1>8. CASE Finalize
  <2>1. ~Awaiting /\ ~Awaiting' /\ UNCHANGED <<devVars, got, faults>>
    BY <1>8 DEF Finalize, Awaiting
  <2>2. CASE hc /\ (ep.asNeeded \/ hasError # 0)
    <3>1. FreeChannel
      BY <1>8, <2>2 DEF Finalize
    <3>2. hc' = FALSE /\ NextToggle' = tgl /\ Fresh' = Fresh /\ pid' = pid
      <4>1. hc' = FALSE /\ NextToggle' = Repaired(NextToggle) /\ pid' = pid
        BY <1>0, <2>2, <3>1, Freed
      <4>2. Repaired(NextToggle) = tgl
        BY <2>2 DEF Repaired, NextToggle, OutShape
      <4>3. QED
        BY <2>1, <4>1, <4>2 DEF Fresh
    <3>3. OutDue' = Bit(Fresh /\ tgl # devTgl) /\ OutMore' = Bit(tgl = devTgl)
      BY <2>1, <3>2 DEF OutDue, OutMore
    <3>4. \/ OutDue = Bit(Fresh) + Bit(FALSE)
          \/ OutDue = Bit(Fresh /\ (tgl # devTgl \/ (Old /\ got[buff] > 0)))
      BY <2>1, <2>2 DEF OutDue
    <3>5. \/ OutMore = 1 \/ OutMore = Bit(hw = "armed") + Bit(tgl = devTgl)
      BY <2>1, <2>2 DEF OutMore, Bit
    <3>6. OutDue' <= OutDue + 0
      BY <3>3, <3>4 DEF Bit
    <3>7. OutMore' <= OutMore + 0
      BY <3>3, <3>5 DEF Bit
    <3>8. RepeatsOld' => RepeatsOld /\ buff' = buff
      BY <2>1, <3>1, <3>2 DEF FreeChannel, RepeatsOld, Old
    <3>9. QED
      BY <1>z, <2>1, <3>6, <3>7, <3>8 DEF OutCosts
  <2>3. CASE ~(hc /\ (ep.asNeeded \/ hasError # 0))
    BY <1>8, <1>e, <2>1, <2>3 DEF Finalize
  <2>4. QED
    BY <2>2, <2>3
<1>9. CASE Nak \/ XactErr \/ Stall
  <2>1. /\ hw = "armed" /\ hw' = "halting" /\ hcst' # "XFRC"
        /\ UNCHANGED <<taskVars, urb, tgl, pid, devVars, got>> /\ faults' \in {faults, faults + 1}
    BY <1>0, <1>9 DEF Nak, XactErr, Stall, Halting, Fault
  <2>2. /\ ~Over /\ ~Over' /\ ~Old' /\ Fresh' = Fresh /\ Awaiting' = Awaiting /\ Skipping' = Skipping
        /\ NextToggle' = NextToggle
    BY <2>1 DEF Over, Old, Fresh, Awaiting, Skipping, NextToggle
  <2>3. OutDue' <= OutDue
    <3>1. CASE ~hc
      BY <1>z, <2>1, <2>2, <3>1 DEF OutDue
    <3>2. CASE hc /\ Awaiting /\ Skipping
      BY <1>z, <2>1, <2>2, <3>2 DEF OutDue
    <3>3. CASE hc /\ ~(Awaiting /\ Skipping)
      <4>1. OutDue' = Bit(Fresh /\ tgl # devTgl)
        BY <2>1, <2>2, <3>3 DEF OutDue
      <4>2. OutDue = Bit(Fresh /\ (tgl # devTgl \/ (Old /\ got[buff] > 0)))
        BY <2>1, <2>2, <3>3 DEF OutDue
      <4>3. QED
        BY <4>1, <4>2 DEF Bit
    <3>4. QED
      BY <3>1, <3>2, <3>3
  <2>4. OutMore' <= OutMore
    <3>1. CASE ~hc \/ Awaiting
      <4>1. OutMore' = OutMore
        BY <2>1, <2>2, <3>1 DEF OutMore
      <4>2. QED
        BY <1>z, <4>1
    <3>2. CASE hc /\ ~Awaiting
      <4>1. OutMore' = 0 + Bit(tgl = devTgl)
        BY <2>1, <2>2, <3>2 DEF OutMore, Bit
      <4>2. OutMore = 1 \/ OutMore = 1 + Bit(tgl = devTgl)
        BY <2>1, <2>2, <3>2 DEF OutMore, Bit
      <4>3. QED
        BY <4>1, <4>2 DEF Bit
    <3>3. QED
      BY <3>1, <3>2
  <2>5. CASE faults' = faults
    BY <1>z, <2>1, <2>2, <2>3, <2>4, <2>5 DEF OutCosts, RepeatsOld
  <2>6. CASE faults' = faults + 1
    <3>1. (OutDue \in 0 .. 2 /\ OutMore \in 0 .. 2)'
      BY OutTypes, PTL
    <3>2. OutDue' <= OutDue + 1 /\ OutMore' <= OutMore + 1
      BY <1>t, <2>3, <2>4, <3>1
    <3>3. QED
      BY <2>1, <2>2, <2>6, <3>2 DEF OutCosts, RepeatsOld
  <2>7. QED
    BY <2>1, <2>5, <2>6
<1>10. CASE ChHltdOut
  <2>1. /\ hw = "halting" /\ hw' = "off" /\ UNCHANGED <<taskVars, hcst, pid, devVars, got, faults>>
        /\ tgl' = (IF hcst = "XFRC" THEN 1 - tgl ELSE tgl)
        /\ hcst = "XFRC" => urb' = "DONE"
        /\ hcst # "XFRC" /\ urb' = "DONE" => urb = "DONE"
    BY <1>0, <1>10 DEF ChHltdOut, DoneToggle
  <2>2. /\ ~Over' /\ ~Old' /\ ~Old /\ Fresh' = Fresh /\ Awaiting' = Awaiting
        /\ Over <=> hcst = "XFRC"
    BY <2>1 DEF Over, Old, Fresh, Awaiting
  <2>3. CASE ~hc
    <3>1. NextToggle' = NextToggle
      BY <2>1, <2>3 DEF NextToggle
    <3>2. OutDue' = OutDue /\ OutMore' = OutMore
      BY <2>1, <2>2, <2>3, <3>1 DEF OutDue, OutMore
    <3>3. QED
      BY <1>z, <2>1, <2>2, <3>2 DEF OutCosts, RepeatsOld
  <2>4. CASE hc /\ Over
    <3>1. tgl' = devTgl /\ Skipping'
      BY <1>0, <2>1, <2>2, <2>4 DEF OutShape, Skipping
    <3>2. OutDue' = IF Awaiting THEN Bit(Fresh) + 0 ELSE 0
      BY <2>1, <2>2, <2>4, <3>1 DEF OutDue, Bit
    <3>3. OutMore' = IF Awaiting THEN 0 ELSE 0 + 1
      BY <2>1, <2>2, <2>4, <3>1 DEF OutMore, Bit
    <3>4. OutDue = Bit(Fresh) + Bit(Awaiting /\ Skipping) /\ OutMore = Bit(~Awaiting)
      BY <2>4 DEF OutDue, OutMore
    <3>5. OutDue' <= OutDue + 0 /\ OutMore' <= OutMore + 0
      BY <3>2, <3>3, <3>4 DEF Bit
    <3>6. QED
      BY <1>z, <2>1, <2>2, <3>5 DEF OutCosts, RepeatsOld
  <2>5. CASE hc /\ ~Over
    <3>1. tgl' = tgl /\ (Skipping' => Skipping)
      BY <2>1, <2>2, <2>5 DEF Skipping
    <3>2. CASE Awaiting
      <4>1. OutDue = IF Skipping THEN 1 + Bit(Fresh /\ tgl # devTgl) ELSE Bit(Fresh /\ tgl # devTgl)
        BY <2>1, <2>2, <2>5, <3>2 DEF OutDue
      <4>2. OutDue' = IF Skipping' THEN Bit(Fresh) + Bit(tgl # devTgl) ELSE Bit(Fresh /\ tgl # devTgl)
        BY <2>1, <2>2, <2>5, <3>1, <3>2 DEF OutDue
      <4>3. OutMore = Bit(tgl = devTgl) /\ OutMore' = Bit(~Skipping' /\ tgl = devTgl)
        BY <2>1, <2>2, <2>5, <3>1, <3>2 DEF OutMore
      <4>4. OutDue' <= OutDue + 0
        BY <3>1, <4>1, <4>2 DEF Bit
      <4>5. OutMore' <= OutMore + 0
        BY <4>3 DEF Bit
      <4>6. QED
        BY <1>z, <2>1, <2>2, <4>4, <4>5 DEF OutCosts, RepeatsOld
    <3>3. CASE ~Awaiting
      <4>1. OutDue' = OutDue
        BY <2>1, <2>2, <2>5, <3>1, <3>3 DEF OutDue
      <4>2. OutMore' = OutMore
        BY <2>1, <2>2, <2>5, <3>1, <3>3 DEF OutMore, Bit
      <4>3. QED
        BY <1>z, <2>1, <2>2, <4>1, <4>2 DEF OutCosts, RepeatsOld
    <3>4. QED
      BY <3>2, <3>3
  <2>6. QED
    BY <2>3, <2>4, <2>5
<1>11. ~DataIn /\ ~Overrun /\ ~ChHltdIn
  BY <1>0 DEF DataIn, Overrun, ChHltdIn
<1>12. QED
  BY <1>1, <1>2, <1>3, <1>4, <1>5, <1>6, <1>7, <1>8, <1>9, <1>10, <1>11 DEF Next, Task, Bus

LEMMA OutCounts ==
  ASSUME Basic, ~IsIn, OutLossInv
  PROVE  /\ TypeOK /\ N \in Nat /\ devPkt \in 1 .. N + 1 /\ faults \in Nat
         /\ IsFiniteSet(Lost) /\ IsFiniteSet(Repeated) /\ Cardinality(Repeated) \in Nat
         /\ Cardinality(Lost) \in Nat
         /\ OutDue \in 0 .. 2 /\ OutMore \in 0 .. 2 /\ OutShape
         /\ Cardinality(Lost) + OutDue <= faults
         /\ Cardinality(Repeated) + RepeatDueOut <= faults
         /\ \A k \in 1 .. N : got[k] \in Nat /\ (k > devPkt => got[k] = 0) /\ got[k] <= faults + 1
         /\ devPkt <= N => got[devPkt] + OutMore <= faults + 1
         /\ RepeatsOld => buff \in 1 .. N /\ buff = devPkt - 1 /\ got[buff] <= faults
         /\ RepeatDueOut \in Nat
<1>1. TypeOK /\ OutDue \in 0 .. 2 /\ OutMore \in 0 .. 2
  BY OutTypes DEF Basic
<1>2. RepeatDueOut \in Nat
  BY DEF RepeatDueOut, Bit
<1>3. RepeatsOld => buff \in 1 .. N /\ buff = devPkt - 1
  BY <1>1 DEF RepeatsOld, Old, OutLossInv, OutShape, TypeOK
<1>4. QED
  BY <1>1, <1>2, <1>3, Countable DEF OutLossInv, TypeOK

LEMMA OutLost == ~IsIn => Lost = {k \in 1 .. devPkt - 1 : got[k] = 0}
BY DEF Lost, Pending

LEMMA Terms ==
  \A a, b, c, d \in 0 .. 1 : \A u \in Nat :
    c <= a + u /\ d <= b => c + d \in Nat /\ c + d <= a + b + u
OBVIOUS

LEMMA Drop ==
  \A m, n \in Nat : n + 1 <= m => 1 + m > 1 /\ (0 + 1 + n > 1 => 0 + m > 1)
OBVIOUS

LEMMA Shift ==
  \A d, e, f, g \in Nat : f <= g =>
    /\ e <= d \/ e + 0 <= d => e + f <= d + g
    /\ e + 1 <= d => e + 1 + f <= d + g
    /\ e <= d + 1 /\ g = f + 1 => e + f <= d + g
OBVIOUS

LEMMA OutKept ==
  ASSUME Basic, Basic', ~IsIn, ~IsIn', OutLossInv, OutShape', NEW u \in 0 .. 1, OutCosts(u)
  PROVE  OutLossInv'
<1>0. /\ UNCHANGED <<got, devPkt>> /\ faults' = faults + u
      /\ OutDue' <= OutDue + u /\ OutMore' <= OutMore + u
      /\ RepeatsOld' => RepeatsOld /\ buff' = buff
  BY DEF OutCosts
<1>1. OutDue' \in 0 .. 2 /\ OutMore' \in 0 .. 2
  <2>1. (OutDue \in 0 .. 2 /\ OutMore \in 0 .. 2)'
    BY OutTypes, PTL
  <2>2. QED
    BY <2>1
<1>2. Lost' = Lost /\ Repeated' = Repeated
  BY <1>0 DEF Lost, Pending, Repeated
<1>3. Cardinality(Lost') + OutDue' <= faults'
  BY <1>0, <1>1, <1>2, OutCounts
<1>4. RepeatDueOut' \in Nat /\ RepeatDueOut' <= RepeatDueOut + u
  <2> DEFINE A == Bit(devPkt <= N /\ got[devPkt] <= 1 /\ got[devPkt] + OutMore > 1)
             B == Bit(RepeatsOld /\ got[buff] = 1)
  <2>1. A \in 0 .. 1 /\ A' \in 0 .. 1 /\ B \in 0 .. 1 /\ B' \in 0 .. 1 /\ u \in Nat
    BY DEF Bit
  <2>2. RepeatDueOut = A + B /\ RepeatDueOut' = A' + B'
    BY DEF RepeatDueOut
  <2>3. A' <= A + u
    <3>1. CASE devPkt <= N
      <4>1. got[devPkt] \in Nat
        BY <3>1, OutCounts
      <4>2. QED
        BY <1>0, <1>1, <3>1, <4>1, OutTypes DEF Bit
    <3>2. CASE ~(devPkt <= N)
      BY <1>0, <3>2 DEF Bit
    <3>3. QED
      BY <3>1, <3>2
  <2>4. B' <= B
    BY <1>0 DEF Bit
  <2> HIDE DEF A, B
  <2>5. QED
    BY <2>1, <2>2, <2>3, <2>4, Terms
<1>5. Cardinality(Repeated') + RepeatDueOut' <= faults'
  BY <1>0, <1>2, <1>4, OutCounts
<1>6. \A k \in 1 .. N : (k > devPkt' => got'[k] = 0) /\ got'[k] <= faults' + 1
  BY <1>0, OutCounts
<1>7. devPkt' <= N => got'[devPkt'] + OutMore' <= faults' + 1
  BY <1>0, <1>1, OutCounts
<1>8. RepeatsOld' => got'[buff'] <= faults'
  BY <1>0, OutCounts
<1>9. QED
  BY <1>3, <1>5, <1>6, <1>7, <1>8 DEF OutLossInv

(* The device takes the packet, or drops it as one it already has. *)
LEMMA OutDataOut ==
  ASSUME Basic, Basic', ~IsIn, ~IsIn', OutLossInv, OutShape', DataOut
  PROVE  OutLossInv'
<1> USE DEF taskVars, chanVars, devVars
<1>0. OutShape /\ SampleInv /\ tgl \in {0, 1} /\ pid \in {0, 1} /\ devTgl \in {0, 1}
  BY DEF OutLossInv, Basic, TypeOK
<1>c. /\ N \in Nat /\ devPkt \in 1 .. N + 1 /\ faults \in Nat
      /\ IsFiniteSet(Lost) /\ IsFiniteSet(Repeated) /\ Cardinality(Repeated) \in Nat
      /\ Cardinality(Lost) \in Nat
      /\ OutDue \in 0 .. 2 /\ OutMore \in 0 .. 2
      /\ Cardinality(Lost) + OutDue <= faults
      /\ Cardinality(Repeated) + RepeatDueOut <= faults
      /\ \A k \in 1 .. N : got[k] \in Nat /\ (k > devPkt => got[k] = 0) /\ got[k] <= faults + 1
      /\ devPkt <= N => got[devPkt] + OutMore <= faults + 1
      /\ RepeatsOld => buff \in 1 .. N /\ buff = devPkt - 1 /\ got[buff] <= faults
      /\ RepeatDueOut \in Nat
  BY OutCounts
<1>d. OutDue' \in 0 .. 2 /\ OutMore' \in 0 .. 2
  <2>1. (OutDue \in 0 .. 2 /\ OutMore \in 0 .. 2)'
    BY OutTypes, PTL
  <2>2. QED
    BY <2>1
<1>1. /\ hw = "armed" /\ hw' = "halting" /\ UNCHANGED <<taskVars, urb, tgl, pid, devPkt, buff>>
      /\ pid = NextToggle /\ buff \in {devPkt - 1, devPkt} \ {0} /\ buff \in 1 .. N
  BY <1>0 DEF DataOut, Halting, OutShape, Basic, TypeOK
<1>2. PICK u \in 0 .. 1 : faults' = faults + u /\ (Over' <=> u = 0)
  <2>1. CASE Halting("XFRC") /\ UNCHANGED faults
    BY <1>c, <2>1 DEF Halting, Over
  <2>2. CASE Fault("ackLost") /\ Halting("XACTERR")
    BY <2>2 DEF Halting, Over, Fault
  <2>3. QED
    BY <2>1, <2>2 DEF DataOut
<1>n. /\ OutDue \in Nat /\ OutDue' \in Nat /\ OutMore \in Nat /\ OutMore' \in Nat
      /\ faults \in Nat /\ faults' \in Nat /\ faults <= faults' /\ RepeatDueOut \in Nat
  BY <1>2, <1>c, <1>d
<1>3. /\ ~Over /\ ~Old' /\ ~RepeatsOld' /\ (Awaiting' <=> Awaiting) /\ (Skipping' <=> Skipping)
      /\ NextToggle' = NextToggle /\ (hc => tgl = pid) /\ (Awaiting => hc /\ ~Old)
      /\ (Old <=> buff # devPkt) /\ (Old => hc)
  BY <1>0, <1>1 DEF Over, Old, RepeatsOld, Awaiting, Skipping, NextToggle, OutShape, SampleInv
(* What was due before, and what is now. *)
<1>4. OutDue = IF Awaiting /\ Skipping THEN 1 + Bit(Fresh /\ pid # devTgl)
               ELSE Bit(Fresh /\ (pid # devTgl \/ (Old /\ got[buff] > 0)))
  BY <1>1, <1>3 DEF OutDue
<1>5. OutDue' = IF hc /\ u = 0 THEN Bit(Fresh') + Bit(Awaiting /\ Skipping)
                ELSE IF Awaiting /\ Skipping THEN 1 + Bit(Fresh' /\ pid # devTgl')
                ELSE Bit(Fresh' /\ pid # devTgl')
  BY <1>1, <1>2, <1>3 DEF OutDue, Bit
<1>6. OutMore = IF hc /\ ~Awaiting THEN IF Old THEN 1 ELSE 1 + Bit(pid = devTgl)
                ELSE Bit(pid = devTgl)
  BY <1>1, <1>3 DEF OutMore, Bit
<1>7. OutMore' = IF hc /\ u = 0 THEN Bit(~Awaiting) ELSE Bit(pid = devTgl')
  BY <1>1, <1>2, <1>3 DEF OutMore, Bit
<1>8. RepeatDueOut' = Bit(devPkt <= N /\ got'[devPkt] <= 1 /\ got'[devPkt] + OutMore' > 1)
  BY <1>1, <1>3, <1>c, <1>d DEF RepeatDueOut, Bit
<1>9. CASE pid # devTgl
  <2>1. UNCHANGED <<devTgl, got>>
    BY <1>9 DEF DataOut
  <2>2. Fresh' = Fresh /\ Repeated' = Repeated /\ Lost' = Lost
    BY <1>1, <2>1 DEF Fresh, Repeated, Lost, Pending
  <2>3. OutDue' <= OutDue + u
    BY <1>3, <1>4, <1>5, <1>9, <2>1, <2>2 DEF Bit
  <2>4. OutMore' <= OutMore
    BY <1>6, <1>7, <1>9, <2>1 DEF Bit
  <2>5. RepeatDueOut' <= RepeatDueOut /\ RepeatDueOut' \in Nat
    <3>1. CASE devPkt <= N
      <4>1. got[devPkt] \in Nat
        BY <1>c, <3>1
      <4>2. QED
        BY <1>8, <1>c, <1>d, <2>1, <2>4, <3>1, <4>1 DEF RepeatDueOut, Bit
    <3>2. CASE ~(devPkt <= N)
      BY <1>8, <1>c, <3>2 DEF Bit
    <3>3. QED
      BY <3>1, <3>2
  <2>6. QED
    <3>1. Cardinality(Lost') + OutDue' <= faults'
      BY <1>2, <1>c, <1>d, <2>2, <2>3
    <3>2. Cardinality(Repeated') + RepeatDueOut' <= faults'
      BY <1>2, <1>c, <2>2, <2>5
    <3>3. \A k \in 1 .. N : (k > devPkt' => got'[k] = 0) /\ got'[k] <= faults' + 1
      BY <1>1, <1>2, <1>c, <2>1
    <3>4. devPkt' <= N => got'[devPkt'] + OutMore' <= faults' + 1
      BY <1>1, <1>2, <1>c, <1>d, <2>1, <2>4
    <3>5. QED
      BY <1>3, <3>1, <3>2, <3>3, <3>4 DEF OutLossInv
<1>10. CASE pid = devTgl
  <2>1. devTgl' = 1 - devTgl /\ pid # devTgl' /\ got' = [got EXCEPT ![buff] = @ + 1]
    BY <1>0, <1>10 DEF DataOut
  <2>2. \A k \in 1 .. N : got'[k] = IF k = buff THEN got[k] + 1 ELSE got[k]
    BY <2>1 DEF Basic, TypeOK
  <2>3. Lost' \subseteq Lost /\ (buff < devPkt /\ got[buff] = 0 => buff \in Lost /\ buff \notin Lost')
    <3>1. Lost = {k \in 1 .. devPkt - 1 : got[k] = 0} /\ Lost' = {k \in 1 .. devPkt - 1 : got'[k] = 0}
      BY <1>1 DEF Lost, Pending
    <3>2. \A k \in 1 .. devPkt - 1 : k \in 1 .. N
      BY <1>c
    <3>3. QED
      BY <1>1, <1>c, <2>2, <3>1, <3>2
  <2>4. CASE buff = devPkt
    <3>1. devPkt \in 1 .. N /\ got'[devPkt] = got[devPkt] + 1 /\ got[devPkt] \in Nat /\ ~Fresh' /\ ~Old
      BY <1>1, <1>3, <1>c, <2>2, <2>4 DEF Fresh
    <3>2. OutDue' <= OutDue
      BY <1>4, <1>5, <1>10, <2>1, <3>1 DEF Bit
    <3>3. OutMore' + 1 <= OutMore
      BY <1>6, <1>7, <1>10, <2>1, <3>1 DEF Bit
    <3>4. Cardinality(Lost') + OutDue' <= faults'
      <4>1. OutDue' + faults <= OutDue + faults'
        BY <1>n, <3>2, Shift
      <4>2. QED
        BY <1>n, <1>c, <2>3, <4>1, Uncharged
    <3>5. RepeatDueOut = Bit(got[devPkt] <= 1 /\ got[devPkt] + OutMore > 1)
      BY <1>c, <3>1 DEF RepeatDueOut, RepeatsOld, Bit
    <3>6. RepeatDueOut' = Bit(got[devPkt] + 1 <= 1 /\ got[devPkt] + 1 + OutMore' > 1)
      BY <1>8, <3>1
    <3>7. Cardinality(Repeated') + RepeatDueOut' <= faults'
      <4>1. CASE got[devPkt] = 1
        <5>1. Repeated' \subseteq Repeated \cup {devPkt}
          BY <2>2, <2>4 DEF Repeated
        <5>2. RepeatDueOut = 1 /\ RepeatDueOut' = 0
          <6>1. 1 + OutMore > 1
            BY <1>n, <3>3, Drop
          <6>2. QED
            BY <3>5, <3>6, <4>1, <6>1 DEF Bit
        <5>3. RepeatDueOut' \in Nat /\ RepeatDueOut' + 1 <= RepeatDueOut
          BY <5>2
        <5>4. RepeatDueOut' + 1 + faults <= RepeatDueOut + faults'
          BY <1>n, <5>3, Shift
        <5>5. QED
          BY <1>n, <1>c, <5>1, <5>3, <5>4, Charged
      <4>2. CASE got[devPkt] # 1
        <5>1. Repeated' \subseteq Repeated
          BY <2>2, <2>4, <3>1, <4>2 DEF Repeated
        <5>2. RepeatDueOut' <= RepeatDueOut /\ RepeatDueOut' \in Nat
          <6>1. CASE got[devPkt] = 0
            <7>1. 0 + 1 + OutMore' > 1 => 0 + OutMore > 1
              BY <1>n, <3>3, Drop
            <7>2. QED
              BY <3>5, <3>6, <6>1, <7>1 DEF Bit
          <6>2. CASE got[devPkt] # 0
            <7>1. ~(got[devPkt] + 1 <= 1)
              BY <3>1, <6>2
            <7>2. QED
              BY <1>n, <3>6, <7>1 DEF Bit
          <6>3. QED
            BY <6>1, <6>2
        <5>3. RepeatDueOut' + faults <= RepeatDueOut + faults'
          BY <1>n, <5>2, Shift
        <5>4. QED
          BY <1>n, <1>c, <5>1, <5>2, <5>3, Uncharged
      <4>3. QED
        BY <4>1, <4>2
    <3>8. got'[devPkt] + OutMore' <= faults' + 1
      <4>1. got[devPkt] + OutMore <= faults + 1
        BY <1>c, <3>1
      <4>2. \A g, m, n, f, h \in Nat : g + m <= f + 1 /\ n + 1 <= m /\ f <= h => g + 1 + n <= h + 1
        OBVIOUS
      <4>3. QED
        BY <1>n, <3>1, <3>3, <4>1, <4>2
    <3>9. \A k \in 1 .. N : (k > devPkt' => got'[k] = 0) /\ got'[k] <= faults' + 1
      BY <1>1, <1>2, <1>c, <1>d, <2>2, <2>4, <3>8
    <3>10. QED
      BY <1>1, <1>3, <3>4, <3>7, <3>8, <3>9 DEF OutLossInv
  <2>5. CASE buff # devPkt
    <3>1. /\ Old /\ RepeatsOld /\ buff = devPkt - 1 /\ hc /\ ~Awaiting /\ got[buff] \in Nat
          /\ got'[buff] = got[buff] + 1 /\ got[buff] <= faults
      BY <1>1, <1>3, <1>10, <1>c, <2>2, <2>5 DEF RepeatsOld
    <3>2. /\ devPkt <= N => got'[devPkt] = got[devPkt] /\ got[devPkt] \in Nat
          /\ Fresh' <=> Fresh
      BY <1>1, <1>c, <2>2, <2>5 DEF Fresh
    <3>3. OutDue = Bit(Fresh /\ got[buff] > 0) /\ OutDue' = Bit(Fresh)
      BY <1>4, <1>5, <1>10, <2>1, <3>1, <3>2 DEF Bit
    <3>4. OutMore' <= OutMore
      BY <1>6, <1>7, <1>10, <2>1, <3>1 DEF Bit
    <3>5. Cardinality(Lost') + OutDue' <= faults'
      <4>1. CASE got[buff] = 0
        <5>1. Lost \ {buff} \in SUBSET Lost /\ Lost' \subseteq Lost \ {buff} /\ buff \in Lost
          BY <1>c, <2>3, <3>1, <4>1
        <5>2. IsFiniteSet(Lost \ {buff}) /\ Cardinality(Lost \ {buff}) = Cardinality(Lost) - 1
          BY <1>c, <5>1, FS_RemoveElement
        <5>3. Cardinality(Lost \ {buff}) + 1 <= faults
          BY <1>c, <5>2
        <5>4. OutDue' <= 1
          BY <3>3 DEF Bit
        <5>5. OutDue' + faults <= 1 + faults'
          BY <1>n, <5>4, Shift
        <5>6. QED
          BY <1>n, <5>1, <5>2, <5>3, <5>5, Uncharged
      <4>2. CASE got[buff] > 0
        <5>1. OutDue' <= OutDue
          BY <3>3, <4>2 DEF Bit
        <5>2. OutDue' + faults <= OutDue + faults'
          BY <1>n, <5>1, Shift
        <5>3. QED
          BY <1>n, <1>c, <2>3, <5>2, Uncharged
      <4>3. QED
        BY <3>1, <4>1, <4>2
    <3>6. RepeatDueOut = Bit(devPkt <= N /\ got[devPkt] <= 1 /\ got[devPkt] + OutMore > 1) + Bit(got[buff] = 1)
      BY <3>1 DEF RepeatDueOut, Bit
    <3>7. RepeatDueOut' + Bit(got[buff] = 1) <= RepeatDueOut /\ RepeatDueOut' \in Nat
      <4>1. CASE devPkt <= N
        BY <1>8, <1>c, <1>d, <3>1, <3>2, <3>4, <3>6, <4>1 DEF Bit
      <4>2. CASE ~(devPkt <= N)
        BY <1>8, <1>c, <3>6, <4>2 DEF Bit
      <4>3. QED
        BY <4>1, <4>2
    <3>8. Cardinality(Repeated') + RepeatDueOut' <= faults'
      <4>1. CASE got[buff] = 1
        <5>1. Repeated' \subseteq Repeated \cup {buff}
          BY <2>2 DEF Repeated
        <5>2. RepeatDueOut' + 1 <= RepeatDueOut
          BY <3>7, <4>1 DEF Bit
        <5>3. RepeatDueOut' + 1 + faults <= RepeatDueOut + faults'
          BY <1>n, <3>7, <5>2, Shift
        <5>4. QED
          BY <1>n, <1>c, <3>7, <5>1, <5>3, Charged
      <4>2. CASE got[buff] # 1
        <5>1. Repeated' \subseteq Repeated
          BY <2>2, <3>1, <4>2 DEF Repeated
        <5>2. RepeatDueOut' <= RepeatDueOut
          BY <3>7, <4>2 DEF Bit
        <5>3. RepeatDueOut' + faults <= RepeatDueOut + faults'
          BY <1>n, <3>7, <5>2, Shift
        <5>4. QED
          BY <1>n, <1>c, <3>7, <5>1, <5>3, Uncharged
      <4>3. QED
        BY <4>1, <4>2
    <3>9. \A k \in 1 .. N : (k > devPkt' => got'[k] = 0) /\ got'[k] <= faults' + 1
      <4>1. \A k \in 1 .. N : k > devPkt => k # buff
        BY <3>1, <1>c
      <4>2. \A k \in 1 .. N : got'[k] <= faults' + 1
        BY <1>2, <1>c, <2>2, <3>1
      <4>3. QED
        BY <1>1, <1>c, <2>2, <4>1, <4>2
    <3>10. devPkt' <= N => got'[devPkt'] + OutMore' <= faults' + 1
      BY <1>1, <1>2, <1>c, <1>d, <3>2, <3>4
    <3>11. QED
      BY <1>3, <3>5, <3>8, <3>9, <3>10 DEF OutLossInv
  <2>6. QED
    BY <2>4, <2>5
<1>11. QED
  BY <1>9, <1>10

(* The task goes on with the next packet. *)
LEMMA OutActDone ==
  ASSUME Basic, Basic', ~IsIn, ~IsIn', OutLossInv, OutShape', ActDone
  PROVE  OutLossInv'
<1> USE DEF taskVars, chanVars, devVars
<1>0. OutShape /\ SampleInv /\ SentInv /\ tgl \in {0, 1} /\ pid \in {0, 1} /\ devTgl \in {0, 1}
      /\ remaining \in Nat /\ hw \in {"off", "armed", "halting"}
  BY DEF OutLossInv, Basic, TypeOK
<1>c. /\ N \in Nat /\ devPkt \in 1 .. N + 1 /\ faults \in Nat
      /\ IsFiniteSet(Lost) /\ IsFiniteSet(Repeated) /\ Cardinality(Repeated) \in Nat
      /\ Cardinality(Lost) \in Nat
      /\ OutDue \in 0 .. 2 /\ OutMore \in 0 .. 2
      /\ Cardinality(Lost) + OutDue <= faults
      /\ Cardinality(Repeated) + RepeatDueOut <= faults
      /\ \A k \in 1 .. N : got[k] \in Nat /\ (k > devPkt => got[k] = 0) /\ got[k] <= faults + 1
      /\ devPkt <= N => got[devPkt] + OutMore <= faults + 1
      /\ RepeatDueOut \in Nat
  BY OutCounts
<1>d. OutDue' \in Nat /\ OutMore' \in Nat
  <2>1. (OutDue \in 0 .. 2 /\ OutMore \in 0 .. 2)'
    BY OutTypes, PTL
  <2>2. QED
    BY <2>1
<1>1. /\ st = "ACT" /\ Awaiting /\ Skipping /\ hc /\ ~Awaiting'
      /\ devPkt' = devPkt + 1 /\ UNCHANGED <<got, hc, saved, hasError, chanVars, devTgl, buff, faults>>
  BY <1>0 DEF ActDone, Awaiting, SampleInv, Skipping
<1>2. devPkt \in 1 .. N
  BY <1>0, <1>1, <1>c DEF SentInv
<1>3. /\ buff = devPkt /\ ~Old /\ (Old' <=> hw = "armed") /\ Over' = Over
      /\ hw = "armed" => pid = tgl
      /\ Fresh <=> got[devPkt] = 0
      /\ got[devPkt] \in Nat
  BY <1>0, <1>1, <1>2, <1>c DEF OutShape, Old, Over, NextToggle, Fresh
<1>4. Fresh' => got[devPkt'] = 0
  BY <1>1 DEF Fresh
<1>5. OutDue = IF Over THEN Bit(Fresh) + 1
               ELSE IF hw = "off" THEN Bit(Fresh) + Bit(tgl # devTgl)
               ELSE 1 + Bit(Fresh /\ tgl # devTgl)
  BY <1>1 DEF OutDue, Bit
<1>6. OutDue' = IF Over THEN Bit(Fresh') + 0
                ELSE Bit(Fresh' /\ (tgl # devTgl \/ (hw = "armed" /\ ~Fresh)))
  BY <1>1, <1>3 DEF OutDue, Bit
<1>7. OutDue' + Bit(Fresh) <= OutDue
  <2>1. CASE Over
    BY <1>5, <1>6, <2>1 DEF Bit
  <2>2. CASE ~Over /\ hw = "off"
    BY <1>5, <1>6, <2>2 DEF Bit
  <2>3. CASE ~Over /\ hw # "off"
    BY <1>5, <1>6, <2>3 DEF Bit
  <2>4. QED
    BY <2>1, <2>2, <2>3
<1>8. Lost' \subseteq Lost \cup {devPkt} /\ (~Fresh => Lost' \subseteq Lost)
  <2>1. Lost = {k \in 1 .. devPkt - 1 : got[k] = 0} /\ Lost' = {k \in 1 .. devPkt : got[k] = 0}
    BY <1>1, <1>2 DEF Lost, Pending
  <2>2. QED
    BY <1>2, <1>3, <2>1
<1>9. Cardinality(Lost') + OutDue' <= faults'
  <2>1. OutDue \in Nat /\ OutDue' \in Nat /\ faults \in Nat /\ faults' \in Nat /\ faults <= faults'
    BY <1>1, <1>c, <1>d
  <2>2. CASE Fresh
    <3>1. OutDue' + 1 <= OutDue
      BY <1>7, <2>2 DEF Bit
    <3>2. OutDue' + 1 + faults <= OutDue + faults'
      BY <2>1, <3>1, Shift
    <3>3. QED
      BY <1>8, <1>c, <2>1, <3>2, Charged
  <2>3. CASE ~Fresh
    <3>1. OutDue' + 0 <= OutDue
      BY <1>7, <2>3 DEF Bit
    <3>2. OutDue' + faults <= OutDue + faults'
      BY <2>1, <3>1, Shift
    <3>3. QED
      BY <1>8, <1>c, <2>1, <2>3, <3>2, Uncharged
  <2>4. QED
    BY <2>2, <2>3
(* The next packet has not been sent. *)
<1>10. /\ devPkt' <= N => got[devPkt'] = 0
       /\ \A k \in 1 .. N : k > devPkt' => got[k] = 0
  BY <1>1, <1>2, <1>c
<1>11. OutMore' \in 0 .. 1
  <2>1. OutMore' = IF Over THEN 1 ELSE IF hw = "armed" THEN 1 ELSE 0 + Bit(tgl = devTgl)
    BY <1>1, <1>3 DEF OutMore, Bit
  <2>2. QED
    BY <2>1 DEF Bit
<1>12. OutMore = IF Over THEN 0 ELSE Bit(hw # "off" /\ tgl = devTgl)
  BY <1>1 DEF OutMore, Bit
<1>13. hw = "armed" /\ pid = devTgl => OutMore = 1 /\ got[devPkt] <= faults
  <2> SUFFICES ASSUME hw = "armed", pid = devTgl PROVE OutMore = 1 /\ got[devPkt] <= faults
    OBVIOUS
  <2>1. OutMore = 1
    BY <1>3, <1>12 DEF Over, Bit
  <2>2. got[devPkt] + 1 <= faults + 1
    BY <1>2, <1>c, <2>1
  <2>3. QED
    BY <1>3, <1>c, <2>1, <2>2
<1>14. RepeatDueOut' \in Nat /\ RepeatDueOut' <= RepeatDueOut
  <2>1. ~(devPkt' <= N /\ got'[devPkt'] <= 1 /\ got'[devPkt'] + OutMore' > 1)
    BY <1>1, <1>10, <1>11
  <2>2. RepeatDueOut' = 0 + Bit(hw = "armed" /\ pid = devTgl /\ got[devPkt] = 1)
    BY <1>1, <1>3, <2>1 DEF RepeatDueOut, RepeatsOld, Bit
  <2>3. RepeatDueOut = Bit(got[devPkt] <= 1 /\ got[devPkt] + OutMore > 1) + 0
    BY <1>2, <1>3 DEF RepeatDueOut, RepeatsOld, Bit
  <2>4. QED
    BY <1>13, <2>2, <2>3 DEF Bit
<1>15. Cardinality(Repeated') + RepeatDueOut' <= faults'
  <2>1. Repeated' = Repeated /\ faults' = faults
    BY <1>1 DEF Repeated
  <2>2. QED
    BY <1>14, <1>c, <2>1
<1>16. devPkt' <= N => got'[devPkt'] + OutMore' <= faults' + 1
  <2>1. \A m \in 0 .. 1, f \in Nat : 0 + m <= f + 1
    OBVIOUS
  <2>2. QED
    BY <1>1, <1>10, <1>11, <1>c, <2>1
<1>17. RepeatsOld' => got'[buff'] <= faults'
  BY <1>1, <1>3, <1>13 DEF RepeatsOld
<1>18. QED
  BY <1>1, <1>9, <1>10, <1>15, <1>16, <1>17, <1>c DEF OutLossInv

LEMMA OutStep ==
  ASSUME Basic, Basic', ~IsIn, ~IsIn', OutLossInv, Next PROVE OutLossInv'
<1>1. OutShape'
  BY OutShapeStep DEF OutLossInv
<1>2. CASE ~DataOut /\ ~ActDone
  <2>1. PICK u \in 0 .. 1 : OutCosts(u)
    BY <1>2, OutCost DEF OutLossInv
  <2>2. QED
    BY <1>1, <2>1, OutKept
<1>3. QED
  BY <1>1, <1>2, OutDataOut, OutActDone
----------------------------------------------------------------------------
CostInv == IntrInv /\ BulkInv /\ OutLossInv

LEMMA CostInit == Init => CostInv
<1> SUFFICES ASSUME Init PROVE CostInv
  OBVIOUS
<1>1. /\ Lost = {} /\ Repeated = {} /\ Cardinality({}) = 0 /\ N \in Nat
      /\ ~Awaiting /\ hw = "off" /\ hasError = 0 /\ buff = 0 /\ devPkt = 1 /\ faults = 0
      /\ \A k \in 1 .. N : got[k] = 0
  BY FS_EmptySet DEF Init, Lost, Repeated, Awaiting
<1>2. NextToggle = 0 /\ devTgl = 0 /\ tgl = 0 /\ Repaired(0) = 0 /\ ~Over /\ ~Old
  BY <1>1 DEF Init, NextToggle, Repaired, Over, Old
<1>3. IntrInv
  <2>1. IntrDue = 0 /\ RepeatDueIn = 0
    BY <1>1, <1>2 DEF IntrDue, RepeatDueIn, Bit
  <2>2. IntrShape
    BY <1>1 DEF Init, IntrShape
  <2>3. QED
    BY <1>1, <2>1, <2>2 DEF IntrInv
<1>4. BulkInv
  BY <1>1 DEF BulkInv, Late, Bit
<1>5. OutLossInv
  <2>1. OutDue = 0 /\ OutMore = 1
    BY <1>1, <1>2 DEF OutDue, OutMore, Bit
  <2>2. RepeatDueOut = 0
    BY <1>1, <1>2, <2>1 DEF RepeatDueOut, RepeatsOld, Bit
  <2>3. OutShape
    BY <1>1, <1>2 DEF Init, OutShape
  <2>4. QED
    BY <1>1, <1>2, <2>1, <2>2, <2>3 DEF OutLossInv, RepeatsOld
<1>6. QED
  BY <1>3, <1>4, <1>5 DEF CostInv

LEMMA CostStep == IInv /\ IInv' /\ CostInv /\ [Next]_vars => CostInv'
<1> SUFFICES ASSUME IInv, IInv', CostInv, [Next]_vars PROVE CostInv'
  OBVIOUS
<1>1. Basic /\ Basic' /\ PidInv
  BY DEF IInv, Basic
<1>2. ep' = ep /\ IsIn' = IsIn /\ IsIntr' = IsIntr /\ Bearable' = Bearable
  BY DEF Next, vars, IsIn, IsIntr, Bearable
<1>3. CASE UNCHANGED vars
  <2>1. UNCHANGED <<ep, st, hc, hasError, saved, seen, urb, hcst, tgl, pid, hw, devTgl, devPkt,
                    buff, got, faults>>
    BY <1>3 DEF vars, moves, taskVars, chanVars, devVars
  <2>2. /\ Lost' = Lost /\ Repeated' = Repeated /\ NextToggle' = NextToggle /\ Awaiting' = Awaiting
        /\ Pending(buff)' = Pending(buff) /\ Over' = Over /\ Old' = Old /\ Late' = Late
        /\ Fresh' = Fresh /\ Skipping' = Skipping /\ Repaired(tgl)' = Repaired(tgl) /\ Reverted' = Reverted
    BY <1>2, <2>1 DEF Lost, Repeated, NextToggle, Awaiting, Pending, Over, Old, Late, Fresh, Skipping,
       Repaired, Reverted
  <2>3. IntrInv'
    <3>1. IntrDue' = IntrDue /\ Copies' = Copies
      BY <2>1, <2>2 DEF IntrDue, Copies
    <3>2. RepeatDueIn' = RepeatDueIn /\ IntrShape' = IntrShape
      BY <2>1, <2>2, <3>1 DEF RepeatDueIn, IntrShape
    <3>3. QED
      BY <1>2, <2>1, <2>2, <3>1, <3>2 DEF CostInv, IntrInv
  <2>4. BulkInv'
    BY <1>2, <2>1, <2>2 DEF CostInv, BulkInv
  <2>5. OutLossInv'
    <3>1. OutDue' = OutDue /\ OutMore' = OutMore /\ RepeatsOld' = RepeatsOld
      BY <2>1, <2>2 DEF OutDue, OutMore, RepeatsOld
    <3>2. RepeatDueOut' = RepeatDueOut /\ OutShape' = OutShape
      BY <2>1, <2>2, <3>1 DEF RepeatDueOut, OutShape
    <3>3. QED
      BY <1>2, <2>1, <2>2, <3>1, <3>2 DEF CostInv, OutLossInv
  <2>6. QED
    BY <2>3, <2>4, <2>5 DEF CostInv
<1>4. CASE Next
  <2>1. IntrInv'
    <3>1. CASE IsIntr
      BY <1>1, <1>2, <1>4, <3>1, IntrStep DEF CostInv
    <3>2. CASE ~IsIntr
      BY <1>2, <3>2 DEF IntrInv
    <3>3. QED
      BY <3>1, <3>2
  <2>2. BulkInv'
    <3>1. CASE IsIn /\ ~IsIntr /\ ep.faults \subseteq Bearable
      BY <1>1, <1>4, <3>1, BulkStep DEF CostInv
    <3>2. CASE ~(IsIn /\ ~IsIntr /\ ep.faults \subseteq Bearable)
      BY <1>2, <3>2 DEF BulkInv
    <3>3. QED
      BY <3>1, <3>2
  <2>3. OutLossInv'
    <3>1. CASE ~IsIn
      BY <1>1, <1>2, <1>4, <3>1, OutStep DEF CostInv
    <3>2. CASE IsIn
      BY <1>2, <3>2 DEF OutLossInv
    <3>3. QED
      BY <3>1, <3>2
  <2>4. QED
    BY <2>1, <2>2, <2>3 DEF CostInv
<1>5. QED
  BY <1>3, <1>4

(* However many faults there are, and when: each costs at most one packet and
   repeats at most one, once.  It rests on the repair FreeChannel makes, on the
   halt it asks for after an error, and on the toggle an OUT request flips only
   when it has been answered. *)
THEOREM LossesBounded == Spec => []LossBounded
<1>1. IInv /\ CostInv => LossBounded
  <2> SUFFICES ASSUME IInv, CostInv, ep.faults \subseteq Bearable PROVE FaultCost
    BY DEF LossBounded
  <2>1. /\ Cardinality(Lost) \in Nat /\ Cardinality(Repeated) \in Nat /\ faults \in Nat
        /\ \A k \in 1 .. N : got[k] \in Nat
    BY Countable DEF IInv, TypeOK
  <2>2. CASE IsIntr
    <3>1. IntrDue \in Nat /\ RepeatDueIn \in Nat
      BY IntrDueType DEF IInv, RepeatDueIn, Bit
    <3>2. QED
      BY <2>1, <2>2, <3>1 DEF CostInv, IntrInv, FaultCost
  <2>3. CASE IsIn /\ ~IsIntr
    <3>1. /\ Cardinality(Lost) + Bit(Late) <= faults /\ Bit(Late) \in Nat
          /\ \A k \in 1 .. N : got[k] <= 1
      BY <2>3 DEF CostInv, BulkInv, Bit
    <3>2. Repeated = {} /\ Cardinality({}) = 0
      BY <2>1, <3>1, FS_EmptySet DEF Repeated
    <3>3. QED
      BY <2>1, <3>1, <3>2 DEF FaultCost
  <2>4. CASE ~IsIn
    <3>1. OutDue \in Nat /\ RepeatDueOut \in Nat
      BY OutTypes DEF RepeatDueOut, Bit
    <3>2. QED
      BY <2>1, <2>4, <3>1 DEF CostInv, OutLossInv, FaultCost
  <2>5. QED
    BY <2>2, <2>3, <2>4
<1>2. Spec => []CostInv
  BY CostInit, CostStep, PipeInvariance, PTL DEF Spec
<1>3. QED
  BY <1>1, <1>2, PipeInvariance, PTL
=============================================================================
