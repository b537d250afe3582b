-------------------------- MODULE VirtualEndpoints --------------------------
(***************************************************************************)
(* What the DevIO layer promises an endpoint to which it lends a host      *)
(* channel: as far as the endpoint can tell, the channel is its own.  Its  *)
(* data toggle stays where it left it, and moves only when it submits a    *)
(* transfer, at most once when a transfer it submitted on this loan ends,  *)
(* and when a toggle error reported on a loan is repaired as the loan      *)
(* ends.  The promise holds until the layer is broken.                     *)
(***************************************************************************)
EXTENDS Integers

CONSTANT Eps               \* endpoints (USBH_DevIO_t objects)

VARIABLES alive,           \* alive[e]: a driver has the endpoint object
          lent,            \* lent[e]: it has a channel
          busy,            \* busy[e]: a transfer of e on this loan may end
          fault,           \* fault[e]: a toggle error was reported on the loan
          toggle,          \* toggle[e]: PID parity of e's next transfer
          broken           \* nothing is promised any more

evars == <<alive, lent, busy, fault, toggle>>
vvars == <<evars, broken>>

VInit == /\ alive  = [e \in Eps |-> FALSE]
         /\ lent   = [e \in Eps |-> FALSE]
         /\ busy   = [e \in Eps |-> FALSE]
         /\ fault  = [e \in Eps |-> FALSE]
         /\ toggle = [e \in Eps |-> 0]
         /\ broken = FALSE

(* A new endpoint starts with DATA0, with or without a channel of its own. *)
Attach(e, l) == /\ ~alive[e]
                /\ alive' = [alive EXCEPT ![e] = TRUE]
                /\ lent' = [lent EXCEPT ![e] = l]
                /\ UNCHANGED <<busy, fault, toggle>>

(* A loan starts with nothing under way. *)
Borrow(e) == /\ alive[e] /\ ~lent[e]
             /\ lent' = [lent EXCEPT ![e] = TRUE]
             /\ UNCHANGED <<alive, busy, fault, toggle>>

Start(e, flip) == /\ lent[e]
                  /\ busy' = [busy EXCEPT ![e] = TRUE]
                  /\ toggle' = [toggle EXCEPT ![e] = IF flip THEN 1 - @ ELSE @]
                  /\ UNCHANGED <<alive, lent, fault>>

End(e) == /\ lent[e] /\ busy[e]
          /\ busy' = [busy EXCEPT ![e] = FALSE]
          /\ toggle' = [toggle EXCEPT ![e] = 1 - @]
          /\ UNCHANGED <<alive, lent, fault>>

Report(e, f) == /\ lent[e]
                /\ fault' = [fault EXCEPT ![e] = f]
                /\ UNCHANGED <<alive, lent, busy, toggle>>

Return(e) == /\ lent[e]
             /\ lent' = [lent EXCEPT ![e] = FALSE]
             /\ busy' = [busy EXCEPT ![e] = FALSE]
             /\ toggle' = [toggle EXCEPT ![e] = IF fault[e] THEN 1 - @ ELSE @]
             /\ fault' = [fault EXCEPT ![e] = FALSE]
             /\ UNCHANGED alive

(* Unplugging forgets every endpoint of the device. *)
Detach(S) == /\ alive'  = [e \in Eps |-> alive[e] /\ e \notin S]
             /\ lent'   = [e \in Eps |-> lent[e] /\ e \notin S]
             /\ busy'   = [e \in Eps |-> busy[e] /\ e \notin S]
             /\ fault'  = [e \in Eps |-> fault[e] /\ e \notin S]
             /\ toggle' = [e \in Eps |-> IF e \in S THEN 0 ELSE toggle[e]]

VStep == \/ \E e \in Eps : Borrow(e) \/ End(e) \/ Return(e)
         \/ \E e \in Eps, b \in BOOLEAN : Attach(e, b) \/ Start(e, b) \/ Report(e, b)
         \/ \E S \in SUBSET Eps : Detach(S)

VNext == broken' \/ (~broken /\ UNCHANGED broken /\ VStep)

VSpec == VInit /\ [][VNext]_vvars
=============================================================================
