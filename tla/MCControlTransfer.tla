------------------------- MODULE MCControlTransfer -------------------------
(* Polling callers (the enumeration) on a bus with the errors their retries
   and timeouts make good, and blocking callers (the class drivers), first
   with refusals only and then with every fault. *)
EXTENDS ControlTransfer

Client(b, f, m) == [blocking |-> b, faults |-> f, max |-> m]
MCClients == {Client(FALSE, {"nak", "xactIn", "xactSetup", "slow"}, 4),
              Client(TRUE, {"nak", "stall"}, 3),
              Client(TRUE, AllFaults, 2)}

(* The enumeration of a device that refuses a request. *)
MCRefused == {Client(FALSE, {"stall"}, 1)}
=============================================================================
