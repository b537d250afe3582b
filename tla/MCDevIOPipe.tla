---------------------------- MODULE MCDevIOPipe ----------------------------
(* The kinds of endpoint the class drivers create: interrupt IN (hub, HID, HCI
   events) with a borrowed channel, bulk IN and bulk OUT (HCI data) with a
   channel of their own. *)
EXTENDS DevIOPipe

Endpoint(t, d, lent, f, m) ==
  [type |-> t, dir |-> d, asNeeded |-> lent, faults |-> f, max |-> m]

MCEndpoints ==
  {Endpoint("INTR", "IN", TRUE, {"nak", "ackLost"}, 3),
   Endpoint("INTR", "IN", TRUE, AllFaults, 2),
   Endpoint("BULK", "IN", FALSE, {"nak", "xacterr", "stall"}, 3),
   Endpoint("BULK", "IN", FALSE, {"nak", "xacterr", "timeout"}, 2),
   Endpoint("BULK", "OUT", FALSE, {"nak", "ackLost", "xacterr", "stall"}, 3)}

(* The bulk IN endpoint on a bus that may lose one acknowledgement. *)
MCLostAck == {Endpoint("BULK", "IN", FALSE, {"nak", "ackLost"}, 1)}
=============================================================================
