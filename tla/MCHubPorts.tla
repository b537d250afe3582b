----------------------------- MODULE MCHubPorts -----------------------------
(* One hub with two ports; and a hub with a free port next to a second hub,
   which has one port of its own. *)
EXTENDS HubPorts

OneHub == [p \in 1 .. 2 |-> "hub"]
OneOuter == [h \in {"hub"} |-> h]

TwoHubs == <<"hub", "inner">>
TwoOuter == [h \in {"hub", "inner"} |-> "hub"]
=============================================================================
