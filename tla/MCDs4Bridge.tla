---------------------------- MODULE MCDs4Bridge ----------------------------
(* One controller and one console, a dongle with two ACL buffers.  A behaviour
   has one of the budgets, so that the faults of links and channels, the
   spurious answers of the start-up and the flow of reports are each explored
   in full without being multiplied with one another. *)
EXTENDS Ds4Bridge

CONSTANTS ds4, ps4

MCPeers == {ds4, ps4}
Budget(f, g, n, d, fl) ==
  [faults |-> [p \in MCPeers |-> IF p = ds4 THEN f ELSE g], nops |-> n, data |-> d,
   flows |-> fl]
MCBudgets == {Budget(1, 0, 0, 0, {}), Budget(0, 2, 0, 0, {}), Budget(0, 0, 2, 0, {}),
              Budget(0, 0, 0, 5, {"ds2psIntr"}), Budget(0, 0, 0, 1, Queues),
              Budget(0, 1, 0, 2, {"ds2psIntr"}), Budget(1, 0, 0, 1, {"ps2dsIntr"})}
=============================================================================
