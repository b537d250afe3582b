------------------------------ MODULE MCDs4Usb ------------------------------
(* Two consoles that take turns at the device port, and one controller.  A
   behaviour has one of the budgets: three moves between consoles, two faults,
   or a restart combined with either. *)
EXTENDS Ds4Usb

CONSTANTS ps4a, ps4b

MCConsoles == {ps4a, ps4b}
Budget(m, f, r) == [moves |-> m, faults |-> f, restarts |-> r]
MCBudgets == {Budget(3, 0, 0), Budget(0, 2, 0), Budget(1, 0, 1), Budget(0, 1, 1),
              Budget(1, 1, 0)}
=============================================================================
