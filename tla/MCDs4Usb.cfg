SPECIFICATION Spec
CONSTANTS
  ps4a = ps4a
  ps4b = ps4b
  Consoles <- MCConsoles
  None = None
  Unread = Unread
  Budgets <- MCBudgets
INVARIANTS CallsPaired ConfiguredOpen ServedSaved ToldTrue
PROPERTIES Corrected Introduced
CHECK_DEADLOCK FALSE
