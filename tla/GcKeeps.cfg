SPECIFICATION GSpec
CONSTANTS
  Guest = {g1, g2}
  g1 = g1
  g2 = g2
  l1 = l1
  Lxc = {g2}
  Lease = {l1}
  NoLease = NoLease
  Run = {r1, r2}
  AutoShutdown = TRUE
  Clear = 2
  Events = {"start", "stop", "renew", "list-error", "destroy-error", "stop-error", "poweroff-error", "gc-crash"}
  MaxEvents = 1
  MaxTime = 4
  InitGuests <- Mixed
INVARIANTS OneReaper
PROPERTIES ReapsOnlyExpired PinnedKeepsHostOn
CHECK_DEADLOCK FALSE
