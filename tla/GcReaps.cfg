SPECIFICATION GFairSpec
CONSTANTS
  Guest = {g1}
  g1 = g1
  g2 = g2
  l1 = l1
  Lxc = {}
  Lease = {l1}
  NoLease = NoLease
  Run = {r1, r2}
  AutoShutdown = TRUE
  Clear = 2
  Events = {"start", "stop", "config-error", "stop-error", "destroy-error", "gc-crash", "template", "renew-late", "create", "power-on"}
  MaxEvents = 2
  MaxTime = 3
  InitGuests <- Mixed
PROPERTIES ExpiredIsReaped
CHECK_DEADLOCK FALSE
