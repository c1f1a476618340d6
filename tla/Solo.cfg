SPECIFICATION Spec
CONSTANTS
  Lease = {l1, l2}
  LongTerm = {l2}
  Guest = {g1, g2}
  g1 = g1
  g2 = g2
  Actor = {a1}
  Commands <- SoloCommands
  Policies = {"disposable", "retain"}
  InitGuest <- OneTemplate
  InitTemplate = {g2}
  TTL = 1
  MaxTime = 3
  MaxErrors = 1
  MaxCrashes = 0
  NoLease = NoLease
  NoGuest = NoGuest
INVARIANTS StampsMatchKind
PROPERTIES EndedLeftNothing
