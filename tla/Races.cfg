SPECIFICATION Spec
CONSTANTS
  Lease = {l1, l2}
  LongTerm = {l2}
  Guest = {g1}
  g1 = g1
  g2 = g2
  Actor = {a1, a2}
  Commands <- TeardownCommands
  Policies = {"disposable"}
  InitGuest <- AllRunning
  InitTemplate = {}
  TTL = 1
  MaxTime = 3
  MaxErrors = 2
  MaxCrashes = 0
  NoLease = NoLease
  NoGuest = NoGuest
INVARIANTS Inductive OneFinalizer EndingIsHeld TombstoneIsTruth
PROPERTIES TerminalIsFinal ImplementsLeaseSpec
