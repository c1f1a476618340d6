SPECIFICATION LgSpec
CONSTANTS
  Lease = {l1}
  LongTerm = {}
  Guest = {g1}
  g1 = g1
  g2 = g2
  Actor = {a1}
  Commands <- ExpiryCommands
  Policies = {"disposable"}
  InitGuest <- AllRunning
  InitTemplate = {}
  TTL = 1
  MaxTime = 4
  MaxErrors = 2
  MaxCrashes = 0
  NoLease = NoLease
  NoGuest = NoGuest
  Run = {r1}
PROPERTIES RacingSweepIsHarmless GoneIsSuccess
