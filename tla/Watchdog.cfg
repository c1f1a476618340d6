SPECIFICATION FairSpec
CONSTANTS
  Lease = {l1}
  LongTerm = {}
  Guest = {g1}
  g1 = g1
  g2 = g2
  Actor = {a1, a2}
  Commands <- WatchdogCommands
  Policies = {"disposable"}
  InitGuest <- AllRunning
  InitTemplate = {}
  TTL = 1
  MaxTime = 4
  MaxErrors = 1
  MaxCrashes = 1
  NoLease = NoLease
  NoGuest = NoGuest
PROPERTIES ExpiredIsClosed
