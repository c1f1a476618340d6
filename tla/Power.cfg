SPECIFICATION PFairSpec
CONSTANTS
  Lease = {l1, l2}
  LongTerm = {l2}
  NoLease = NoLease
  Guest = {g1, g2, g3}
  l1 = l1
  l2 = l2
  g1 = g1
  g2 = g2
  g3 = g3
  Infra = {g3}
  Owned <- OneEach
  Actor = {a1}
  AutoShutdown = TRUE
  MinFailures = 2
  Window = 2
  Timeout = 4
  MaxLost = 3
PROPERTIES NeverUnderRunning OtherLeasesKeepHostOn VerifiedMeansDown IdleHostGoesOff
