\* Two PeerNodes that may share an address, all interleavings of membership
\* changes, polls and the downtime goroutine.
CONSTANTS
  n1 = n1  n2 = n2  a1 = a1
  PeerNodes = {n1, n2}
  Addresses = {a1}
  NoAddress = NoAddress
  UnhealthyThreshold = 2
  MaxPending = 2
SPECIFICATION HealthFairSpec
INVARIANTS UnhealthyAfterThreshold OneOpenInterval
PROPERTIES RemovalOutlastsRound DeadPeerExcluded RecoveredPeerReturns
