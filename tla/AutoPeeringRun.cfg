SPECIFICATION FairSpec
CONSTANTS
  PublicPeers = {pub}
  Neighbours = {conf, ll}
  LinkLocal = {ll}
  AutopeerTimeout = 6
  PeerCheckTimeout = 2
  DialTimeout = 1
  pub = pub
  conf = conf
  ll = ll
INVARIANTS TypeOK StopMissesOnlyByRace LonelyNodeProbes StaleScanBounded
PROPERTIES PacedCaller KeepsProbing
CHECK_DEADLOCK TRUE
