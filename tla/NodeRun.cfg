SPECIFICATION Spec
CONSTANTS
  PublicPeers = {pub}
  Neighbours = {}
  LinkLocal = {}
  AutopeerTimeout = 1
  PeerCheckTimeout = 1
  DialTimeout = 1
  pub = pub
INVARIANTS TypeOK UsersStopBeforeCore LateUseIsExplained SocketClosesFirst OneShotsStartNothing
PROPERTY GracefulExit

\* The process ends: a state without a successor is not a deadlock.
CHECK_DEADLOCK FALSE
