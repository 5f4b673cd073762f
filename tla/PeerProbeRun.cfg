SPECIFICATION FairSpec
CONSTANTS
  Count = 4
  Dialable = {1, 2, 4}
  Latencies = {1, 2}
  Limit = 2
INVARIANTS TypeOK EveryPeerHeardOnce ClosestAreBest
PROPERTY ImplementsOneProbe

