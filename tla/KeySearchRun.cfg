SPECIFICATION FairSpec
CONSTANTS
  Threads = {t1, t2, t3}
  Capacity = 3
  KeySize = 2
  MaxByte = 1
  t1 = t1
  t2 = t2
  t3 = t3
INVARIANTS TypeOK NoKeyLost SettlesOnBest
PROPERTIES FoundKeyIsPrinted
