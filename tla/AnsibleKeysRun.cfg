SPECIFICATION Spec
CONSTANTS
  MaxHosts = 3
  MaxTries = 5
  Ranks = {1, 2, 3, 4, 5}
  Absent = Absent
  Earlier = Earlier
  Torn = Torn
INVARIANTS TypeOK BestKeyTaken HostsHaveOwnPairs
CHECK_DEADLOCK FALSE
