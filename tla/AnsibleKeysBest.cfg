SPECIFICATION Spec
CONSTANTS
  MaxHosts = 3
  MaxTries = 5
  Ranks = {1, 2, 3, 4, 5}
  Absent = Absent
  Earlier = Earlier
  Torn = Torn
INVARIANT TakesBestKeys
CHECK_DEADLOCK FALSE
