SPECIFICATION Spec
CONSTANTS
  NUMKEYS = 3
  MaxHash = 3
  Width = 5
  Batch = 2
  MaxTests = 8
INVARIANTS TypeOK RowsAreKeys BestAreKept PrintsOnlyKeys RowsAreUnrelated
\* The program ends; MaxTests cuts a search short.
CHECK_DEADLOCK FALSE
