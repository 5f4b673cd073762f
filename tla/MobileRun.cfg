SPECIFICATION Spec
CONSTANT MaxCores = 3
INVARIANTS TypeOK UpMeansServed DownMeansStopped
PROPERTIES ReaderReachesNode NoCrashInService
CHECK_DEADLOCK FALSE
