SPECIFICATION FairClientSpec
CONSTANTS
  Default = "unix"
  Endpoints = {"unix", "tcp", "bare"}
  Bare = {"bare"}
  Unsupported = "udp"
INVARIANTS ClientTypeOK ReportIsTrue
PROPERTY ClientEnds
\* The program exits; the daemons may do nothing more.
CHECK_DEADLOCK FALSE
