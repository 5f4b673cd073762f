SPECIFICATION ClientSpec
CONSTANTS
  Default = "unix"
  Endpoints = {"unix", "tcp", "bare"}
  Bare = {"bare"}
  Unsupported = "udp"
INVARIANT SuccessCodeMeansSuccess
\* The program exits; the daemons may do nothing more.
CHECK_DEADLOCK FALSE
