----------------------------- MODULE AdminClient -----------------------------
(***************************************************************************)
(* The control program, cmd/yggdrasilctl: it chooses an endpoint from the   *)
(* command line, the platform's configuration file or the default, dials    *)
(* it, sends one request, waits for the answer without a timeout, prints it *)
(* and exits.  The daemon at the other end may be absent, refuse, close the *)
(* connection before or after it has done what was asked, or never answer.  *)
(* A panic in run() is recovered by its deferred function.                  *)
(***************************************************************************)
CONSTANTS
  Default,       \* the platform's admin endpoint, and default of -endpoint
  Endpoints,     \* the endpoints that a daemon may listen on
  Bare,          \* those written as an address and a port, which is no URL
  Unsupported    \* a URL that is neither tcp nor unix

ASSUME EndpointAssumption ==
  /\ Default \in Endpoints \ Bare
  /\ Unsupported \notin Endpoints

VARIABLES
  command,      \* the command line
  configFile,   \* the platform's configuration file, as setEndpoint finds it
  pc,           \* where run() is
  endpoint,     \* cmdLineEnv.endpoint
  request,      \* the command sent, or Nothing
  reply,        \* the daemon's: Nothing, or what the decoder gets
  conn,         \* the connection: "none", "refused", "open" or "lost"
  listening,    \* the endpoints with a daemon
  applied,      \* the daemon has done what the request asked
  output,       \* what the program printed: Nothing, "version", "usage", "result", "error", "fatal"
  exitCode      \* Running until the program has exited

clientVars == <<command, configFile, pc, endpoint, request, reply, conn,
                listening, applied, output, exitCode>>

Nothing == "nothing"
Running == 2     \* no exit code of run(): flag.Parse() uses it

\* The parts of a command line that run() tells apart.  A first argument that
\* begins with "-" is ignored and leaves the request's name empty; a command is
\* one whose response is laid out in a table, or one whose response is printed
\* as it is or not at all (addpeer, removepeer and the unknown ones).
Commands == [version : BOOLEAN,
             server : Endpoints \cup {Unsupported},   \* -endpoint or its default
             json : BOOLEAN,
             args : {"none", "flag", "table", "raw"}]

\* A file that does not exist, does not parse, or has this AdminListen.
ConfigFiles == {"missing", "broken", "none"} \cup Endpoints \cup {Unsupported}

\* "garbled" is no reply at all to the decoder; "odd" is one whose response is not
\* of the type that the command promises.
Replies == {"success", "odd", "garbled", "error"}

ClientTypeOK ==
  /\ command \in Commands
  /\ configFile \in ConfigFiles
  /\ pc \in {"parse", "endpoint", "dial", "send", "receive", "panicking", "exited"}
  /\ endpoint \in Endpoints \cup {Unsupported}
  /\ request \in {Nothing, "unnamed", "table", "raw"}
  /\ reply \in {Nothing} \cup Replies
  /\ conn \in {"none", "refused", "open", "lost"}
  /\ listening \in SUBSET Endpoints
  /\ applied \in BOOLEAN
  /\ output \in {Nothing, "version", "usage", "result", "error", "fatal"}
  /\ exitCode \in {0, 1, Running}

ClientInit ==
  /\ command \in Commands
  /\ configFile \in ConfigFiles
  /\ pc = "parse"
  /\ endpoint = Default
  /\ request = Nothing
  /\ reply = Nothing
  /\ conn = "none"
  /\ listening \in SUBSET Endpoints
  /\ applied = FALSE
  /\ output = Nothing
  /\ exitCode = Running

-----------------------------------------------------------------------------
(* The client.                                                              *)

ExitWith(code, printed) ==
  /\ pc' = "exited"
  /\ exitCode' = code
  /\ output' = printed

GoOn(next) == pc' = next /\ UNCHANGED <<exitCode, output>>

ParseFlagsAndArgs ==
  /\ pc = "parse"
  /\ CASE command.version -> ExitWith(0, "version")
       [] ~command.version /\ command.args = "none" -> ExitWith(0, "usage")
       [] OTHER -> GoOn("endpoint")
  /\ UNCHANGED <<command, configFile, endpoint, request, reply, conn, listening, applied>>

\* Mutant: what the configuration file says is taken unchecked.
SetEndpointUnchecked ==
  /\ pc = "endpoint"
  /\ endpoint' = IF command.server # Default THEN command.server ELSE configFile
  /\ GoOn("dial")
  /\ UNCHANGED <<command, configFile, request, reply, conn, listening, applied>>

\* An -endpoint that equals the default cannot be told from none at all.
SetEndpoint ==
  /\ pc = "endpoint"
  /\ IF command.server # Default
     THEN endpoint' = command.server /\ GoOn("dial")
     ELSE CASE configFile = "broken" -> GoOn("panicking") /\ UNCHANGED endpoint
            [] configFile \in {"missing", "none"} -> GoOn("dial") /\ UNCHANGED endpoint
            [] OTHER -> endpoint' = configFile /\ GoOn("dial")
  /\ UNCHANGED <<command, configFile, request, reply, conn, listening, applied>>

\* For a text that is no URL the parser's result is nil: the log line reads its
\* Host and panics before the dial.
DialsNothing ==
  /\ pc = "dial"
  /\ endpoint \in Bare
  /\ GoOn("panicking")
  /\ UNCHANGED <<command, configFile, endpoint, request, reply, conn, listening, applied>>

Dial ==
  /\ pc = "dial"
  /\ endpoint \notin Bare
  /\ IF endpoint \in listening
     THEN conn' = "open" /\ GoOn("send")
     ELSE conn' = "refused" /\ GoOn("panicking")
  /\ UNCHANGED <<command, configFile, endpoint, request, reply, listening, applied>>

\* Writing to a connection that is lost may fail or go unnoticed.
Send ==
  /\ pc = "send"
  /\ \/ /\ request' = IF command.args = "flag" THEN "unnamed" ELSE command.args
        /\ GoOn("receive")
     \/ conn = "lost" /\ UNCHANGED request /\ GoOn("panicking")
  /\ UNCHANGED <<command, configFile, endpoint, reply, conn, listening, applied>>

Closed == reply = Nothing /\ conn = "lost"

\* Only a table needs the response to be what it should; -json prints anything.
Printable == reply = "success" \/ (reply = "odd" /\ (command.json \/ request # "table"))

\* Mutant: the reply's status is not looked at.
ReceiveAnything ==
  /\ pc = "receive"
  /\ \/ Closed /\ GoOn("panicking")
     \/ reply # Nothing /\ ExitWith(0, "result")
  /\ UNCHANGED <<command, configFile, endpoint, request, reply, conn, listening, applied>>

\* Mutant: a failure to read the answer is an error of the daemon's.
ReceiveBlaming ==
  /\ pc = "receive"
  /\ \/ (Closed \/ (reply # Nothing /\ ~Printable)) /\ ExitWith(1, "error")
     \/ Printable /\ ExitWith(0, "result")
  /\ UNCHANGED <<command, configFile, endpoint, request, reply, conn, listening, applied>>

\* Mutant: the program goes on reading when the connection has been closed.
ReceiveForever ==
  /\ pc = "receive"
  /\ \/ reply \in {"odd", "garbled"} /\ ~Printable /\ GoOn("panicking")
     \/ reply = "error" /\ ExitWith(1, "error")
     \/ Printable /\ ExitWith(0, "result")
  /\ UNCHANGED <<command, configFile, endpoint, request, reply, conn, listening, applied>>

\* A response that does not fit into the table panics too.
Receive ==
  /\ pc = "receive"
  /\ \/ Closed /\ GoOn("panicking")
     \/ reply \in {"odd", "garbled"} /\ ~Printable /\ GoOn("panicking")
     \/ reply = "error" /\ ExitWith(1, "error")
     \/ Printable /\ ExitWith(0, "result")
  /\ UNCHANGED <<command, configFile, endpoint, request, reply, conn, listening, applied>>

\* The deferred function recovers and returns 1, but a deferred function's
\* result is discarded: run() returns its zero value.
Recover ==
  /\ pc = "panicking"
  /\ ExitWith(0, "fatal")
  /\ UNCHANGED <<command, configFile, endpoint, request, reply, conn, listening, applied>>

Client ==
  \/ ParseFlagsAndArgs \/ SetEndpoint \/ DialsNothing \/ Dial \/ Send \/ Receive \/ Recover

-----------------------------------------------------------------------------
(* The daemons.                                                             *)

Awaiting == request # Nothing /\ reply = Nothing /\ conn = "open"

\* The daemon carries a command out; it knows none with an empty name.
Apply ==
  /\ Awaiting /\ ~applied
  /\ request # "unnamed"
  /\ applied' = TRUE
  /\ UNCHANGED <<command, configFile, pc, endpoint, request, reply, conn,
                 listening, output, exitCode>>

\* Its answer; it may also answer in a form the client does not expect.
Answer ==
  /\ Awaiting
  /\ reply' \in IF applied THEN {"success", "odd", "garbled"} ELSE {"error"}
  /\ UNCHANGED <<command, configFile, pc, endpoint, request, conn, listening,
                 applied, output, exitCode>>

\* A daemon exits and closes its connections, before or after it has answered.
DaemonStops(e) ==
  /\ e \in listening
  /\ listening' = listening \ {e}
  /\ conn' = IF conn = "open" /\ e = endpoint THEN "lost" ELSE conn
  /\ UNCHANGED <<command, configFile, pc, endpoint, request, reply, applied,
                 output, exitCode>>

DaemonStarts(e) ==
  /\ e \notin listening
  /\ listening' = listening \cup {e}
  /\ UNCHANGED <<command, configFile, pc, endpoint, request, reply, conn,
                 applied, output, exitCode>>

Daemon == Apply \/ Answer \/ \E e \in Endpoints : DaemonStops(e) \/ DaemonStarts(e)

ClientNext == Client \/ Daemon

ClientSpec == ClientInit /\ [][ClientNext]_clientVars

\* The client runs; the daemon answers what it has received, or goes away.
FairClientSpec == ClientSpec /\ WF_clientVars(Client) /\ WF_clientVars(Answer)

-----------------------------------------------------------------------------
(* Properties.                                                              *)

\* What the program reports is what happened, the daemon's stopping or restarting
\* during the exchange included (main.go:107-279): a result on the screen is a
\* request carried out; the exit code 1 is a request refused and not carried out,
\* so the command may be given again.
ReportIsTrue ==
  /\ output = "result" => applied /\ exitCode = 0
  /\ exitCode = 1 => ~applied /\ output = "error"

\* The program ends, though it has no timeout: whatever the daemon does while
\* the connection lasts ends in an answer or in its end.
ClientEnds == <>(pc = "exited")

\* "makes sure we can use defer and still return an error code to the OS"
\* (main.go:25): an exit code of 0 means that nothing went wrong.
SuccessCodeMeansSuccess == exitCode = 0 => output # "fatal"
=============================================================================
