-------------------------------- MODULE Node --------------------------------
(***************************************************************************)
(* The life of the daemon: run() of cmd/yggdrasil/main.go and main()'s      *)
(* signal handling, composed with the autopeering module whose goroutine    *)
(* and timer run beside it.                                                 *)
(*                                                                         *)
(* run() gets its configuration, or answers a question and returns.  Then   *)
(* it brings the modules up one after the other, each of which may fail     *)
(* with a panic, then blocks until a signal has cancelled its context, and  *)
(* brings them down again.  When the process is gone, nothing moves.        *)
(***************************************************************************)
EXTENDS Naturals, Sequences

CONSTANTS
  PublicPeers, Neighbours, LinkLocal,
  AutopeerTimeout, PeerCheckTimeout, DialTimeout

VARIABLES
  \* the autopeering module, the core's peers and the clocks
  prompt, enabled, hadPeers, checkPeerTimer, timerState, timerLeft, loop, havePeers,
  dialLeft, pending, calls, stopper, peers, sinceFlip, sinceProbe, raced,
  \* run() and main()
  config,      \* how far run() is with its configuration
  args,        \* the flags that choose a mode, until they have been used
  oneShot,     \* the flags ask for an answer, not for a node
  line,        \* the call run() makes next: its place in Program
  handle,      \* the node struct: what each field refers to
  meshnameOn,  \* -meshname
  ctxDone,     \* the signal context is cancelled
  process,     \* "up", or how it ended
  handlers,    \* modules that have registered handlers on the admin socket
  leftover,    \* history: the calls still to be made when autopeering's Stop() began
  lateScan,    \* history: a check asked the core for its peers after core.Stop()
  lateCalls    \* history: the peers that the core was told to call after core.Stop()

ap == <<prompt, enabled, hadPeers, checkPeerTimer, timerState, timerLeft, loop,
        havePeers, dialLeft, pending, calls, stopper, peers, sinceFlip, sinceProbe, raced>>
mode == <<config, args, oneShot, meshnameOn>>
node == <<mode, line, handle, ctxDone, process, handlers>>
late == <<leftover, lateScan, lateCalls>>
vars == <<ap, node, late>>

AP == INSTANCE AutoPeering

ASSUME NodeAssumption ==
  /\ PublicPeers \cap Neighbours = {} /\ LinkLocal \subseteq Neighbours
  /\ AutopeerTimeout \in Nat /\ PeerCheckTimeout \in Nat \ {0} /\ DialTimeout \in Nat
  /\ DialTimeout <= AutopeerTimeout

Modules == {"core", "admin", "multicast", "tun", "meshname", "autopeering"}
StartOrder == <<"core", "admin", "multicast", "tun", "meshname", "autopeering">>

\* Mutants: the core stopped too early, the admin socket too late, a module forgotten.
StopOrderAdminLate == <<"multicast", "tun", "autopeering", "meshname", "admin", "core">>
StopOrderCoreEarly == <<"admin", "multicast", "core", "tun", "autopeering", "meshname">>
StopOrderForgetful == <<"admin", "multicast", "tun", "autopeering", "core">>
StopOrder == <<"admin", "multicast", "tun", "autopeering", "meshname", "core">>

\* The program: the modules to start, the wait for the context, those to stop.
Step(op, m) == [op |-> op, module |-> m]
Waits == Len(StartOrder) + 1
Returns == Waits + Len(StopOrder) + 1
Program ==
  [i \in 1 .. Returns - 1 |->
     IF i < Waits THEN Step("start", StartOrder[i])
     ELSE IF i = Waits THEN Step("wait", "core")
     ELSE Step("stop", StopOrder[i - Waits])]

At(op, m) ==
  /\ process = "up" /\ config = "done"
  /\ line \in DOMAIN Program /\ Program[line] = Step(op, m)

\* -version, -autoconf, -normaliseconf, -genconf, -address or -subnet, and
\* -useconf or -useconffile.
Args == [ver : BOOLEAN, autoconf : BOOLEAN, normalise : BOOLEAN, genconf : BOOLEAN,
         print : BOOLEAN, input : {"none", "stdin", "file"}]
NoArgs == [ver |-> FALSE, autoconf |-> FALSE, normalise |-> FALSE, genconf |-> FALSE,
           print |-> FALSE, input |-> "none"]

\* -normaliseconf goes with an input and -genconf without one; -autoconf comes
\* before both.
OneShot(a) ==
  \/ a.ver \/ a.print
  \/ ~a.autoconf /\ (IF a.input = "none" THEN a.genconf ELSE a.normalise)

TypeOK ==
  /\ AP!TypeOK
  /\ line \in 1 .. Returns
  /\ config # "done" => line = 1
  /\ handle \in [Modules -> {"unset", "nil", "live", "stopped"}]
  /\ config \in {"choose", "stdin", "file", "key", "done"}
  /\ args \in Args
  /\ {oneShot, meshnameOn, ctxDone} \subseteq BOOLEAN
  /\ process \in {"up", "exited", "panicked", "killed"}
  /\ handlers \in SUBSET {"admin", "multicast", "tun"}
  /\ lateScan \in BOOLEAN
  /\ {leftover, lateCalls} \subseteq SUBSET PublicPeers

Init ==
  /\ AP!Init /\ ~prompt     \* a late machine does all that a prompt one does
  /\ line = 1
  /\ handle = [m \in Modules |-> "unset"]
  /\ config = "choose"
  /\ args \in Args
  /\ oneShot = OneShot(args)
  /\ meshnameOn \in BOOLEAN
  /\ ctxDone = FALSE
  /\ process = "up"
  /\ handlers = {}
  /\ leftover = {} /\ lateScan = FALSE /\ lateCalls = {}

-----------------------------------------------------------------------------
(* The configuration, or an answer.                                         *)

Return == config' = "done" /\ line' = Returns
Continue(at) == config' = at /\ UNCHANGED line
Panic == process' = "panicked" /\ UNCHANGED <<config, line>>

\* The first flag in this order decides.  Without any, the flags are listed and
\* there is no configuration; genconf is the same but for what it prints.
ChooseMode ==
  /\ process = "up" /\ config = "choose"
  /\ IF args.ver THEN Return
     ELSE IF args.autoconf THEN Continue("key")
     ELSE IF args.input # "none" THEN Continue(args.input)
     ELSE Return
  /\ UNCHANGED <<ap, args, oneShot, handle, meshnameOn, ctxDone, process, handlers, late>>

\* readConfig panics for what it cannot read, decode or parse.
ReadConfig(source) ==
  /\ process = "up" /\ config = source
  /\ \/ (IF args.normalise THEN Return ELSE Continue("key")) /\ UNCHANGED process
     \/ Panic
  /\ UNCHANGED <<ap, args, oneShot, handle, meshnameOn, ctxDone, handlers, late>>

\* Mutant: the address is printed and the node started as well.
AnswerAndGoOn ==
  /\ process = "up" /\ config = "key"
  /\ Continue("done") /\ args' = NoArgs
  /\ UNCHANGED <<ap, oneShot, handle, meshnameOn, ctxDone, process, handlers, late>>

\* -address and -subnet print, or panic over a key that is too short.
AnswerKey ==
  /\ process = "up" /\ config = "key" /\ args.print
  /\ \/ Return /\ UNCHANGED process
     \/ Panic
  /\ UNCHANGED <<ap, args, oneShot, handle, meshnameOn, ctxDone, handlers, late>>

HaveConfig ==
  /\ process = "up" /\ config = "key" /\ ~args.print
  /\ Continue("done") /\ args' = NoArgs
  /\ UNCHANGED <<ap, oneShot, handle, meshnameOn, ctxDone, process, handlers, late>>

\* -useconf reads to the end of the standard input.
StdinEnds == ReadConfig("stdin")

Configure == ChooseMode \/ ReadConfig("file") \/ AnswerKey \/ HaveConfig

-----------------------------------------------------------------------------
(* Bringing the modules up.                                                 *)

Started(m, result) ==
  /\ handle' = [handle EXCEPT ![m] = result]
  /\ line' = line + 1

StartCore ==
  /\ At("start", "core")
  /\ Started("core", "live")
  /\ UNCHANGED <<ap, mode, ctxDone, process, handlers, late>>

\* Mutant: handlers are registered without looking for nil.
StartOptionalUnchecked(m) ==
  /\ At("start", m)
  /\ \E result \in {"live", "nil"} : Started(m, result)
  /\ handlers' = handlers \cup {m}
  /\ UNCHANGED <<ap, mode, ctxDone, process, late>>

\* New() of these three may return nil without an error, and run() looks: it
\* registers handlers only for what exists, on an admin socket that exists.
StartOptional(m) ==
  /\ At("start", m)
  /\ \E result \in {"live", "nil"} :
       /\ Started(m, result)
       /\ handlers' = IF handle'["admin"] = "live" /\ result = "live"
                      THEN handlers \cup {m} ELSE handlers
  /\ UNCHANGED <<ap, mode, ctxDone, process, late>>

\* The server is made by Init() in any case and started only with -meshname.
StartMeshname ==
  /\ At("start", "meshname")
  /\ Started("meshname", IF meshnameOn THEN "live" ELSE "unset")
  /\ UNCHANGED <<ap, mode, ctxDone, process, handlers, late>>

StartAutopeering ==
  /\ At("start", "autopeering")
  /\ Started("autopeering", "live")
  /\ AP!Start
  /\ UNCHANGED <<mode, ctxDone, process, handlers, late>>

\* core.New, the other constructors and meshname's Start() can fail; the
\* panic ends the process with whatever was already running.
StartFails ==
  /\ \E m \in Modules \ {"autopeering"} :
       At("start", m) /\ (m = "meshname" => meshnameOn)
  /\ process' = "panicked"
  /\ UNCHANGED <<ap, line, handle, mode, ctxDone, handlers, late>>

-----------------------------------------------------------------------------
(* Signals, and the wait for them.                                          *)

\* SIGINT, SIGTERM or the Windows service manager, at any time and repeatedly.
Interrupt ==
  /\ process = "up"
  /\ ctxDone' = TRUE
  /\ UNCHANGED <<ap, line, handle, mode, process, handlers, late>>

\* SIGHUP is not among the signals of NotifyContext: its default action stands.
Hangup ==
  /\ process = "up"
  /\ process' = "killed"
  /\ UNCHANGED <<ap, line, handle, mode, ctxDone, handlers, late>>

ContextDone ==
  /\ At("wait", "core")
  /\ ctxDone
  /\ line' = line + 1
  /\ UNCHANGED <<ap, handle, mode, ctxDone, process, handlers, late>>

-----------------------------------------------------------------------------
(* Bringing them down.  Stop() of a nil module or of one that was never     *)
(* started does nothing.                                                    *)

Stopped(m) ==
  /\ handle' = [handle EXCEPT ![m] = IF @ = "live" THEN "stopped" ELSE @]
  /\ line' = line + 1

\* Closing the admin socket takes no handler back: a connection that it has
\* accepted may go on for all that this code does.
StopModule(m) ==
  /\ At("stop", m)
  /\ m \notin {"autopeering", "core"}
  /\ Stopped(m)
  /\ UNCHANGED <<ap, mode, ctxDone, process, handlers, late>>

\* Both steps of the module's Stop(); run() goes on when it has returned.
StopAutopeering ==
  /\ At("stop", "autopeering")
  /\ \/ AP!StopReads /\ leftover' = pending
     \/ AP!StopStopsTimer /\ UNCHANGED leftover
  /\ IF stopper' = "done" THEN Stopped("autopeering") ELSE UNCHANGED <<handle, line>>
  /\ UNCHANGED <<mode, ctxDone, process, handlers, lateScan, lateCalls>>

\* run() and then main() return after core.Stop(): the process exits.
StopCore ==
  /\ At("stop", "core")
  /\ Stopped("core")
  /\ UNCHANGED <<ap, mode, ctxDone, process, handlers, late>>

Exit ==
  /\ process = "up" /\ config = "done"
  /\ line = Returns
  /\ process' = "exited"
  /\ UNCHANGED <<ap, line, handle, mode, ctxDone, handlers, late>>

Run ==
  \/ Configure
  \/ StartCore \/ \E m \in {"admin", "multicast", "tun"} : StartOptional(m)
  \/ StartMeshname \/ StartAutopeering \/ StartFails
  \/ ContextDone
  \/ \E m \in Modules : StopModule(m)
  \/ StopAutopeering \/ StopCore \/ Exit

-----------------------------------------------------------------------------
(* What runs beside run(), until the process is gone: the check loop, the    *)
(* goroutines of its calls, the core and the clock.                         *)

CoreStopped == handle["core"] = "stopped"

\* GetPeers in ScanPeers uses the core.  What the core's peers do while it is
\* being stopped and afterwards is not known.
Background ==
  /\ process = "up"
  /\ \/ /\ AP!CheckPeerLoop
        /\ lateScan' = (lateScan \/ (AP!ScanPeers /\ CoreStopped))
        /\ UNCHANGED lateCalls
     \/ \E p \in PublicPeers :
          /\ AP!CallPeer(p)
          /\ lateCalls' = IF CoreStopped THEN lateCalls \cup {p} ELSE lateCalls
          /\ UNCHANGED lateScan
     \/ handle["core"] # "unset" /\ AP!Core /\ UNCHANGED <<lateScan, lateCalls>>
     \/ AP!Tick /\ UNCHANGED <<lateScan, lateCalls>>
  /\ UNCHANGED <<node, leftover>>

Signal == Interrupt \/ Hangup

Next == Run \/ StdinEnds \/ Signal \/ Background

\* The goroutine of run() is scheduled and the calls it makes return; nothing
\* makes whoever writes to the standard input close it.
Spec == Init /\ [][Next]_vars /\ WF_vars(Run)

-----------------------------------------------------------------------------
(* Properties.                                                              *)

\* Everything that was given the core is down before the core is (main.go:415-420):
\* the admin socket, the interfaces and the DNS server never run on a stopped core.
UsersStopBeforeCore ==
  handle["core"] = "stopped" => \A m \in Modules : handle[m] # "live"

\* autopeering's Stop() waits for nobody, so the core may be used after core.Stop()
\* (main.go:418-420), but only in two ways: Stop() raced with a check, which then
\* goes on (module.go:48-53 against 84-86), or a goroutine that an earlier check
\* had started gets to its CallPeer only now (module.go:76-80).  Without a race
\* there is no scan and no call that was not on its way when Stop() began.
LateUseIsExplained == ~raced => ~lateScan /\ lateCalls \subseteq leftover

\* "Catch interrupts from the operating system to exit gracefully" (main.go:426):
\* a signal, during startup too, ends the process, and unless it panicked or
\* was killed on the way, with every module that was running stopped.  Only while
\* it reads a standard input that does not end, a signal that is caught is lost on it.
GracefulExit ==
  ctxDone ~> \/ process \in {"panicked", "killed"}
             \/ process = "exited" /\ \A m \in Modules : handle[m] # "live"
             \/ config = "stdin"

\* What the scripts of the packages run as a filter, and -address and -subnet,
\* never bring a node up beside the one that is running.
OneShotsStartNothing == oneShot => \A m \in Modules : handle[m] = "unset"

\* The admin socket takes no new connection any more when a module whose commands
\* it serves goes down (main.go:415-417): whoever asks during a shutdown is turned
\* away, but for the connections that were there before.
SocketClosesFirst ==
  \A m \in handlers : handle[m] = "stopped" => handle["admin"] = "stopped"
=============================================================================
