------------------------------- MODULE Mobile -------------------------------
(***************************************************************************)
(* The mobile binding (contrib/mobile/mobile.go): the Yggdrasil object that *)
(* an Android or iOS app holds.  One thread of the app starts and stops the *)
(* node, one reads packets with Recv, one writes them with Send, and the    *)
(* user interface calls the getters.  The object has no lock.               *)
(*                                                                         *)
(* A node is numbered by the core.New call that made it; a field of the     *)
(* object holds such a number, or Nil.  The config field is left out: only  *)
(* StartJSON itself reads it.                                               *)
(***************************************************************************)
EXTENDS Naturals

CONSTANT MaxCores   \* bound on the core.New calls of a run

ASSUME MaxCoresAssumption == MaxCores \in Nat \ {0}

Nil == 0
Cores == 1 .. MaxCores

VARIABLES
  core, iprwc, multicast,  \* the fields: Nil, or the node they belong to
  created,                 \* core.New calls so far
  cores, mcasts,           \* what has become of each node and its multicast
  ctl,                     \* where the controlling thread is in StartJSON or Stop
  up,                      \* the app's view: StartJSON returned nil, Stop has not since
  doubled,                 \* history: a running core has been replaced
  recv, recvOn,            \* where Recv is, and the node it reads from
  send, steady, lost,      \* where Send is; up and not being stopped since it
                           \* began; history: a packet was lost although steady
  process

fields == <<core, iprwc, multicast>>
world == <<created, cores, mcasts>>
reader == <<recv, recvOn>>
writer == <<send, steady, lost>>
vars == <<fields, world, ctl, up, doubled, reader, writer, process>>

TypeOK ==
  /\ {core, iprwc, multicast} \subseteq Cores \cup {Nil}
  /\ created \in 0 .. MaxCores
  /\ {cores, mcasts} \subseteq [Cores -> {"none", "running", "stopped"}]
  /\ ctl \in {"idle", "json", "core", "multicast", "iprwc", "return", "stop", "stopcore"}
  /\ {up, doubled, steady, lost} \subseteq BOOLEAN
  /\ recv \in {"idle", "checked", "reading"}
  /\ recvOn \in IF recv = "reading" THEN Cores ELSE {Nil}
  /\ send \in {"idle", "checked"}
  /\ process \in {"up", "crashed"}

Init ==
  /\ core = Nil /\ iprwc = Nil /\ multicast = Nil
  /\ created = 0
  /\ cores = [k \in Cores |-> "none"] /\ mcasts = cores
  /\ ctl = "idle" /\ up = FALSE /\ doubled = FALSE
  /\ recv = "idle" /\ recvOn = Nil
  /\ send = "idle" /\ steady = FALSE /\ lost = FALSE
  /\ process = "up"

Crash == process' = "crashed"

-----------------------------------------------------------------------------
(* StartJSON, and StartAutoconfigure, which is StartJSON("{}").             *)

Controller(from, to) == ctl = from /\ ctl' = to

StartJSON ==
  /\ created < MaxCores
  /\ Controller("idle", "json")
  /\ UNCHANGED <<fields, world, up, doubled, reader, writer, process>>

\* Mutant: the error is logged and not returned.
JsonErrorSwallowed ==
  /\ Controller("json", "idle")
  /\ up' = TRUE
  /\ UNCHANGED <<fields, world, doubled, reader, writer, process>>

\* json.Unmarshal fails: StartJSON returns its error, and what ran before runs on.
JsonError ==
  /\ Controller("json", "idle")
  /\ UNCHANGED <<fields, world, up, doubled, reader, writer, process>>

JsonDone ==
  /\ Controller("json", "core")
  /\ UNCHANGED <<fields, world, up, doubled, reader, writer, process>>

\* JSON null, a key that is no hex, a core.New that fails, a regular expression
\* that does not compile.
StartPanics ==
  /\ ctl \in {"core", "multicast"}
  /\ Crash
  /\ UNCHANGED <<fields, world, ctl, up, doubled, reader, writer>>

\* Nothing asks whether m.core is running already.
StartCore ==
  /\ Controller("core", "multicast")
  /\ created' = created + 1
  /\ cores' = [cores EXCEPT ![created'] = "running"]
  /\ core' = created'
  /\ doubled' = (doubled \/ (core # Nil /\ cores[core] = "running"))
  /\ UNCHANGED <<iprwc, multicast, mcasts, up, reader, writer, process>>

\* No interfaces: the field is left alone.  An error is only logged, and whatever
\* multicast.New returns beside one, nil or a module that does not run, is kept.
StartMulticast ==
  /\ Controller("multicast", "iprwc")
  /\ \/ UNCHANGED <<multicast, mcasts>>
     \/ multicast' \in {Nil, core} /\ UNCHANGED mcasts
     \/ multicast' = core /\ mcasts' = [mcasts EXCEPT ![core] = "running"]
  /\ UNCHANGED <<core, iprwc, created, cores, up, doubled, reader, writer, process>>

\* Mutant: an iprwc that exists is kept.
StartIprwcOnce ==
  /\ Controller("iprwc", "return")
  /\ iprwc' = IF iprwc = Nil THEN core ELSE iprwc
  /\ UNCHANGED <<core, multicast, world, up, doubled, reader, writer, process>>

StartIprwc ==
  /\ Controller("iprwc", "return")
  /\ iprwc' = core
  /\ UNCHANGED <<core, multicast, world, up, doubled, reader, writer, process>>

StartReturns ==
  /\ Controller("return", "idle")
  /\ up' = TRUE
  /\ UNCHANGED <<fields, world, doubled, reader, writer, process>>

Start == StartJSON \/ JsonError \/ JsonDone \/ StartPanics \/ StartCore
         \/ StartMulticast \/ StartIprwc \/ StartReturns

-----------------------------------------------------------------------------
(* Stop: multicast first, and if that fails nothing else.                   *)

Stop ==
  /\ Controller("idle", "stop")
  /\ steady' = FALSE
  /\ UNCHANGED <<fields, world, up, doubled, reader, send, lost, process>>

MulticastStopped ==
  mcasts' = IF multicast = Nil THEN mcasts ELSE [mcasts EXCEPT ![multicast] = "stopped"]

\* Mutant: the error of multicast.Stop is ignored.
StopMulticastIgnoring ==
  /\ Controller("stop", "stopcore")
  /\ \/ MulticastStopped
     \/ multicast # Nil /\ UNCHANGED mcasts
  /\ UNCHANGED <<fields, created, cores, up, doubled, reader, writer, process>>

\* Mutant: the core is stopped first, so that a Stop that fails has stopped it.
StopCoreFirst ==
  /\ Controller("stop", "idle") /\ core # Nil
  /\ cores' = [cores EXCEPT ![core] = "stopped"]
  /\ \/ MulticastStopped /\ up' = FALSE
     \/ multicast # Nil /\ UNCHANGED <<mcasts, up>>
  /\ UNCHANGED <<fields, created, doubled, reader, writer, process>>

\* Stop() of a nil multicast does nothing and returns nil.
StopMulticast ==
  /\ \/ Controller("stop", "stopcore") /\ MulticastStopped
     \/ Controller("stop", "idle") /\ multicast # Nil /\ UNCHANGED mcasts
  /\ UNCHANGED <<fields, created, cores, up, doubled, reader, writer, process>>

\* Stop() of a nil core dereferences it.
StopCore ==
  /\ Controller("stopcore", "idle")
  /\ IF core = Nil THEN Crash /\ UNCHANGED <<cores, up>>
     ELSE /\ cores' = [cores EXCEPT ![core] = "stopped"]
          /\ up' = FALSE
          /\ UNCHANGED process
  /\ UNCHANGED <<fields, created, mcasts, doubled, reader, writer>>

-----------------------------------------------------------------------------
(* The other threads.  Each call tests m.iprwc and then reads it again.     *)
(* Between its assignment and the return of StartJSON nothing orders the    *)
(* object's own fields before the pointer to it: a thread that uses it then *)
(* may find them unset.                                                     *)

UseIprwc == process' = process \/ (ctl = "return" /\ Crash)

\* Mutant: a nil iprwc is read.
RecvCheckNothing ==
  /\ recv = "idle"
  /\ recv' = "checked"
  /\ UNCHANGED <<fields, world, ctl, up, doubled, recvOn, writer, process>>

\* A nil iprwc returns nil, nil at once.
RecvCheck ==
  /\ recv = "idle" /\ iprwc # Nil
  /\ recv' = "checked"
  /\ UNCHANGED <<fields, world, ctl, up, doubled, recvOn, writer, process>>

RecvRead ==
  /\ recv = "checked"
  /\ recv' = "reading" /\ recvOn' = iprwc
  /\ UseIprwc
  /\ UNCHANGED <<fields, world, ctl, up, doubled, writer>>

\* The read ends with a packet, at the network's pleasure, or with an error,
\* which Recv drops, when the core it reads from has been stopped.
RecvPacket ==
  /\ recv = "reading" /\ cores[recvOn] = "running"
  /\ recv' = "idle" /\ recvOn' = Nil
  /\ UNCHANGED <<fields, world, ctl, up, doubled, writer, process>>

RecvEmpty ==
  /\ recv = "reading" /\ cores[recvOn] = "stopped"
  /\ recv' = "idle" /\ recvOn' = Nil
  /\ UNCHANGED <<fields, world, ctl, up, doubled, writer, process>>

Steady == up /\ ctl \notin {"stop", "stopcore"}

\* Send with a nil iprwc drops the packet and returns nil.
SendCheck ==
  /\ send = "idle"
  /\ IF iprwc = Nil
     THEN lost' = (lost \/ Steady) /\ UNCHANGED <<send, steady>>
     ELSE send' = "checked" /\ steady' = Steady /\ UNCHANGED lost
  /\ UNCHANGED <<fields, world, ctl, up, doubled, reader, process>>

\* The error of Write is dropped: Send returns nil in any case.
SendWrite ==
  /\ send = "checked"
  /\ send' = "idle" /\ steady' = FALSE
  /\ lost' = (lost \/ (steady /\ cores[iprwc] # "running"))
  /\ UseIprwc
  /\ UNCHANGED <<fields, world, ctl, up, doubled, reader>>

\* GetAddressString, GetSubnetString, GetPublicKeyString, GetCoordsString,
\* GetPeersJSON, GetDHTJSON and GetMTU use m.core without a test.
Get ==
  /\ core = Nil
  /\ Crash
  /\ UNCHANGED <<fields, world, ctl, up, doubled, reader, writer>>

Recv == RecvCheck \/ RecvRead \/ RecvPacket \/ RecvEmpty

Next ==
  /\ process = "up"
  /\ \/ Start \/ Stop \/ StopMulticast \/ StopCore
     \/ Recv \/ SendCheck \/ SendWrite \/ Get

\* The app's reading thread calls Recv again and again, and a read of a stopped
\* core returns.  A packet need never come; no call of the other threads need.
Spec == Init /\ [][Next]_vars
             /\ WF_vars(process = "up" /\ (RecvCheck \/ RecvRead \/ RecvEmpty))

-----------------------------------------------------------------------------
(* Properties.                                                              *)

Idle == process = "up" /\ ctl = "idle"

\* Whenever no call is under way and the last StartJSON that returned nil has
\* not been followed by a Stop that did, the app has a running node, and reads
\* and writes that node: after a StartJSON that failed on its JSON, after a
\* Stop that failed, and after a start on top of a running node, too.  Send
\* never reports a failure (mobile.go:110-116), and need not: no packet is handed
\* to a core that does not run if the node was up when Send was called and no
\* Stop began before it returned.
UpMeansServed ==
  /\ Idle /\ up => core # Nil /\ cores[core] = "running" /\ iprwc = core
  /\ ~lost

\* When Stop has returned nil nothing of any node runs on, provided no StartJSON
\* replaced a running core, which Stop then cannot reach (mobile.go:74).
DownMeansStopped ==
  Idle /\ ~up /\ ~doubled => \A k \in Cores : "running" \notin {cores[k], mcasts[k]}

\* A thread that reads across stops and starts finds the node it should: once
\* the app leaves a node up, the reader is blocked on that node again and again,
\* and never for ever on one that was stopped under it (mobile.go:120-127).
ReaderReachesNode ==
  <>[](Idle /\ up /\ ~doubled) => []<>(recv = "reading" /\ recvOn = core)

\* The binding panics where an app cannot catch it, but not once it is up: with
\* no StartJSON or Stop under way no call of any thread brings the app down.
NoCrashInService == [][Idle /\ up => process' = "up"]_vars
=============================================================================
