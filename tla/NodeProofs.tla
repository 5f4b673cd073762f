----------------------------- MODULE NodeProofs -----------------------------
(***************************************************************************)
(* The daemon's life, for any peers and timeouts.  What AutoPeeringProofs   *)
(* shows of the autopeering module alone holds of it inside the node.       *)
(* At the end, what its control program, yggdrasilctl, reports of it.       *)
(***************************************************************************)
EXTENDS Node, AdminClient, TLAPS

APP == INSTANCE AutoPeeringProofs

-----------------------------------------------------------------------------
(* The module inside the node.                                              *)

LEMMA SameModule ==
  /\ AP!Init <=> APP!Init
  /\ AP!TypeOK <=> APP!TypeOK
  /\ AP!Start <=> APP!Start
  /\ AP!StopReads <=> APP!StopReads
  /\ AP!StopStopsTimer <=> APP!StopStopsTimer
  /\ AP!CheckPeerLoop <=> APP!CheckPeerLoop
  /\ \A p \in PublicPeers : AP!CallPeer(p) <=> APP!CallPeer(p)
  /\ AP!Core <=> APP!Core
  /\ AP!Tick <=> APP!Tick
<1>1. AP!Init <=> APP!Init
  BY DEF AP!Init, APP!Init, AP!Horizon, APP!Horizon, AP!Bound, APP!Bound
<1>2. AP!TypeOK <=> APP!TypeOK
  BY DEF AP!TypeOK, APP!TypeOK, AP!Age, APP!Age, AP!Horizon, APP!Horizon, AP!Bound, APP!Bound,
         AP!Peers, APP!Peers, AP!LoopPC, APP!LoopPC
<1>3. AP!Start <=> APP!Start
  BY DEF AP!Start, APP!Start
<1>4. AP!StopReads <=> APP!StopReads
  BY DEF AP!StopReads, APP!StopReads
<1>5. AP!StopStopsTimer <=> APP!StopStopsTimer
  BY DEF AP!StopStopsTimer, APP!StopStopsTimer
<1>6. AP!CheckPeerLoop <=> APP!CheckPeerLoop
  BY DEF AP!CheckPeerLoop, APP!CheckPeerLoop, AP!ScanPeers, APP!ScanPeers, AP!HavePeers,
         APP!HavePeers, AP!SawPeers, APP!SawPeers, AP!TooEarly, APP!TooEarly, AP!StartProbe,
         APP!StartProbe, AP!FinishProbe, APP!FinishProbe, AP!ArmTimer, APP!ArmTimer,
         AP!PublishTimer, APP!PublishTimer, AP!FireTimer, APP!FireTimer
<1>7. AP!Core <=> APP!Core
  BY DEF AP!Core, APP!Core, AP!CallReturns, APP!CallReturns, AP!PeerUp, APP!PeerUp, AP!PeerDown,
         APP!PeerDown, AP!FlipClock, APP!FlipClock, AP!HavePeers, APP!HavePeers, AP!Peers,
         APP!Peers, AP!code, APP!code
<1>8. AP!Tick <=> APP!Tick
  BY DEF AP!Tick, APP!Tick, AP!Due, APP!Due, AP!Older, APP!Older, AP!Less, APP!Less,
         AP!Horizon, APP!Horizon, AP!Bound, APP!Bound
<1>9. \A p \in PublicPeers : AP!CallPeer(p) <=> APP!CallPeer(p)
  BY DEF AP!CallPeer, APP!CallPeer
<1> QED
  BY <1>1, <1>2, <1>3, <1>4, <1>5, <1>6, <1>7, <1>8, <1>9

\* A step of the node is one of the module's or leaves it alone.
LEMMA ModuleStep == [Next]_vars => [APP!Next]_(APP!vars)
<1> SUFFICES ASSUME [Next]_vars
             PROVE  APP!Next \/ UNCHANGED ap
  BY DEF ap, APP!vars
<1>1. CASE StartAutopeering \/ StopAutopeering
  BY <1>1, SameModule DEF StartAutopeering, StopAutopeering, APP!Next
<1>2. CASE Background
  BY <1>2, SameModule DEF Background, APP!Next
<1>3. CASE Configure \/ StdinEnds
  BY <1>3 DEF Configure, StdinEnds, ChooseMode, ReadConfig, AnswerKey, HaveConfig
<1>4. CASE StartCore \/ StartMeshname \/ StartFails \/ ContextDone \/ StopCore \/ Exit \/ Signal
  BY <1>4 DEF StartCore, StartMeshname, StartFails, ContextDone, StopCore, Exit, Signal,
              Interrupt, Hangup
<1>5. ASSUME NEW m \in Modules, StartOptional(m) \/ StopModule(m)
      PROVE  UNCHANGED ap
  BY <1>5 DEF StartOptional, StopModule
<1>6. CASE UNCHANGED vars
  BY <1>6 DEF vars
<1> QED
  BY <1>1, <1>2, <1>3, <1>4, <1>5, <1>6 DEF Next, Run, Modules

\* The types and the invariant of the module hold inside the node.
LEMMA ModuleHolds == Spec => [](AP!TypeOK /\ APP!StopInv)
<1>1. Init => APP!TypeOK /\ APP!StopInv
  <2> SUFFICES ASSUME Init PROVE APP!TypeOK /\ APP!StopInv
    OBVIOUS
  <2>1. APP!Init
    BY SameModule DEF Init
  <2>2. APP!TypeOK
    BY <2>1, APP!InitTypes, NodeAssumption
  <2>3. APP!StopInv
    BY <2>1 DEF APP!Init, APP!StopInv
  <2> QED
    BY <2>2, <2>3
<1>2. APP!TypeOK /\ APP!StopInv /\ [Next]_vars => APP!TypeOK' /\ APP!StopInv'
  BY ModuleStep, APP!TypeStep, APP!StopStep, NodeAssumption
<1>3. APP!TypeOK => AP!TypeOK
  BY SameModule
<1> QED
  BY <1>1, <1>2, <1>3, PTL DEF Spec

\* The daemon runs the autopeering module and nothing that the module would not do
\* by itself: run() starts it once and stops it at most once (main.go:401-418).
THEOREM DaemonRunsAutoPeering == Spec => AP!Spec
<1>1. Init => AP!Init
  BY DEF Init
<1>2. [Next]_vars => [AP!Next]_(AP!vars)
  <2>1. APP!Next => AP!Next
    BY SameModule DEF AP!Next, APP!Next
  <2> QED
    BY <2>1, ModuleStep DEF AP!vars, APP!vars
<1> QED
  BY <1>1, <1>2, PTL DEF Spec, AP!Spec

\* So the daemon as a whole calls its public peers at the pace that ProbePacing
\* states, through every start, stop and signal.
THEOREM DaemonIsPaced == Spec => AP!PacedCaller
<1>1. Init => APP!Init
  BY SameModule DEF Init
<1>2. APP!Spec => APP!PacedCaller
  BY APP!AutoPeeringIsPaced, NodeAssumption
<1>3. APP!PacedCaller => AP!PacedCaller
  <2>1. APP!Pacing!Init => AP!Pacing!Init
    BY DEF APP!Pacing!Init, AP!Pacing!Init, APP!Horizon, AP!Horizon, APP!Bound, AP!Bound
  <2>2. [APP!Pacing!Next]_<<sinceProbe, loop = "probing", pending \cup calls>>
          => [AP!Pacing!Next]_<<sinceProbe, loop = "probing", pending \cup calls>>
    BY DEF APP!Pacing!Next, AP!Pacing!Next, APP!Pacing!Probe, AP!Pacing!Probe,
           APP!Pacing!CallOneOrNone, AP!Pacing!CallOneOrNone, APP!Pacing!CallEnds,
           AP!Pacing!CallEnds, APP!Pacing!TimePasses, AP!Pacing!TimePasses,
           APP!Horizon, AP!Horizon, APP!Bound, AP!Bound
  <2> QED
    BY <2>1, <2>2, PTL DEF AP!PacedCaller, APP!PacedCaller, AP!Pacing!Spec, APP!Pacing!Spec
<1> QED
  BY <1>1, <1>2, <1>3, ModuleStep, PTL DEF Spec, APP!Spec

-----------------------------------------------------------------------------
(* The program text of run().                                               *)

LEMMA ProgramFacts ==
  /\ Waits = 7 /\ Returns = 14 /\ DOMAIN Program = 1 .. 13
  /\ \A i \in 1 .. 6 : Program[i] = Step("start", StartOrder[i])
  /\ Program[7] = Step("wait", "core")
  /\ \A i \in 8 .. 13 : Program[i] = Step("stop", StopOrder[i - 7])
<1>1. Len(StartOrder) = 6 /\ Len(StopOrder) = 6
  BY DEF StartOrder, StopOrder
<1>2. Waits = 7 /\ Returns = 14
  BY <1>1 DEF Waits, Returns
<1> QED
  BY <1>2 DEF Program

\* Where run() is when it makes a call.
LEMMA Where ==
  ASSUME NEW op, NEW m, At(op, m)
  PROVE  /\ process = "up" /\ config = "done"
         /\ \/ op = "start" /\ line \in 1 .. 6 /\ m = StartOrder[line]
            \/ op = "wait" /\ line = 7
            \/ op = "stop" /\ line \in 8 .. 13 /\ m = StopOrder[line - 7]
<1>1. process = "up" /\ config = "done" /\ line \in 1 .. 13 /\ Program[line] = Step(op, m)
  BY ProgramFacts DEF At
<1>2. CASE line \in 1 .. 6
  BY <1>1, <1>2, ProgramFacts DEF Step
<1>3. CASE line = 7
  BY <1>1, <1>3, ProgramFacts DEF Step
<1>4. CASE line \in 8 .. 13
  BY <1>1, <1>4, ProgramFacts DEF Step
<1> QED
  BY <1>1, <1>2, <1>3, <1>4

LEMMA Orders ==
  /\ StartOrder[1] = "core" /\ StartOrder[2] = "admin" /\ StartOrder[3] = "multicast"
  /\ StartOrder[4] = "tun" /\ StartOrder[5] = "meshname" /\ StartOrder[6] = "autopeering"
  /\ StopOrder[1] = "admin" /\ StopOrder[2] = "multicast" /\ StopOrder[3] = "tun"
  /\ StopOrder[4] = "autopeering" /\ StopOrder[5] = "meshname" /\ StopOrder[6] = "core"
BY DEF StartOrder, StopOrder

-----------------------------------------------------------------------------
(* Types.                                                                   *)

NodeTypes ==
  /\ line \in 1 .. Returns
  /\ config # "done" => line = 1
  /\ handle \in [Modules -> {"unset", "nil", "live", "stopped"}]
  /\ config \in {"choose", "stdin", "file", "key", "done"}
  /\ args \in Args
  /\ {oneShot, meshnameOn, ctxDone} \subseteq BOOLEAN
  /\ process \in {"up", "exited", "panicked", "killed"}
  /\ handlers \in SUBSET {"admin", "multicast", "tun"}
  /\ lateScan \in BOOLEAN
  /\ {leftover, lateCalls} \subseteq SUBSET PublicPeers

\* What a call of run() does to its place and to the handle it is about.
LEMMA CallTypes ==
  ASSUME NodeTypes, NEW op, NEW m \in Modules, At(op, m), line' = line + 1,
         NEW r \in {"unset", "nil", "live", "stopped"},
         handle' = [handle EXCEPT ![m] = r]
  PROVE  /\ line' \in 1 .. Returns /\ config = "done"
         /\ handle' \in [Modules -> {"unset", "nil", "live", "stopped"}]
<1>1. line \in 1 .. 13 /\ config = "done"
  BY Where
<1> QED
  BY <1>1, ProgramFacts DEF NodeTypes

LEMMA NodeTypeStep == AP!TypeOK /\ NodeTypes /\ [Next]_vars => NodeTypes'
<1> SUFFICES ASSUME AP!TypeOK, NodeTypes, [Next]_vars
             PROVE  NodeTypes'
  OBVIOUS
<1> USE ProgramFacts DEF NodeTypes, late
<1>1. CASE ChooseMode
  <2>1. args.input \in {"none", "stdin", "file"}
    BY DEF Args
  <2> QED
    BY <1>1, <2>1 DEF ChooseMode, Return, Continue
<1>2. ASSUME NEW source \in {"stdin", "file"}, ReadConfig(source)
      PROVE  NodeTypes'
  BY <1>2 DEF ReadConfig, Return, Continue, Panic
<1>3. CASE AnswerKey
  BY <1>3 DEF AnswerKey, Return, Panic
<1>4. CASE HaveConfig
  <2>1. NoArgs \in Args
    BY DEF NoArgs, Args
  <2> QED
    BY <1>4, <2>1 DEF HaveConfig, Continue
<1>5. CASE StartCore
  <2>1. line' \in 1 .. Returns /\ config = "done"
        /\ handle' \in [Modules -> {"unset", "nil", "live", "stopped"}]
    <3>1. "core" \in Modules /\ "live" \in {"unset", "nil", "live", "stopped"}
      BY DEF Modules
    <3> QED
      BY <1>5, <3>1, CallTypes DEF StartCore, Started
  <2> QED
    BY <1>5, <2>1 DEF StartCore, mode
<1>6. ASSUME NEW m \in {"admin", "multicast", "tun"}, StartOptional(m)
      PROVE  NodeTypes'
  <2>1. PICK result \in {"live", "nil"} : Started(m, result)
    BY <1>6 DEF StartOptional
  <2>2. line' \in 1 .. Returns /\ config = "done"
        /\ handle' \in [Modules -> {"unset", "nil", "live", "stopped"}]
    <3>1. m \in Modules /\ result \in {"unset", "nil", "live", "stopped"} /\ At("start", m)
      BY <1>6 DEF Modules, StartOptional
    <3>2. line' = line + 1 /\ handle' = [handle EXCEPT ![m] = result]
      BY <2>1 DEF Started
    <3> QED
      BY <3>1, <3>2, CallTypes
  <2>3. handlers' \in SUBSET {"admin", "multicast", "tun"}
    BY <1>6 DEF StartOptional
  <2> QED
    BY <1>6, <2>2, <2>3 DEF StartOptional, mode
<1>7. CASE StartMeshname
  <2>1. line' \in 1 .. Returns /\ config = "done"
        /\ handle' \in [Modules -> {"unset", "nil", "live", "stopped"}]
    <3>1. (IF meshnameOn THEN "live" ELSE "unset") \in {"unset", "nil", "live", "stopped"}
      OBVIOUS
    <3> QED
      BY <1>7, <3>1, CallTypes DEF StartMeshname, Started, Modules
  <2> QED
    BY <1>7, <2>1 DEF StartMeshname, mode
<1>8. CASE StartAutopeering
  <2>1. line' \in 1 .. Returns /\ config = "done"
        /\ handle' \in [Modules -> {"unset", "nil", "live", "stopped"}]
    BY <1>8, CallTypes DEF StartAutopeering, Started, Modules
  <2> QED
    BY <1>8, <2>1 DEF StartAutopeering, mode
<1>9. CASE StartFails
  BY <1>9 DEF StartFails, mode
<1>10. CASE ContextDone
  BY <1>10, Where DEF ContextDone, mode
<1>11. ASSUME NEW m \in Modules, StopModule(m)
       PROVE  NodeTypes'
  BY <1>11, Where DEF StopModule, Stopped, mode
<1>12. CASE StopAutopeering
  <2>1. leftover' \in SUBSET PublicPeers
    BY <1>12 DEF StopAutopeering, AP!TypeOK
  <2> QED
    BY <1>12, <2>1, Where DEF StopAutopeering, Stopped, mode
<1>13. CASE StopCore
  <2>1. (IF handle["core"] = "live" THEN "stopped" ELSE handle["core"])
          \in {"unset", "nil", "live", "stopped"}
    BY DEF Modules
  <2>2. line' \in 1 .. Returns /\ config = "done"
        /\ handle' \in [Modules -> {"unset", "nil", "live", "stopped"}]
    BY <1>13, <2>1, CallTypes DEF StopCore, Stopped, Modules
  <2> QED
    BY <1>13, <2>2 DEF StopCore, mode
<1>14. CASE Exit
  BY <1>14 DEF Exit, mode
<1>15. CASE Signal
  BY <1>15 DEF Signal, Interrupt, Hangup, mode
<1>16. CASE Background
  <2>1. lateScan' \in BOOLEAN
    BY <1>16, Zenon DEF Background
  <2>2. lateCalls' \in SUBSET PublicPeers
    BY <1>16 DEF Background
  <2> QED
    BY <1>16, <2>1, <2>2 DEF Background, node, mode
<1>17. CASE UNCHANGED vars
  BY <1>17 DEF vars, node, mode
<1> QED
  BY <1>1, <1>2, <1>3, <1>4, <1>5, <1>6, <1>7, <1>8, <1>9, <1>10, <1>11, <1>12, <1>13,
     <1>14, <1>15, <1>16, <1>17
  DEF Next, Run, Configure, StdinEnds

LEMMA NodeTypesHold == Spec => []NodeTypes
<1>1. Init => NodeTypes
  <2> SUFFICES ASSUME Init PROVE NodeTypes
    OBVIOUS
  <2>1. oneShot \in BOOLEAN
    BY Zenon DEF Init, OneShot
  <2>2. /\ ctxDone \in BOOLEAN /\ lateScan \in BOOLEAN /\ meshnameOn \in BOOLEAN
        /\ {leftover, lateCalls} \subseteq SUBSET PublicPeers
    BY DEF Init
  <2> QED
    BY <2>1, <2>2, ProgramFacts DEF Init, NodeTypes
<1> QED
  BY <1>1, NodeTypeStep, ModuleHolds, PTL DEF Spec

\* The program counter never leaves the text of run(), no module is started or
\* stopped before the configuration is there, and the module keeps its types.
THEOREM DaemonTypes == Spec => []TypeOK
<1>1. AP!TypeOK /\ NodeTypes => TypeOK
  BY DEF TypeOK, NodeTypes
<1> QED
  BY <1>1, ModuleHolds, NodeTypesHold, PTL

-----------------------------------------------------------------------------
(* One-shot modes.                                                          *)

\* A mode that answers is known by its flags until they are used, then by the
\* place of run(); the place after the last call is all that it ever reaches.
ModeInv ==
  /\ config = "choose" => oneShot = OneShot(args)
  /\ config \in {"stdin", "file"} =>
       ~args.ver /\ ~args.autoconf /\ args.input # "none" /\ oneShot = OneShot(args)
  /\ config = "key" => (oneShot => args.print)
  /\ oneShot /\ config = "done" => line = Returns
  /\ oneShot => \A m \in Modules : handle[m] = "unset"

\* In a mode that answers run() makes none of its calls.
LEMMA NoCallInOneShot ==
  ASSUME ModeInv, NEW op, NEW m, At(op, m)
  PROVE  ~oneShot
BY Where, ProgramFacts DEF ModeInv

LEMMA ModeStep == NodeTypes /\ ModeInv /\ [Next]_vars => ModeInv'
<1> SUFFICES ASSUME NodeTypes, ModeInv, [Next]_vars
             PROVE  ModeInv'
  OBVIOUS
<1>1. CASE ChooseMode
  BY <1>1 DEF NodeTypes, Args, ModeInv, ChooseMode, Return, Continue, OneShot
<1>2. ASSUME NEW source \in {"stdin", "file"}, ReadConfig(source)
      PROVE  ModeInv'
  BY <1>2 DEF NodeTypes, Args, ModeInv, ReadConfig, Return, Continue, Panic, OneShot
<1>3. CASE AnswerKey
  BY <1>3 DEF ModeInv, AnswerKey, Return, Panic
<1>4. CASE HaveConfig
  BY <1>4 DEF ModeInv, HaveConfig, Continue
<1>5. ASSUME NEW op, NEW m \in Modules, At(op, m), UNCHANGED mode
      PROVE  ModeInv'
  <2>1. ~oneShot /\ config = "done"
    BY <1>5, NoCallInOneShot, Where
  <2> QED
    BY <1>5, <2>1 DEF ModeInv, mode
<1>6. CASE StartCore \/ StartMeshname \/ StartAutopeering \/ StopAutopeering \/ StopCore
           \/ ContextDone
  BY <1>5, <1>6 DEF StartCore, StartMeshname, StartAutopeering, StopAutopeering, StopCore,
                    ContextDone, Modules
<1>7. ASSUME NEW m \in Modules, StartOptional(m) \/ StopModule(m)
      PROVE  ModeInv'
  BY <1>5, <1>7 DEF StartOptional, StopModule
<1>8. CASE StartFails \/ Exit \/ Signal
  BY <1>8 DEF ModeInv, StartFails, Exit, Signal, Interrupt, Hangup, mode
<1>9. CASE Background \/ UNCHANGED vars
  BY <1>9 DEF ModeInv, Background, vars, node, mode
<1> QED
  BY <1>1, <1>2, <1>3, <1>4, <1>6, <1>7, <1>8, <1>9
  DEF Next, Run, Configure, StdinEnds, Modules

\* The filters that scripts run, and -address and -subnet, start no module: not
\* even when several of these flags are given together, in any order of the switch.
THEOREM OneShotsNeverStart == Spec => []OneShotsStartNothing
<1>1. Init => ModeInv
  BY DEF Init, ModeInv
<1>2. ModeInv => OneShotsStartNothing
  BY DEF ModeInv, OneShotsStartNothing
<1> QED
  BY <1>1, <1>2, ModeStep, NodeTypesHold, PTL DEF Spec

-----------------------------------------------------------------------------
(* The order of the calls.                                                  *)

\* A module that run() has not come to yet is untouched, one it is past is not
\* running, and what has handlers on the admin socket has come after that socket.
OrderInv ==
  /\ line <= 1 => handle["core"] = "unset"
  /\ line <= 2 => handle["admin"] = "unset"
  /\ line <= 3 => handle["multicast"] = "unset"
  /\ line <= 4 => handle["tun"] = "unset"
  /\ line <= 5 => handle["meshname"] = "unset"
  /\ line <= 6 => handle["autopeering"] = "unset"
  /\ line > 8 => handle["admin"] # "live"
  /\ line > 9 => handle["multicast"] # "live"
  /\ line > 10 => handle["tun"] # "live"
  /\ line > 11 => handle["autopeering"] # "live"
  /\ line > 12 => handle["meshname"] # "live"
  /\ line > 13 => handle["core"] # "live"
  /\ line <= 13 => handle["core"] # "stopped"
  /\ line <= 8 => \A m \in Modules : handle[m] # "stopped"
  /\ handlers # {} => handle["admin"] \in {"live", "stopped"}

\* Each call by its place.
LEMMA Calls ==
  ASSUME NEW m \in Modules
  PROVE  /\ At("start", m) => /\ m = "core" => line = 1
                              /\ m = "admin" => line = 2
                              /\ m = "multicast" => line = 3
                              /\ m = "tun" => line = 4
                              /\ m = "meshname" => line = 5
                              /\ m = "autopeering" => line = 6
         /\ At("wait", m) => line = 7
         /\ At("stop", m) => /\ m = "admin" => line = 8
                             /\ m = "multicast" => line = 9
                             /\ m = "tun" => line = 10
                             /\ m = "autopeering" => line = 11
                             /\ m = "meshname" => line = 12
                             /\ m = "core" => line = 13
<1>1. ASSUME At("start", m)
      PROVE  line \in {1, 2, 3, 4, 5, 6} /\ m = StartOrder[line]
  BY <1>1, Where
<1>2. ASSUME At("stop", m)
      PROVE  \E j \in {1, 2, 3, 4, 5, 6} : line = j + 7 /\ m = StopOrder[j]
  <2>1. line \in 8 .. 13 /\ m = StopOrder[line - 7]
    BY <1>2, Where
  <2> QED
    BY <2>1
<1>3. At("wait", m) => line = 7
  BY Where
<1>4. At("start", m) => /\ m = "core" => line = 1
                        /\ m = "admin" => line = 2
                        /\ m = "multicast" => line = 3
                        /\ m = "tun" => line = 4
                        /\ m = "meshname" => line = 5
                        /\ m = "autopeering" => line = 6
  BY <1>1, Orders
<1>5. At("stop", m) => /\ m = "admin" => line = 8
                       /\ m = "multicast" => line = 9
                       /\ m = "tun" => line = 10
                       /\ m = "autopeering" => line = 11
                       /\ m = "meshname" => line = 12
                       /\ m = "core" => line = 13
  BY <1>2, Orders
<1> QED
  BY <1>3, <1>4, <1>5

LEMMA OrderStep == NodeTypes /\ OrderInv /\ [Next]_vars => OrderInv'
<1> SUFFICES ASSUME NodeTypes, OrderInv, [Next]_vars
             PROVE  OrderInv'
  OBVIOUS
<1>0. line \in 1 .. 14 /\ handle \in [Modules -> {"unset", "nil", "live", "stopped"}]
  BY ProgramFacts DEF NodeTypes
<1>1. ASSUME config # "done", line' \in {line, Returns}, UNCHANGED <<handle, handlers>>
      PROVE  OrderInv'
  <2>1. line = 1
    BY <1>1 DEF NodeTypes
  <2>2. \A m \in Modules : handle[m] # "stopped"
    BY <2>1 DEF OrderInv
  <2> QED
    BY <1>1, <2>1, <2>2, ProgramFacts DEF OrderInv
<1>2. CASE Configure \/ StdinEnds
  BY <1>1, <1>2 DEF Configure, StdinEnds, ChooseMode, ReadConfig, AnswerKey, HaveConfig, Return,
                    Continue, Panic
<1>3. CASE StartCore
  <2>1. line = 1
    BY <1>3, Calls DEF StartCore, Modules
  <2>2. handlers = {}
    BY <2>1 DEF OrderInv
  <2> QED
    BY <1>0, <1>3, <2>1, <2>2 DEF OrderInv, StartCore, Started, Modules
<1>4. ASSUME NEW m \in {"admin", "multicast", "tun"}, StartOptional(m)
      PROVE  OrderInv'
  <2>1. PICK result \in {"live", "nil"} : Started(m, result)
    BY <1>4 DEF StartOptional
  <2>2. /\ m = "admin" => line = 2
        /\ m = "multicast" => line = 3
        /\ m = "tun" => line = 4
    BY <1>4, Calls DEF StartOptional, Modules
  <2>3. handle[m] = "unset"
    BY <1>0, <2>2 DEF OrderInv
  <2>4. /\ line' = line + 1 /\ handle'[m] \in {"live", "nil"}
        /\ \A k \in Modules \ {m} : handle'[k] = handle[k]
    BY <1>0, <2>1 DEF Started, Modules
  <2>5. handlers' # {} => handle'["admin"] \in {"live", "stopped"}
    <3>1. CASE handlers' = handlers
      BY <2>3, <2>4, <3>1 DEF OrderInv, Modules
    <3>2. CASE handlers' # handlers
      BY <1>4, <1>0, <3>2 DEF StartOptional, Started, Modules
    <3> QED
      BY <3>1, <3>2
  <2>6. \A k \in Modules : handle'[k] # "stopped"
    BY <2>2, <2>4 DEF OrderInv, Modules
  <2> QED
    BY <1>0, <2>2, <2>4, <2>5, <2>6 DEF OrderInv, Modules
<1>5. CASE StartMeshname
  <2>1. line = 5
    BY <1>5, Calls DEF StartMeshname, Modules
  <2>2. /\ line' = 6 /\ UNCHANGED handlers
        /\ \A k \in Modules \ {"meshname"} : handle'[k] = handle[k]
    BY <1>0, <1>5, <2>1 DEF StartMeshname, Started
  <2>3. handle'["meshname"] # "stopped"
    BY <1>0, <1>5 DEF StartMeshname, Started, Modules
  <2>4. \A k \in Modules : handle'[k] # "stopped"
    BY <2>1, <2>2, <2>3 DEF OrderInv
  <2> QED
    BY <1>0, <2>1, <2>2, <2>4 DEF OrderInv, Modules
<1>6. CASE StartAutopeering
  <2>1. line = 6
    BY <1>6, Calls DEF StartAutopeering, Modules
  <2>2. /\ line' = 7 /\ UNCHANGED handlers
        /\ \A k \in Modules \ {"autopeering"} : handle'[k] = handle[k]
    BY <1>0, <1>6, <2>1 DEF StartAutopeering, Started
  <2>3. handle'["autopeering"] # "stopped"
    BY <1>0, <1>6 DEF StartAutopeering, Started, Modules
  <2>4. \A k \in Modules : handle'[k] # "stopped"
    BY <2>1, <2>2, <2>3 DEF OrderInv
  <2> QED
    BY <1>0, <2>1, <2>2, <2>4 DEF OrderInv, Modules
<1>7. CASE ContextDone
  <2>1. line = 7
    BY <1>7, Calls DEF ContextDone, Modules
  <2> QED
    BY <1>0, <1>7, <2>1 DEF OrderInv, ContextDone
<1>8. ASSUME NEW m \in Modules, At("stop", m), Stopped(m), UNCHANGED handlers
      PROVE  OrderInv'
  <2>1. /\ m = "admin" => line = 8
        /\ m = "multicast" => line = 9
        /\ m = "tun" => line = 10
        /\ m = "autopeering" => line = 11
        /\ m = "meshname" => line = 12
        /\ m = "core" => line = 13
    BY <1>8, Calls
  <2>2. handlers' # {} => handle'["admin"] \in {"live", "stopped"}
    BY <1>0, <1>8 DEF OrderInv, Stopped, Modules
  <2>3. /\ line' = line + 1 /\ line >= 8 /\ handle'[m] # "live"
        /\ \A k \in Modules \ {m} : handle'[k] = handle[k]
    BY <1>0, <1>8, <2>1 DEF Stopped, Modules
  <2> QED
    BY <1>0, <2>1, <2>2, <2>3 DEF OrderInv, Modules
<1>9. ASSUME NEW m \in Modules, StopModule(m)
      PROVE  OrderInv'
  BY <1>8, <1>9 DEF StopModule
<1>10. CASE StopAutopeering
  <2>1. CASE stopper' = "done"
    BY <1>8, <1>10, <2>1 DEF StopAutopeering, Modules
  <2>2. CASE stopper' # "done"
    BY <1>10, <2>2 DEF StopAutopeering, OrderInv
  <2> QED
    BY <2>1, <2>2
<1>11. CASE StopCore
  BY <1>8, <1>11 DEF StopCore, Modules
<1>12. CASE StartFails \/ Exit \/ Signal \/ Background \/ UNCHANGED vars
  BY <1>12 DEF OrderInv, StartFails, Exit, Signal, Interrupt, Hangup, Background, vars, node
<1> QED
  BY <1>2, <1>3, <1>4, <1>5, <1>6, <1>7, <1>9, <1>10, <1>11, <1>12 DEF Next, Run

LEMMA OrderHolds == Spec => [](NodeTypes /\ OrderInv)
<1>1. Init => OrderInv
  BY DEF Init, OrderInv, Modules
<1> QED
  BY <1>1, NodeTypesHold, OrderStep, PTL DEF Spec

\* Whatever has failed to start and whenever the signal came, nothing that was
\* given the core is still running when the core has been stopped.
THEOREM UsersAlwaysStopBeforeCore == Spec => []UsersStopBeforeCore
<1>1. NodeTypes /\ OrderInv => UsersStopBeforeCore
  BY ProgramFacts DEF NodeTypes, OrderInv, UsersStopBeforeCore, Modules
<1> QED
  BY <1>1, OrderHolds, PTL

\* Whatever has failed to start, no module that serves commands goes down while the
\* admin socket still takes connections for it.
THEOREM SocketAlwaysClosesFirst == Spec => []SocketClosesFirst
<1>1. NodeTypes /\ OrderInv => SocketClosesFirst
  <2> SUFFICES ASSUME NodeTypes, OrderInv, NEW m \in handlers, handle[m] = "stopped"
               PROVE  handle["admin"] = "stopped"
    BY DEF SocketClosesFirst
  <2>1. m \in Modules /\ line \in 1 .. 14
    BY ProgramFacts DEF NodeTypes, Modules
  <2>2. line > 8
    BY <2>1 DEF OrderInv
  <2> QED
    BY <2>1, <2>2 DEF OrderInv
<1> QED
  BY <1>1, OrderHolds, PTL

-----------------------------------------------------------------------------
(* The check loop and its calls during shutdown.                           *)

\* When the core has been stopped, autopeering's Stop() has returned before.  A
\* loop that nevertheless goes on has raced with it; without a race no check has
\* started a call since that Stop() began.
LateInv ==
  /\ line > 11 => stopper = "done" \/ handle["core"] = "unset"
  /\ stopper # "up" /\ ~raced => pending \subseteq leftover
  /\ lateScan => raced
  /\ ~raced => lateCalls \subseteq leftover
  /\ stopper # "done" => ~lateScan /\ lateCalls = {}

\* From the moment that Stop() has read the field, a race stays one, and without
\* a race nothing is added to the calls.
LEMMA AfterStopBegan ==
  ASSUME APP!TypeOK, APP!StopInv, [APP!Next]_(APP!vars), stopper # "up"
  PROVE  /\ stopper' # "up" /\ (raced => raced') /\ (stopper = "done" => stopper' = "done")
         /\ ~raced => pending' \subseteq pending
<1>1. ~APP!StopReads
  BY DEF APP!StopReads
<1>2. CASE APP!StopStopsTimer
  BY <1>2 DEF APP!StopStopsTimer
<1>3. CASE APP!Start \/ APP!Tick
  BY <1>3 DEF APP!Start, APP!Tick
<1>4. CASE APP!ScanPeers \/ APP!SawPeers \/ APP!TooEarly \/ APP!StartProbe
  BY <1>4 DEF APP!ScanPeers, APP!SawPeers, APP!TooEarly, APP!StartProbe
<1>5. CASE APP!FinishProbe
  <2>1. loop # "asleep" /\ UNCHANGED <<stopper, raced>>
    BY <1>5 DEF APP!FinishProbe
  <2>2. raced
    <3>1. stopper \in {"latest", "spent", "done"}
      BY DEF APP!TypeOK
    <3> QED
      BY <2>1, <3>1 DEF APP!StopInv
  <2> QED
    BY <2>1, <2>2
<1>6. CASE APP!ArmTimer
  BY <1>6 DEF APP!ArmTimer
<1>7. CASE APP!PublishTimer
  BY <1>7 DEF APP!PublishTimer
<1>8. CASE APP!FireTimer
  <2>1. UNCHANGED <<stopper, pending>> /\ (raced => raced')
    BY <1>8, Zenon DEF APP!FireTimer
  <2> QED
    BY <2>1
<1>9. CASE APP!Core
  BY <1>9 DEF APP!Core, APP!CallReturns, APP!PeerUp, APP!PeerDown, APP!code
<1>10. CASE \E p \in PublicPeers : APP!CallPeer(p)
  BY <1>10 DEF APP!CallPeer
<1>11. CASE UNCHANGED APP!vars
  BY <1>11 DEF APP!vars
<1> QED
  BY <1>1, <1>2, <1>3, <1>4, <1>5, <1>6, <1>7, <1>8, <1>9, <1>10, <1>11
  DEF APP!Next, APP!CheckPeerLoop

\* How run() moves, but for its call of autopeering's Stop().
LEMMA LineMoves ==
  ASSUME NodeTypes, OrderInv, [Next]_vars, ~StopAutopeering
  PROVE  /\ \/ line' = line
            \/ line = 1 /\ UNCHANGED handle
            \/ line' = line + 1 /\ line # 11
         /\ line > 11 /\ handle["core"] = "unset" => handle'["core"] = "unset"
<1>0. line \in 1 .. 14 /\ handle \in [Modules -> {"unset", "nil", "live", "stopped"}]
  BY ProgramFacts DEF NodeTypes
<1>1. CASE Configure \/ StdinEnds
  <2>1. config # "done" /\ UNCHANGED handle
    BY <1>1 DEF Configure, StdinEnds, ChooseMode, ReadConfig, AnswerKey, HaveConfig
  <2> QED
    BY <2>1 DEF NodeTypes
<1>2. ASSUME NEW m \in Modules, At("start", m), line' = line + 1
      PROVE  line' = line + 1 /\ line <= 6
  BY <1>2, Where
<1>3. CASE StartCore \/ StartMeshname \/ StartAutopeering
  BY <1>0, <1>2, <1>3 DEF StartCore, StartMeshname, StartAutopeering, Started, Modules
<1>4. ASSUME NEW m \in {"admin", "multicast", "tun"}, StartOptional(m)
      PROVE  line' = line + 1 /\ line <= 6
  BY <1>2, <1>4 DEF StartOptional, Started, Modules
<1>5. CASE ContextDone
  BY <1>0, <1>5, Calls DEF ContextDone, Modules
<1>6. ASSUME NEW m \in Modules \ {"autopeering"}, At("stop", m), Stopped(m)
      PROVE  /\ line' = line + 1 /\ line # 11
             /\ handle["core"] = "unset" => handle'["core"] = "unset"
  <2>1. line # 11
    BY <1>6, Where, Orders
  <2> QED
    BY <1>0, <1>6, <2>1 DEF Stopped, Modules
<1>7. CASE StopCore
  BY <1>6, <1>7 DEF StopCore, Modules
<1>8. ASSUME NEW m \in Modules, StopModule(m)
      PROVE  /\ line' = line + 1 /\ line # 11
             /\ handle["core"] = "unset" => handle'["core"] = "unset"
  BY <1>6, <1>8 DEF StopModule
<1>9. CASE StartFails \/ Exit \/ Signal \/ Background \/ UNCHANGED vars
  BY <1>9 DEF StartFails, Exit, Signal, Interrupt, Hangup, Background, vars, node
<1> QED
  BY <1>0, <1>1, <1>3, <1>4, <1>5, <1>7, <1>8, <1>9 DEF Next, Run

\* A scan after Stop() has returned is one by a loop that raced with it.
LEMMA ScanIsRaced ==
  ASSUME APP!StopInv, stopper = "done", AP!ScanPeers
  PROVE  raced
BY DEF AP!ScanPeers, APP!StopInv

\* What is beside run() does not begin Stop(), and only the loop and its calls use
\* the core.
LEMMA BackgroundMoves ==
  ASSUME Background
  PROVE  /\ UNCHANGED leftover
         /\ stopper = "up" => UNCHANGED stopper
         /\ lateScan' => lateScan \/ (AP!ScanPeers /\ CoreStopped)
         /\ \/ UNCHANGED lateCalls
            \/ \E p \in pending : CoreStopped /\ lateCalls' = lateCalls \cup {p}
<1>1. UNCHANGED leftover
  BY DEF Background
<1>2. lateScan' => lateScan \/ (AP!ScanPeers /\ CoreStopped)
  BY Zenon DEF Background
<1>3. \/ UNCHANGED lateCalls
      \/ \E p \in pending : CoreStopped /\ lateCalls' = lateCalls \cup {p}
  BY DEF Background, AP!CallPeer
<1>4. stopper = "up" => UNCHANGED stopper
  <2>1. AP!CheckPeerLoop => (stopper = "up" => UNCHANGED stopper)
    BY DEF AP!CheckPeerLoop, AP!ScanPeers, AP!SawPeers, AP!TooEarly, AP!StartProbe, AP!FinishProbe,
           AP!ArmTimer, AP!PublishTimer, AP!FireTimer
  <2>2. AP!Core \/ AP!Tick \/ (\E p \in PublicPeers : AP!CallPeer(p)) => UNCHANGED stopper
    BY DEF AP!Core, AP!CallReturns, AP!PeerUp, AP!PeerDown, AP!code, AP!Tick, AP!CallPeer
  <2> QED
    BY <2>1, <2>2 DEF Background
<1> QED
  BY <1>1, <1>2, <1>3, <1>4

\* Stop() begins by counting the calls that are on their way, and apart from that
\* run() changes nothing of this.
LEMMA LateMoves ==
  ASSUME [Next]_vars
  PROVE  \/ Background
         \/ UNCHANGED late /\ (stopper = "up" => UNCHANGED stopper)
         \/ /\ AP!StopReads /\ leftover' = pending
            /\ UNCHANGED <<pending, lateScan, lateCalls>>
<1>1. CASE StopAutopeering
  BY <1>1 DEF StopAutopeering, AP!StopReads, AP!StopStopsTimer, late
<1>2. CASE Configure \/ StdinEnds
  BY <1>2 DEF Configure, StdinEnds, ChooseMode, ReadConfig, AnswerKey, HaveConfig, ap
<1>3. CASE StartCore \/ StartMeshname \/ StartAutopeering
  BY <1>3 DEF StartCore, StartMeshname, StartAutopeering, AP!Start, ap
<1>4. CASE StartFails \/ ContextDone \/ StopCore \/ Exit \/ Signal \/ UNCHANGED vars
  BY <1>4 DEF StartFails, ContextDone, StopCore, Exit, Signal, Interrupt, Hangup, vars, ap
<1>5. ASSUME NEW m \in Modules, StartOptional(m) \/ StopModule(m)
      PROVE  UNCHANGED <<late, stopper>>
  BY <1>5 DEF StartOptional, StopModule, ap
<1> QED
  BY <1>1, <1>2, <1>3, <1>4, <1>5 DEF Next, Run, Modules

LEMMA LateStep ==
  ASSUME NodeTypes, OrderInv, APP!TypeOK, APP!StopInv, LateInv, [Next]_vars
  PROVE  LateInv'
<1>0. stopper # "up" =>
        /\ stopper' # "up" /\ (raced => raced') /\ (stopper = "done" => stopper' = "done")
        /\ ~raced => pending' \subseteq pending
  BY ModuleStep, AfterStopBegan
<1>1. line' > 11 => stopper' = "done" \/ handle'["core"] = "unset"
  <2>1. CASE StopAutopeering
    <3>1. line = 11
      BY <2>1, Calls DEF StopAutopeering, Modules
    <3> QED
      BY <2>1, <3>1 DEF StopAutopeering
  <2>2. CASE ~StopAutopeering
    <3>1. line = 1 => handle["core"] = "unset"
      BY DEF OrderInv
    <3>2. line \in 1 .. 14
      BY ProgramFacts DEF NodeTypes
    <3> QED
      BY <1>0, <2>2, <3>1, <3>2, LineMoves DEF LateInv
  <2> QED
    BY <2>1, <2>2
<1>2. CoreStopped => stopper = "done"
  BY ProgramFacts DEF CoreStopped, NodeTypes, OrderInv, LateInv
<1>3. CASE AP!StopReads /\ leftover' = pending /\ UNCHANGED <<pending, lateScan, lateCalls>>
  <2>1. stopper = "up"
    BY <1>3 DEF AP!StopReads
  <2> QED
    BY <1>1, <1>3, <2>1 DEF LateInv
<1>4. ASSUME UNCHANGED leftover, stopper = "up" => UNCHANGED stopper
      PROVE  stopper' # "up" /\ ~raced' => pending' \subseteq leftover'
  BY <1>0, <1>4 DEF LateInv
<1>5. CASE UNCHANGED late /\ (stopper = "up" => UNCHANGED stopper)
  BY <1>0, <1>1, <1>4, <1>5 DEF LateInv, late
<1>6. CASE Background
  <2>1. stopper' # "up" /\ ~raced' => pending' \subseteq leftover'
    BY <1>4, <1>6, BackgroundMoves
  <2>2. lateScan' => raced'
    BY <1>0, <1>2, <1>6, BackgroundMoves, ScanIsRaced DEF LateInv
  <2>3. ASSUME ~raced'
        PROVE  lateCalls' \subseteq leftover'
    <3>1. CASE UNCHANGED lateCalls
      BY <1>0, <1>6, <2>3, <3>1, BackgroundMoves DEF LateInv
    <3>2. ASSUME NEW p \in pending, CoreStopped, lateCalls' = lateCalls \cup {p}
          PROVE  lateCalls' \subseteq leftover'
      <4>1. stopper = "done" /\ ~raced
        BY <1>0, <1>2, <2>3, <3>2
      <4>2. UNCHANGED leftover
        BY <1>6, BackgroundMoves
      <4> QED
        BY <3>2, <4>1, <4>2 DEF LateInv
    <3> QED
      BY <1>6, <3>1, <3>2, BackgroundMoves
  <2>4. stopper' # "done" => ~lateScan' /\ lateCalls' = {}
    BY <1>0, <1>2, <1>6, BackgroundMoves DEF LateInv
  <2> QED
    BY <1>1, <2>1, <2>2, <2>3, <2>4 DEF LateInv
<1> QED
  BY <1>3, <1>5, <1>6, LateMoves

\* On the way out the core is used after it has been stopped only by a check that
\* autopeering's Stop() raced with, or by the goroutines that were on their way to
\* their CallPeer when that Stop() began: for any timeouts, any public peers and
\* however late goroutines and timers run.
THEOREM LateUseIsAlwaysExplained == Spec => []LateUseIsExplained
<1>1. Init => LateInv
  BY DEF Init, LateInv, AP!Init
<1>2. LateInv => LateUseIsExplained
  BY DEF LateInv, LateUseIsExplained
<1>3. AP!TypeOK <=> APP!TypeOK
  BY SameModule
<1> QED
  BY <1>1, <1>2, <1>3, LateStep, OrderHolds, ModuleHolds, PTL DEF Spec

-----------------------------------------------------------------------------
(* The program at the other end of the admin socket: yggdrasilctl, for any  *)
(* endpoints, any configuration file and any behaviour of the daemons.      *)

\* A command line without a command ends in the usage text.
ArgsInv == pc \notin {"parse", "exited"} => command.args # "none"

LEMMA ArgsHold == ClientSpec => []ArgsInv
<1>1. ClientInit => ArgsInv
  BY DEF ClientInit, ArgsInv
<1>2. ArgsInv /\ [ClientNext]_clientVars => ArgsInv'
  <2> SUFFICES ASSUME ArgsInv, [ClientNext]_clientVars PROVE ArgsInv'
    OBVIOUS
  <2>1. CASE Client
    BY <2>1 DEF Client, ArgsInv, ParseFlagsAndArgs, SetEndpoint, DialsNothing,
                Dial, Send, Receive, Recover, GoOn, ExitWith
  <2>2. CASE Daemon \/ UNCHANGED clientVars
    BY <2>2 DEF Daemon, clientVars, ArgsInv, Apply, Answer, DaemonStops,
                DaemonStarts
  <2> QED
    BY <2>1, <2>2 DEF ClientNext
<1> QED BY <1>1, <1>2, PTL DEF ClientSpec

\* The program counter, the endpoint, the exchange and the exit code keep their
\* types, whatever the configuration file names as the endpoint.
THEOREM ClientTypes == ClientSpec => []ClientTypeOK
<1>1. ClientInit => ClientTypeOK
  BY EndpointAssumption DEF ClientInit, ClientTypeOK, Running
<1>2. ClientTypeOK /\ ArgsInv /\ [ClientNext]_clientVars => ClientTypeOK'
  <2> SUFFICES ASSUME ClientTypeOK, ArgsInv, [ClientNext]_clientVars PROVE ClientTypeOK'
    OBVIOUS
  <2>1. CASE ParseFlagsAndArgs
    BY <2>1 DEF ClientTypeOK, ParseFlagsAndArgs, ExitWith, GoOn, Running
  <2>2. CASE SetEndpoint
    <3>1. command.server \in Endpoints \cup {Unsupported}
      BY DEF ClientTypeOK, Commands
    <3>2. endpoint' \in Endpoints \cup {Unsupported}
      BY <2>2, <3>1 DEF ClientTypeOK, SetEndpoint, ConfigFiles
    <3>3. pc' \in {"dial", "panicking"} /\ UNCHANGED <<exitCode, output>>
      BY <2>2 DEF SetEndpoint, GoOn
    <3> QED
      BY <2>2, <3>2, <3>3 DEF ClientTypeOK, SetEndpoint
  <2>3. CASE DialsNothing
    BY <2>3 DEF ClientTypeOK, DialsNothing, GoOn
  <2>4. CASE Dial
    BY <2>4 DEF ClientTypeOK, Dial, GoOn
  <2>5. CASE Send
    <3>1. request' \in {Nothing, "unnamed", "table", "raw"}
      BY <2>5 DEF ClientTypeOK, ArgsInv, Send, Commands
    <3> QED
      BY <2>5, <3>1 DEF ClientTypeOK, Send, GoOn
  <2>6. CASE Receive
    BY <2>6 DEF ClientTypeOK, Receive, GoOn, ExitWith, Running
  <2>7. CASE Recover
    BY <2>7 DEF ClientTypeOK, Recover, ExitWith, Running
  <2>8. CASE Apply
    BY <2>8 DEF ClientTypeOK, Apply
  <2>9. CASE Answer
    <3>1. reply' \in Replies
      BY <2>9 DEF Answer, Replies
    <3> QED
      BY <2>9, <3>1 DEF ClientTypeOK, Answer
  <2>10. ASSUME NEW e \in Endpoints, DaemonStops(e) \/ DaemonStarts(e)
         PROVE  ClientTypeOK'
    <3>1. listening' \in SUBSET Endpoints
      BY <2>10 DEF ClientTypeOK, DaemonStops, DaemonStarts
    <3>2. conn' \in {"none", "refused", "open", "lost"}
      BY <2>10 DEF ClientTypeOK, DaemonStops, DaemonStarts
    <3> QED
      BY <2>10, <3>1, <3>2, Zenon DEF ClientTypeOK, DaemonStops, DaemonStarts
  <2>11. CASE UNCHANGED clientVars
    BY <2>11 DEF ClientTypeOK, clientVars
  <2> QED
    BY <2>1, <2>2, <2>3, <2>4, <2>5, <2>6, <2>7, <2>8, <2>9, <2>10, <2>11
       DEF ClientNext, Client, Daemon
<1> QED BY <1>1, <1>2, ArgsHold, PTL DEF ClientSpec

-----------------------------------------------------------------------------
(* The report.                                                              *)

\* The exchange up to the moment the client reads the answer: the daemon does
\* nothing before it is asked nor after it has answered, an answer other than an
\* error means that it did what was asked, and so is what the client reports.
ExchangeInv ==
  /\ pc \in {"parse", "endpoint", "dial", "send"} => request = Nothing
  /\ request = Nothing => ~applied /\ reply = Nothing
  /\ reply \in {"success", "odd", "garbled"} => applied
  /\ reply = "error" => ~applied
  /\ output = "result" => reply \in {"success", "odd"} /\ exitCode = 0
  /\ exitCode = 1 => reply = "error" /\ output = "error"
  /\ pc # "exited" => output = Nothing /\ exitCode = Running

\* The types that the argument needs.
ReplyType ==
  /\ reply \in {Nothing} \cup Replies
  /\ request \in {Nothing, "unnamed", "table", "raw"}

LEMMA ExchangeHolds == ClientSpec => []ExchangeInv
<1>1. ClientInit => ExchangeInv
  BY DEF ClientInit, ExchangeInv, Running, Nothing
<1>2. ClientTypeOK /\ ExchangeInv /\ [ClientNext]_clientVars => ExchangeInv'
  <2> SUFFICES ASSUME ClientTypeOK, ExchangeInv, [ClientNext]_clientVars PROVE ExchangeInv'
    OBVIOUS
  <2>0. ReplyType
    BY DEF ClientTypeOK, ReplyType
  <2>1. CASE ParseFlagsAndArgs \/ SetEndpoint \/ DialsNothing \/ Dial
             \/ Recover
    BY <2>1 DEF ExchangeInv, ParseFlagsAndArgs, SetEndpoint, DialsNothing,
                Dial, Recover, ExitWith, GoOn, Running
  <2>2. CASE Send
    BY <2>2 DEF ExchangeInv, Send, GoOn, Running
  <2>3. CASE Receive
    BY <2>0, <2>3 DEF ExchangeInv, Receive, Closed, Printable, ExitWith, GoOn,
                      Running, ReplyType, Replies, Nothing
  <2>4. CASE Apply
    BY <2>0, <2>4 DEF ExchangeInv, Apply, Awaiting, Nothing
  <2>5. CASE Answer
    BY <2>0, <2>5 DEF ExchangeInv, Answer, Awaiting, Nothing
  <2>6. ASSUME NEW e \in Endpoints, DaemonStops(e) \/ DaemonStarts(e)
        PROVE  ExchangeInv'
    BY <2>6 DEF ExchangeInv, DaemonStops, DaemonStarts
  <2>7. CASE UNCHANGED clientVars
    BY <2>7 DEF ExchangeInv, clientVars
  <2> QED
    BY <2>1, <2>2, <2>3, <2>4, <2>5, <2>6, <2>7 DEF ClientNext, Client, Daemon
<1> QED BY <1>1, <1>2, ClientTypes, PTL DEF ClientSpec

\* A result on the screen means that the daemon carried the request out, and the
\* exit code 1 that it refused: whatever is lost, garbled or restarted between.
THEOREM ReportIsAlwaysTrue == ClientSpec => []ReportIsTrue
<1>1. ExchangeInv => ReportIsTrue
  BY DEF ExchangeInv, ReportIsTrue
<1> QED BY <1>1, ExchangeHolds, PTL
=============================================================================
