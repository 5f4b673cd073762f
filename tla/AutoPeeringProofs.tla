-------------------------- MODULE AutoPeeringProofs --------------------------
(* Proofs about the autopeering module, for all peers and all timeouts that   *)
(* satisfy the assumptions of AutoPeering.                                    *)
EXTENDS AutoPeering, TLAPS

LEMMA AgesAreNaturals ==
  /\ Bound \in Nat
  /\ Horizon \in Nat
  /\ \A a \in Age : Older(a) \in Age
  /\ \A t \in 0 .. PeerCheckTimeout : Less(t) \in 0 .. PeerCheckTimeout
  /\ \A t \in 0 .. DialTimeout : Less(t) \in 0 .. DialTimeout
BY TimeAssumption DEF Bound, Horizon, Age, Older, Less

-----------------------------------------------------------------------------
(* Type correctness.                                                        *)

\* What the steps of the core leave alone.
LEMMA CoreStep ==
  ASSUME TypeOK, Core
  PROVE  /\ calls' \in SUBSET PublicPeers
         /\ peers' \in SUBSET Peers
         /\ FlipClock
         /\ UNCHANGED <<prompt, enabled, hadPeers, checkPeerTimer, timerState, timerLeft,
                        loop, havePeers, dialLeft, pending, stopper, sinceProbe, raced>>
<1>1. ASSUME NEW p \in PublicPeers, CallReturns(p)
      PROVE  /\ calls' \in SUBSET PublicPeers
             /\ peers' \in SUBSET Peers
             /\ FlipClock
             /\ UNCHANGED <<prompt, enabled, hadPeers, checkPeerTimer, timerState, timerLeft,
                            loop, havePeers, dialLeft, pending, stopper, sinceProbe, raced>>
  BY <1>1 DEF TypeOK, CallReturns, Peers
<1>2. ASSUME NEW p \in Peers, PeerUp(p) \/ PeerDown(p)
      PROVE  /\ calls' \in SUBSET PublicPeers
             /\ peers' \in SUBSET Peers
             /\ FlipClock
             /\ UNCHANGED <<prompt, enabled, hadPeers, checkPeerTimer, timerState, timerLeft,
                            loop, havePeers, dialLeft, pending, stopper, sinceProbe, raced>>
  BY <1>2 DEF TypeOK, PeerUp, PeerDown, code
<1> QED
  BY <1>1, <1>2 DEF Core, Peers

\* What the start of a call leaves alone.
LEMMA CallStep ==
  ASSUME TypeOK, \E p \in PublicPeers : CallPeer(p)
  PROVE  /\ pending' \in SUBSET PublicPeers /\ calls' \in SUBSET PublicPeers
         /\ pending' \subseteq pending
         /\ (pending \cup calls)' = pending \cup calls
         /\ UNCHANGED <<prompt, enabled, hadPeers, checkPeerTimer, timerState, timerLeft,
                        loop, havePeers, dialLeft, stopper, peers, sinceFlip, sinceProbe,
                        raced>>
BY DEF TypeOK, CallPeer

\* The clock of the core's peers is reset exactly when HavePeers changes.
LEMMA FlipClockResets ==
  ASSUME FlipClock
  PROVE  \/ sinceFlip' = 0
         \/ sinceFlip' = sinceFlip /\ (HavePeers(peers') <=> HavePeers(peers))
BY DEF FlipClock, HavePeers

LEMMA TypeStep == TypeOK /\ [Next]_vars => TypeOK'
<1> SUFFICES ASSUME TypeOK, [Next]_vars
             PROVE  TypeOK'
  OBVIOUS
<1> USE DEF LoopPC
<1>age. Horizon \in Age /\ 0 \in Age
  BY AgesAreNaturals DEF Age
<1>1. CASE Start
  BY <1>1 DEF TypeOK, Start
<1>2. CASE StopReads \/ StopStopsTimer
  BY <1>2 DEF TypeOK, StopReads, StopStopsTimer
<1>3. CASE ScanPeers
  BY <1>3 DEF TypeOK, ScanPeers, HavePeers
<1>4. CASE SawPeers \/ TooEarly
  BY <1>4, <1>age DEF TypeOK, SawPeers, TooEarly
<1>5. CASE StartProbe
  BY <1>5, <1>age, TimeAssumption DEF TypeOK, StartProbe
<1>6. CASE FinishProbe
  BY <1>6 DEF TypeOK, FinishProbe
<1>7. CASE ArmTimer
  <2>1. timerLeft' \in 0 .. PeerCheckTimeout
    BY <1>7, TimeAssumption DEF ArmTimer
  <2> QED
    BY <1>7, <2>1 DEF TypeOK, ArmTimer
<1>8. CASE PublishTimer
  BY <1>8 DEF TypeOK, PublishTimer
<1>9. CASE FireTimer
  BY <1>9 DEF TypeOK, FireTimer
<1>10. CASE Core
  <2>1. sinceFlip' \in Age
    BY <1>10, <1>age, CoreStep, FlipClockResets DEF TypeOK
  <2> QED
    BY <1>10, <2>1, CoreStep DEF TypeOK
<1>11. CASE Tick
  BY <1>11, AgesAreNaturals DEF TypeOK, Tick
<1>12. CASE UNCHANGED vars
  BY <1>12 DEF TypeOK, vars
<1>13. CASE \E p \in PublicPeers : CallPeer(p)
  BY <1>13, CallStep DEF TypeOK
<1> QED
  BY <1>1, <1>2, <1>3, <1>4, <1>5, <1>6, <1>7, <1>8, <1>9, <1>10,
     <1>11, <1>12, <1>13
     DEF Next, CheckPeerLoop

LEMMA InitTypes == Init => TypeOK
<1>1. Horizon \in Age /\ 0 \in 0 .. PeerCheckTimeout /\ 0 \in 0 .. DialTimeout
  BY AgesAreNaturals, TimeAssumption DEF Age
<1> QED
  BY <1>1 DEF Init, TypeOK, LoopPC

\* Type correctness: in particular Stop() always finds no timer or one of the
\* loop's, and every age and countdown keeps its range.
THEOREM AutoPeeringTypes == Spec => []TypeOK
BY InitTypes, TypeStep, PTL DEF Spec
-----------------------------------------------------------------------------
(* The race of Stop() with the loop.                                        *)

\* The inductive invariant.  A published timer is the one the loop sleeps on;
\* while the loop runs, the field holds no armed timer; and a Stop() that saw
\* the loop asleep all along holds, or has stopped, the timer it sleeps on.
StopInv ==
  /\ loop = "publish" =>
       timerState = "armed" /\ checkPeerTimer # "latest" /\ stopper # "latest"
  /\ loop = "asleep" =>
       timerState \in {"armed", "stopped"} /\ checkPeerTimer = "latest"
  /\ stopper = "spent" => raced
  /\ stopper = "latest" /\ ~raced => loop = "asleep"
  /\ stopper = "done" /\ ~raced => loop = "asleep" /\ timerState = "stopped"
  /\ stopper # "up" => loop # "idle"

LEMMA StopStep == TypeOK /\ StopInv /\ [Next]_vars => StopInv'
<1> SUFFICES ASSUME TypeOK, StopInv, [Next]_vars
             PROVE  StopInv'
  OBVIOUS
<1> USE DEF StopInv
<1>1. CASE Start
  BY <1>1 DEF TypeOK, Start
<1>2. CASE StopReads
  BY <1>2 DEF TypeOK, StopReads
<1>3. CASE StopStopsTimer
  BY <1>3 DEF TypeOK, StopStopsTimer
<1>4. CASE ScanPeers \/ SawPeers \/ TooEarly
  BY <1>4 DEF ScanPeers, SawPeers, TooEarly
<1>5. CASE StartProbe \/ FinishProbe
  BY <1>5 DEF StartProbe, FinishProbe
<1>6. CASE ArmTimer
  BY <1>6 DEF TypeOK, ArmTimer
<1>7. CASE PublishTimer
  BY <1>7 DEF TypeOK, PublishTimer
<1>8. CASE FireTimer
  BY <1>8 DEF TypeOK, FireTimer
<1>9. CASE Core
  BY <1>9, CoreStep
<1>10. CASE Tick
  BY <1>10 DEF Tick
<1>11. CASE UNCHANGED vars
  BY <1>11 DEF vars
<1>12. CASE \E p \in PublicPeers : CallPeer(p)
  BY <1>12, CallStep
<1> QED
  BY <1>1, <1>2, <1>3, <1>4, <1>5, <1>6, <1>7, <1>8, <1>9, <1>10, <1>11, <1>12
     DEF Next, CheckPeerLoop

\* Stop() leaves the loop running only if it raced with a check, whatever the
\* timeouts and however late timers and goroutines are (module.go:48-53, 84-86).
THEOREM StopMissesOnlyByRaceHolds == Spec => []StopMissesOnlyByRace
<1>1. Init => StopInv
  BY DEF Init, StopInv
<1>2. TypeOK /\ StopInv => StopMissesOnlyByRace
  BY DEF StopInv, StopMissesOnlyByRace, Waiting
<1> QED
  BY <1>1, <1>2, StopStep, InitTypes, TypeStep, PTL DEF Spec

-----------------------------------------------------------------------------
(* The module implements ProbePacing.                                       *)

\* hadPeers is refreshed by every probe, so it is never older than the last one.
PacingInv == hadPeers <= sinceProbe

LEMMA PacingInvStep == TypeOK /\ PacingInv /\ [Next]_vars => PacingInv'
<1> SUFFICES ASSUME TypeOK, PacingInv, [Next]_vars
             PROVE  PacingInv'
  OBVIOUS
<1>age. hadPeers \in Nat /\ sinceProbe \in Nat /\ Horizon \in Nat
  BY AgesAreNaturals DEF TypeOK, Age
<1> USE <1>age DEF PacingInv
<1>1. CASE UNCHANGED <<hadPeers, sinceProbe>>
  BY <1>1
<1>2. CASE SawPeers \/ StartProbe
  BY <1>2 DEF SawPeers, StartProbe
<1>3. CASE Tick
  BY <1>3 DEF Tick, Older
<1>4. Start \/ StopReads \/ StopStopsTimer \/ ScanPeers \/ TooEarly
        => UNCHANGED <<hadPeers, sinceProbe>>
  BY DEF Start, StopReads, StopStopsTimer, ScanPeers, TooEarly
<1>5. FinishProbe \/ ArmTimer \/ PublishTimer \/ FireTimer \/ UNCHANGED vars
        => UNCHANGED <<hadPeers, sinceProbe>>
  BY DEF FinishProbe, ArmTimer, PublishTimer, FireTimer, vars
<1>6. Core \/ (\E p \in PublicPeers : CallPeer(p)) => UNCHANGED <<hadPeers, sinceProbe>>
  BY CoreStep, CallStep
<1> QED
  BY <1>1, <1>2, <1>3, <1>4, <1>5, <1>6 DEF Next, CheckPeerLoop

LEMMA PacingStep ==
  ASSUME TypeOK, PacingInv, [Next]_vars
  PROVE  [Pacing!Next]_<<sinceProbe, loop = "probing", pending \cup calls>>
<1> DEFINE Stutter ==
      /\ UNCHANGED <<sinceProbe, pending \cup calls>>
      /\ (loop' = "probing") = (loop = "probing")
<1>1. CASE StartProbe
  <2>1. sinceProbe > AutopeerTimeout
    BY <1>1, AgesAreNaturals, TimeAssumption DEF StartProbe, TypeOK, Age, PacingInv
  <2>2. Pacing!Probe
    BY <1>1, <2>1 DEF StartProbe, Pacing!Probe
  <2> QED
    BY <2>2 DEF Pacing!Next
<1>2. CASE FinishProbe
  <2>1. \/ (pending \cup calls)' = pending \cup calls
        \/ \E p \in PublicPeers : (pending \cup calls)' = (pending \cup calls) \cup {p}
    BY <1>2 DEF FinishProbe
  <2>2. Pacing!CallOneOrNone
    BY <1>2, <2>1 DEF FinishProbe, Pacing!CallOneOrNone
  <2> QED
    BY <2>2 DEF Pacing!Next
<1>3. CASE Core
  <2>1. UNCHANGED <<sinceProbe, loop>>
    BY <1>3, CoreStep
  <2>2. \/ (pending \cup calls)' = pending \cup calls
        \/ \E p \in pending \cup calls : (pending \cup calls)' = (pending \cup calls) \ {p}
    <3>1. UNCHANGED pending /\ (calls' = calls \/ \E p \in calls : calls' = calls \ {p})
      BY <1>3 DEF Core, CallReturns, PeerUp, PeerDown, code
    <3>2. ASSUME NEW p \in calls, calls' = calls \ {p}
          PROVE  (pending \cup calls)' = pending \cup calls
                 \/ (pending \cup calls)' = (pending \cup calls) \ {p}
      BY <3>1, <3>2
    <3> QED
      BY <3>1, <3>2
  <2> QED
    BY <2>1, <2>2 DEF Pacing!Next, Pacing!CallEnds
<1>4. CASE Tick
  <2>1. Pacing!TimePasses
    BY <1>4 DEF Tick, Older, Pacing!TimePasses
  <2> QED
    BY <2>1 DEF Pacing!Next
<1>5. CASE \E p \in PublicPeers : CallPeer(p)
  <2>1. Stutter
    BY <1>5, CallStep
  <2> QED
    BY <2>1
<1>6. CASE Start \/ StopReads \/ StopStopsTimer \/ UNCHANGED vars
  <2>1. Stutter
    BY <1>6 DEF Start, StopReads, StopStopsTimer, vars
  <2> QED
    BY <2>1
<1>7. CASE ScanPeers \/ SawPeers \/ TooEarly
  <2>1. Stutter
    BY <1>7 DEF ScanPeers, SawPeers, TooEarly
  <2> QED
    BY <2>1
<1>8. CASE ArmTimer \/ PublishTimer \/ FireTimer
  <2>1. Stutter
    BY <1>8 DEF ArmTimer, PublishTimer, FireTimer
  <2> QED
    BY <2>1
<1> QED
  BY <1>1, <1>2, <1>3, <1>4, <1>5, <1>6, <1>7, <1>8 DEF Next, CheckPeerLoop

\* The module is a paced caller: it implements ProbePacing, so probes are more
\* than AutopeerTimeout apart and call at most one peer each (module.go:66-82).
THEOREM AutoPeeringIsPaced == Spec => PacedCaller
<1>1. Init => PacingInv /\ Pacing!Init
  <2>1. Horizon <= Horizon
    BY AgesAreNaturals
  <2> QED
    BY <2>1 DEF Init, PacingInv, Pacing!Init
<1> QED
  BY <1>1, InitTypes, TypeStep, PacingInvStep, PacingStep, PTL
     DEF Spec, PacedCaller, Pacing!Spec

-----------------------------------------------------------------------------
(* A machine that keeps up.                                                 *)

\* The inductive invariant, one conjunct per stage of the loop: hadPeers is
\* fresh enough at each stage for the next check to come before Bound.
FreshInv ==
  /\ loop = "probing" => hadPeers + dialLeft <= DialTimeout
  /\ loop = "rearm" => hadPeers <= AutopeerTimeout
  /\ loop \in {"publish", "asleep"} /\ timerState = "armed" =>
       hadPeers + timerLeft <= Bound

\* While there are no Internet peers only a probe can have refreshed hadPeers:
\* a scan that still saw them has been acted upon at once.
LonelyInv ==
  ~HavePeers(peers) =>
    /\ loop = "decide" /\ havePeers => sinceFlip = 0
    /\ hadPeers < sinceFlip => sinceProbe = hadPeers

\* While there are Internet peers a scan that saw none was just before they came,
\* and a probe under way began then or before they came.
StaleInv ==
  HavePeers(peers) =>
    /\ loop = "decide" /\ ~havePeers => sinceFlip = 0
    /\ loop = "probing" => sinceFlip + dialLeft <= DialTimeout

PromptInv == prompt => FreshInv /\ LonelyInv /\ StaleInv

\* What the arithmetic below needs from the types.
LEMMA PromptNumbers ==
  ASSUME TypeOK
  PROVE  /\ hadPeers \in Nat /\ sinceFlip \in Nat /\ sinceProbe \in Nat
         /\ hadPeers <= Horizon /\ sinceFlip <= Horizon /\ sinceProbe <= Horizon
         /\ timerLeft \in Nat /\ dialLeft \in Nat
         /\ timerLeft <= PeerCheckTimeout /\ dialLeft <= DialTimeout
BY AgesAreNaturals, TimeAssumption DEF TypeOK, Age

LEMMA FreshStep ==
  ASSUME TypeOK, FreshInv, [Next]_vars, Tick => ~Due
  PROVE  FreshInv'
<1> USE PromptNumbers, TimeAssumption DEF FreshInv
<1>1. CASE Start
  BY <1>1 DEF Start
<1>2. CASE StopReads \/ StopStopsTimer
  BY <1>2 DEF StopReads, StopStopsTimer
<1>3. CASE ScanPeers
  BY <1>3 DEF ScanPeers
<1>4. CASE SawPeers \/ TooEarly
  BY <1>4 DEF SawPeers, TooEarly
<1>5. CASE StartProbe
  BY <1>5 DEF StartProbe
<1>6. CASE FinishProbe
  BY <1>6 DEF FinishProbe
<1>7. CASE ArmTimer
  BY <1>7 DEF ArmTimer, Bound
<1>8. CASE PublishTimer
  BY <1>8 DEF PublishTimer
<1>9. CASE FireTimer
  BY <1>9 DEF FireTimer
<1>10. CASE Core
  BY <1>10, CoreStep
<1>11. CASE Tick
  <2>1. hadPeers' <= hadPeers + 1 /\ hadPeers' \in Nat
    BY <1>11, AgesAreNaturals DEF Tick, Older
  <2>2. loop' = loop /\ timerState' = timerState /\ loop \notin {"rearm", "publish"}
    BY <1>11 DEF Tick, Due
  <2>3. ASSUME loop = "probing"
        PROVE  hadPeers' + dialLeft' <= DialTimeout
    BY <1>11, <2>1, <2>3 DEF Tick, Due, Less
  <2>4. ASSUME loop = "asleep", timerState = "armed"
        PROVE  hadPeers' + timerLeft' <= Bound
    BY <1>11, <2>1, <2>4, AgesAreNaturals DEF Tick, Due, Less
  <2> QED
    BY <2>2, <2>3, <2>4
<1>12. CASE UNCHANGED vars
  BY <1>12 DEF vars
<1>13. CASE \E p \in PublicPeers : CallPeer(p)
  BY <1>13, CallStep
<1> QED
  BY <1>1, <1>2, <1>3, <1>4, <1>5, <1>6, <1>7, <1>8, <1>9, <1>10, <1>11, <1>12, <1>13
     DEF Next, CheckPeerLoop

LEMMA LonelyStep ==
  ASSUME TypeOK, LonelyInv, [Next]_vars, Tick => ~Due
  PROVE  LonelyInv'
<1> USE DEF LonelyInv
<1>1. CASE Start
  BY <1>1 DEF Start
<1>2. CASE StopReads \/ StopStopsTimer
  BY <1>2 DEF StopReads, StopStopsTimer
<1>3. CASE ScanPeers
  BY <1>3 DEF ScanPeers
<1>4. CASE SawPeers
  BY <1>4, PromptNumbers DEF SawPeers
<1>5. CASE TooEarly
  BY <1>5 DEF TooEarly
<1>6. CASE StartProbe
  BY <1>6 DEF StartProbe
<1>7. CASE FinishProbe
  BY <1>7 DEF FinishProbe
<1>8. CASE ArmTimer \/ PublishTimer \/ FireTimer
  BY <1>8 DEF ArmTimer, PublishTimer, FireTimer
<1>9. CASE Core
  <2>1. CASE sinceFlip' = 0
    BY <1>9, <2>1, CoreStep, PromptNumbers
  <2>2. CASE sinceFlip' = sinceFlip /\ (HavePeers(peers') <=> HavePeers(peers))
    BY <1>9, <2>2, CoreStep
  <2> QED
    BY <1>9, <2>1, <2>2, CoreStep, FlipClockResets
<1>10. CASE Tick
  <2>1. loop' # "decide" /\ peers' = peers
    BY <1>10 DEF Tick, Due
  <2>2. ASSUME ~HavePeers(peers), hadPeers' < sinceFlip'
        PROVE  sinceProbe' = hadPeers'
    BY <1>10, <2>2, PromptNumbers, AgesAreNaturals DEF Tick, Older
  <2> QED
    BY <2>1, <2>2
<1>11. CASE UNCHANGED vars
  BY <1>11 DEF vars
<1>12. CASE \E p \in PublicPeers : CallPeer(p)
  BY <1>12, CallStep
<1> QED
  BY <1>1, <1>2, <1>3, <1>4, <1>5, <1>6, <1>7, <1>8, <1>9, <1>10, <1>11, <1>12
     DEF Next, CheckPeerLoop

LEMMA StaleStep ==
  ASSUME TypeOK, StaleInv, [Next]_vars, Tick => ~Due
  PROVE  StaleInv'
<1> USE DEF StaleInv
<1>1. CASE Start
  BY <1>1 DEF Start
<1>2. CASE StopReads \/ StopStopsTimer
  BY <1>2 DEF StopReads, StopStopsTimer
<1>3. CASE ScanPeers
  BY <1>3 DEF ScanPeers
<1>4. CASE SawPeers \/ TooEarly
  BY <1>4 DEF SawPeers, TooEarly
<1>5. CASE StartProbe
  BY <1>5, TimeAssumption DEF StartProbe
<1>6. CASE FinishProbe
  BY <1>6 DEF FinishProbe
<1>7. CASE ArmTimer \/ PublishTimer \/ FireTimer
  BY <1>7 DEF ArmTimer, PublishTimer, FireTimer
<1>8. CASE Core
  <2>1. CASE sinceFlip' = 0
    BY <1>8, <2>1, CoreStep, PromptNumbers
  <2>2. CASE sinceFlip' = sinceFlip /\ (HavePeers(peers') <=> HavePeers(peers))
    BY <1>8, <2>2, CoreStep
  <2> QED
    BY <1>8, <2>1, <2>2, CoreStep, FlipClockResets
<1>9. CASE Tick
  <2>1. loop' # "decide" /\ loop' = loop /\ peers' = peers
    BY <1>9 DEF Tick, Due
  <2>2. ASSUME HavePeers(peers), loop = "probing"
        PROVE  sinceFlip' + dialLeft' <= DialTimeout
    BY <1>9, <2>2, PromptNumbers, TimeAssumption DEF Tick, Due, Older, Less
  <2> QED
    BY <2>1, <2>2
<1>10. CASE UNCHANGED vars
  BY <1>10 DEF vars
<1>11. CASE \E p \in PublicPeers : CallPeer(p)
  BY <1>11, CallStep
<1> QED
  BY <1>1, <1>2, <1>3, <1>4, <1>5, <1>6, <1>7, <1>8, <1>9, <1>10, <1>11
     DEF Next, CheckPeerLoop

\* The inductive invariant of a machine that keeps up.
LEMMA PromptInvariant == Spec => [](TypeOK /\ PromptInv)
<1>1. Init => TypeOK /\ PromptInv
  BY InitTypes DEF Init, PromptInv, FreshInv, LonelyInv, StaleInv, HavePeers
<1>2. TypeOK /\ PromptInv /\ [Next]_vars => PromptInv'
  <2>1. TypeOK /\ [Next]_vars => prompt' = prompt
    BY CoreStep, CallStep DEF Next, Start, StopReads, StopStopsTimer, CheckPeerLoop, ScanPeers,
       SawPeers, TooEarly, StartProbe, FinishProbe, ArmTimer, PublishTimer, FireTimer,
       Tick, vars
  <2>2. Tick /\ prompt => ~Due
    BY DEF Tick
  <2> QED
    BY <2>1, <2>2, FreshStep, LonelyStep, StaleStep DEF PromptInv
<1> QED
  BY <1>1, <1>2, TypeStep, PTL DEF Spec

\* A lonely node never waits longer than AutopeerTimeout + PeerCheckTimeout for
\* the next probe, whatever the timeouts, and however peers come and go.
THEOREM LonelyNodeAlwaysProbes == Spec => []LonelyNodeProbes
<1>1. TypeOK /\ PromptInv => LonelyNodeProbes
  <2> SUFFICES ASSUME TypeOK, PromptInv, prompt, Waiting, ~HavePeers(peers), sinceFlip > Bound
               PROVE  sinceProbe <= Bound
    BY DEF LonelyNodeProbes
  <2>1. hadPeers <= Bound
    BY PromptNumbers, AgesAreNaturals DEF PromptInv, FreshInv, Waiting
  <2>2. hadPeers < sinceFlip
    BY <2>1, PromptNumbers, AgesAreNaturals
  <2> QED
    BY <2>1, <2>2 DEF PromptInv, LonelyInv
<1> QED
  BY <1>1, PromptInvariant, PTL

\* The scan that a probe acts upon is never older than the dials it has made.
THEOREM StaleScanAlwaysBounded == Spec => []StaleScanBounded
<1>1. TypeOK /\ PromptInv => StaleScanBounded
  BY PromptNumbers, TimeAssumption DEF PromptInv, StaleInv, StaleScanBounded
<1> QED
  BY <1>1, PromptInvariant, PTL
=============================================================================
