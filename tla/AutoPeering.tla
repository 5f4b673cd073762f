----------------------------- MODULE AutoPeering -----------------------------
(***************************************************************************)
(* The autopeering module of src/autopeering/module.go.  When it is        *)
(* enabled, a goroutine looks at the core's peers every PeerCheckTimeout;   *)
(* once no Internet peer has been seen for more than AutopeerTimeout it     *)
(* probes the embedded public peers and calls one of them.  The goroutine   *)
(* re-arms a timer that runs the next check, and Stop(), called from the    *)
(* main goroutine without any lock, tries to stop that timer.               *)
(*                                                                         *)
(* Every goroutine step that another goroutine can observe is an action.    *)
(* Time is discrete and kept as ages and countdowns instead of timestamps:  *)
(* an age saturates at Horizon, beyond which the code cannot tell two ages  *)
(* apart, so the state space is finite and behaviours are unbounded.        *)
(***************************************************************************)
EXTENDS Naturals

CONSTANTS
  PublicPeers,       \* the peers embedded from peers.txt
  Neighbours,        \* peers that come by themselves: configured or multicast
  LinkLocal,         \* the neighbours whose Remote starts with linkLocalPrefix
  AutopeerTimeout,   \* 30 s in the code
  PeerCheckTimeout,  \* 10 s in the code
  DialTimeout        \* defaultTimeout of main.go, 3 s in the code

ASSUME PeersAssumption ==
  /\ PublicPeers \cap Neighbours = {}
  /\ LinkLocal \subseteq Neighbours

ASSUME TimeAssumption ==
  /\ AutopeerTimeout \in Nat
  /\ PeerCheckTimeout \in Nat \ {0}
  /\ DialTimeout \in Nat
  /\ DialTimeout <= AutopeerTimeout

VARIABLES
  prompt,          \* the machine keeps up (external): no step of the code is late
  enabled,         \* ap.enabled, set by Init from the -autopeer flag
  hadPeers,        \* age of ap.hadPeers: time.Since(ap.hadPeers)
  checkPeerTimer,  \* what the field refers to: "nil", the "latest" timer, a "spent" one
  timerState,      \* the latest timer: "none", "armed", "fired" or "stopped"
  timerLeft,       \* time left on the latest timer
  loop,            \* program counter of checkPeerLoop
  havePeers,       \* its local variable
  dialLeft,        \* time left before the slowest dial of a probe times out
  pending,         \* peers with a goroutine that has yet to call CallPeer
  calls,           \* peers with a CallPeer under way
  stopper,         \* Stop(): not called ("up"), the timer it read, or "done"
  peers,           \* the core's connected peers (external)
  sinceFlip,       \* history: age of the last change of HavePeers(peers)
  sinceProbe,      \* history: age of the last decision to probe
  raced            \* history: the loop was not asleep all through Stop()

code == <<prompt, enabled, hadPeers, checkPeerTimer, timerState, timerLeft, loop,
          havePeers, dialLeft, pending, calls, stopper, raced>>
vars == <<prompt, enabled, hadPeers, checkPeerTimer, timerState, timerLeft, loop,
          havePeers, dialLeft, pending, calls, stopper, peers, sinceFlip,
          sinceProbe, raced>>

Peers == PublicPeers \cup Neighbours

Bound == AutopeerTimeout + PeerCheckTimeout
Horizon == Bound + 1     \* older than anything the code distinguishes
Age == 0 .. Horizon
Older(a) == IF a < Horizon THEN a + 1 ELSE a
Less(t) == IF t > 0 THEN t - 1 ELSE t

LoopPC == {"idle", "off", "check", "decide", "probing", "rearm", "publish", "asleep"}

\* The loop's question to the core: is some peer not a link-local neighbour?
HavePeers(ps) == \E p \in ps : p \notin LinkLocal

TypeOK ==
  /\ prompt \in BOOLEAN
  /\ enabled \in BOOLEAN
  /\ hadPeers \in Age
  /\ checkPeerTimer \in {"nil", "latest", "spent"}
  /\ timerState \in {"none", "armed", "fired", "stopped"}
  /\ timerLeft \in 0 .. PeerCheckTimeout
  /\ loop \in LoopPC
  /\ havePeers \in BOOLEAN
  /\ dialLeft \in 0 .. DialTimeout
  /\ pending \in SUBSET PublicPeers
  /\ calls \in SUBSET PublicPeers
  /\ stopper \in {"up", "latest", "spent", "done"}
  /\ peers \in SUBSET Peers
  /\ sinceFlip \in Age
  /\ sinceProbe \in Age
  /\ raced \in BOOLEAN

(***************************************************************************)
(* Init() has run: the zero time.Time of hadPeers is older than any         *)
(* timeout, no timer exists, and no peer is connected yet.                  *)
(***************************************************************************)
Init ==
  /\ prompt \in BOOLEAN
  /\ enabled \in BOOLEAN
  /\ hadPeers = Horizon
  /\ checkPeerTimer = "nil"
  /\ timerState = "none"
  /\ timerLeft = 0
  /\ loop = "idle"
  /\ havePeers = FALSE
  /\ dialLeft = 0
  /\ pending = {}
  /\ calls = {}
  /\ stopper = "up"
  /\ peers = {}
  /\ sinceFlip = Horizon
  /\ sinceProbe = Horizon
  /\ raced = FALSE

-----------------------------------------------------------------------------
(* The main goroutine: Start() and Stop().                                  *)

Start ==
  /\ loop = "idle"
  /\ loop' = IF enabled THEN "check" ELSE "off"
  /\ UNCHANGED <<prompt, enabled, hadPeers, checkPeerTimer, timerState, timerLeft,
                 havePeers, dialLeft, pending, calls, stopper, peers, sinceFlip, sinceProbe,
                 raced>>

\* Mutant: Stop() without its nil check.
StopReadsUnchecked ==
  /\ loop # "idle"
  /\ stopper = "up"
  /\ stopper' = checkPeerTimer
  /\ raced' = (loop # "asleep")
  /\ UNCHANGED <<prompt, enabled, hadPeers, checkPeerTimer, timerState, timerLeft, loop,
                 havePeers, dialLeft, pending, calls, peers, sinceFlip, sinceProbe>>

\* Stop reads the field; it is done at once when there is no timer yet.
StopReads ==
  /\ loop # "idle"
  /\ stopper = "up"
  /\ stopper' = IF checkPeerTimer = "nil" THEN "done" ELSE checkPeerTimer
  /\ raced' = (loop # "asleep")
  /\ UNCHANGED <<prompt, enabled, hadPeers, checkPeerTimer, timerState, timerLeft, loop,
                 havePeers, dialLeft, pending, calls, peers, sinceFlip, sinceProbe>>

\* timer.Stop() prevents a timer that is still armed from firing, no other.
StopStopsTimer ==
  /\ stopper \in {"latest", "spent"}
  /\ stopper' = "done"
  /\ timerState' = IF stopper = "latest" /\ timerState = "armed"
                   THEN "stopped" ELSE timerState
  /\ UNCHANGED <<prompt, enabled, hadPeers, checkPeerTimer, timerLeft, loop, havePeers,
                 dialLeft, pending, calls, peers, sinceFlip, sinceProbe, raced>>

-----------------------------------------------------------------------------
(* checkPeerLoop.                                                           *)

\* Mutant: any peer counts, a link-local one too.
ScanAnyPeer ==
  /\ loop = "check"
  /\ havePeers' = (peers # {})
  /\ loop' = "decide"
  /\ UNCHANGED <<prompt, enabled, hadPeers, checkPeerTimer, timerState, timerLeft,
                 dialLeft, pending, calls, stopper, peers, sinceFlip, sinceProbe, raced>>

ScanPeers ==
  /\ loop = "check"
  /\ havePeers' = HavePeers(peers)
  /\ loop' = "decide"
  /\ UNCHANGED <<prompt, enabled, hadPeers, checkPeerTimer, timerState, timerLeft,
                 dialLeft, pending, calls, stopper, peers, sinceFlip, sinceProbe, raced>>

SawPeers ==
  /\ loop = "decide"
  /\ havePeers
  /\ hadPeers' = 0
  /\ loop' = "rearm"
  /\ UNCHANGED <<prompt, enabled, checkPeerTimer, timerState, timerLeft, havePeers,
                 dialLeft, pending, calls, stopper, peers, sinceFlip, sinceProbe, raced>>

TooEarly ==
  /\ loop = "decide"
  /\ ~havePeers
  /\ ~(hadPeers > AutopeerTimeout)
  /\ loop' = "rearm"
  /\ UNCHANGED <<prompt, enabled, hadPeers, checkPeerTimer, timerState, timerLeft,
                 havePeers, dialLeft, pending, calls, stopper, peers, sinceFlip, sinceProbe,
                 raced>>

\* Mutant: a probe does not refresh hadPeers.
StartProbeUnrefreshed ==
  /\ loop = "decide"
  /\ ~havePeers
  /\ hadPeers > AutopeerTimeout
  /\ sinceProbe' = 0
  /\ dialLeft' = DialTimeout
  /\ loop' = "probing"
  /\ UNCHANGED <<prompt, enabled, hadPeers, checkPeerTimer, timerState, timerLeft, havePeers,
                 pending, calls, stopper, peers, sinceFlip, raced>>

\* Mutant: the probe is not the else branch of havePeers.
StartProbeRegardless ==
  /\ loop = "decide"
  /\ hadPeers > AutopeerTimeout
  /\ hadPeers' = 0
  /\ sinceProbe' = 0
  /\ dialLeft' = DialTimeout
  /\ loop' = "probing"
  /\ UNCHANGED <<prompt, enabled, checkPeerTimer, timerState, timerLeft, havePeers,
                 pending, calls, stopper, peers, sinceFlip, raced>>

\* hadPeers is refreshed before the dials, whatever they will find.
StartProbe ==
  /\ loop = "decide"
  /\ ~havePeers
  /\ hadPeers > AutopeerTimeout
  /\ hadPeers' = 0
  /\ sinceProbe' = 0
  /\ dialLeft' = DialTimeout
  /\ loop' = "probing"
  /\ UNCHANGED <<prompt, enabled, checkPeerTimer, timerState, timerLeft, havePeers,
                 pending, calls, stopper, peers, sinceFlip, raced>>

\* Mutant: the loop returns after a probe without re-arming its timer.
FinishProbeUnarmed ==
  /\ loop = "probing"
  /\ \/ UNCHANGED pending
     \/ \E p \in PublicPeers : pending' = pending \cup {p}
  /\ loop' = "asleep"
  /\ UNCHANGED <<prompt, enabled, hadPeers, checkPeerTimer, timerState, timerLeft,
                 havePeers, dialLeft, calls, stopper, peers, sinceFlip, sinceProbe, raced>>

\* GetClosestPeers returns; RandomPick leaves one peer, or none when every
\* dial failed.  A goroutine is started that calls the peer without looking at
\* the core again.
FinishProbe ==
  /\ loop = "probing"
  /\ \/ UNCHANGED pending
     \/ \E p \in PublicPeers : pending' = pending \cup {p}
  /\ loop' = "rearm"
  /\ UNCHANGED <<prompt, enabled, hadPeers, checkPeerTimer, timerState, timerLeft,
                 havePeers, dialLeft, calls, stopper, peers, sinceFlip, sinceProbe, raced>>

\* time.AfterFunc starts a new timer: the field still refers to the one before.
ArmTimer ==
  /\ loop = "rearm"
  /\ timerState' = "armed"
  /\ timerLeft' = PeerCheckTimeout
  /\ checkPeerTimer' = IF checkPeerTimer = "latest" THEN "spent" ELSE checkPeerTimer
  /\ stopper' = IF stopper = "latest" THEN "spent" ELSE stopper
  /\ loop' = "publish"
  /\ UNCHANGED <<prompt, enabled, hadPeers, havePeers, dialLeft, pending, calls, peers,
                 sinceFlip, sinceProbe, raced>>

\* Mutant: the result of time.AfterFunc is dropped.
PublishNothing ==
  /\ loop = "publish"
  /\ loop' = "asleep"
  /\ UNCHANGED <<prompt, enabled, hadPeers, checkPeerTimer, timerState, timerLeft, havePeers,
                 dialLeft, pending, calls, stopper, peers, sinceFlip, sinceProbe, raced>>

\* The assignment of its result to the field, after which the goroutine ends.
PublishTimer ==
  /\ loop = "publish"
  /\ checkPeerTimer' = "latest"
  /\ loop' = "asleep"
  /\ UNCHANGED <<prompt, enabled, hadPeers, timerState, timerLeft, havePeers, dialLeft,
                 pending, calls, stopper, peers, sinceFlip, sinceProbe, raced>>

\* The timer fires, now or later than due, and a new goroutine runs the loop.
FireTimer ==
  /\ loop = "asleep"
  /\ timerState = "armed"
  /\ timerLeft = 0
  /\ timerState' = "fired"
  /\ loop' = "check"
  /\ raced' = (raced \/ stopper \in {"latest", "spent"})
  /\ UNCHANGED <<prompt, enabled, hadPeers, checkPeerTimer, timerLeft, havePeers,
                 dialLeft, pending, calls, stopper, peers, sinceFlip, sinceProbe>>

CheckPeerLoop ==
  \/ ScanPeers \/ SawPeers \/ TooEarly \/ StartProbe \/ FinishProbe
  \/ ArmTimer \/ PublishTimer \/ FireTimer

-----------------------------------------------------------------------------
(* The goroutines of the calls.  Each runs on its own, when it is scheduled. *)

\* It calls into the core; another one for the same peer may be waiting still.
CallPeer(p) ==
  /\ p \in pending
  /\ pending' \in {pending, pending \ {p}}
  /\ calls' = calls \cup {p}
  /\ UNCHANGED <<prompt, enabled, hadPeers, checkPeerTimer, timerState, timerLeft, loop,
                 havePeers, dialLeft, stopper, peers, sinceFlip, sinceProbe, raced>>

-----------------------------------------------------------------------------
(* The core's peers: neighbours come and go, calls succeed or fail.         *)

FlipClock ==
  sinceFlip' = IF HavePeers(peers') = HavePeers(peers) THEN sinceFlip ELSE 0

\* Mutant: a call that fails is made again by another goroutine.
CallReturnsAndRetries(p) ==
  /\ p \in calls
  /\ calls' = calls \ {p}
  /\ pending' = pending \cup {p}
  /\ UNCHANGED <<prompt, enabled, hadPeers, checkPeerTimer, timerState, timerLeft, loop,
                 havePeers, dialLeft, stopper, peers, sinceFlip, sinceProbe, raced>>

\* CallPeer returns and its goroutine ends; another one for the same peer may go on.
CallReturns(p) ==
  /\ p \in calls
  /\ calls' \in {calls, calls \ {p}}
  /\ peers' \in {peers, peers \cup {p}}
  /\ FlipClock
  /\ UNCHANGED <<prompt, enabled, hadPeers, checkPeerTimer, timerState, timerLeft, loop,
                 havePeers, dialLeft, pending, stopper, sinceProbe, raced>>

PeerUp(p) ==
  /\ p \notin peers
  /\ peers' = peers \cup {p}
  /\ FlipClock
  /\ UNCHANGED <<code, sinceProbe>>

PeerDown(p) ==
  /\ p \in peers
  /\ peers' = peers \ {p}
  /\ FlipClock
  /\ UNCHANGED <<code, sinceProbe>>

Core ==
  \/ \E p \in PublicPeers : CallReturns(p)
  \/ \E p \in Neighbours : PeerUp(p)
  \/ \E p \in Peers : PeerDown(p)

-----------------------------------------------------------------------------
(* Time.  The one bound on lag: a new timer does not run out before the     *)
(* next instruction of the goroutine that made it, so no Tick in "publish".  *)
(* On a machine that keeps up, code takes no time at the scale of the        *)
(* timeouts: time stands still while something is due.                       *)

\* Something is due now: a loop step, the timer, or the last dial timeout.
Due ==
  \/ loop \in {"check", "decide", "rearm"}
  \/ loop = "asleep" /\ timerState = "armed" /\ timerLeft = 0
  \/ loop = "probing" /\ dialLeft = 0

Tick ==
  /\ loop # "publish"
  /\ prompt => ~Due
  /\ hadPeers' = Older(hadPeers)
  /\ sinceFlip' = Older(sinceFlip)
  /\ sinceProbe' = Older(sinceProbe)
  /\ timerLeft' = Less(timerLeft)
  /\ dialLeft' = Less(dialLeft)
  /\ UNCHANGED <<prompt, enabled, checkPeerTimer, timerState, loop, havePeers,
                 pending, calls, stopper, peers, raced>>

Next ==
  \/ Start \/ StopReads \/ StopStopsTimer
  \/ CheckPeerLoop \/ \E p \in PublicPeers : CallPeer(p)
  \/ Core \/ Tick

\* Goroutines and timers may be arbitrarily late, unless the machine keeps up.
Spec == Init /\ [][Next]_vars

\* They are late, but every one of them runs in the end.
FairSpec == Spec /\ WF_vars(CheckPeerLoop) /\ WF_vars(Tick)

-----------------------------------------------------------------------------
(* Properties.                                                              *)

\* The loop is alive and between two checks.
Waiting == loop = "asleep" /\ timerState = "armed"

\* The module is a paced caller (module.go:66-82): probes are more than
\* AutopeerTimeout apart and lead to at most one CallPeer each, however late
\* goroutines and timers run and however peers come and go.
Pacing == INSTANCE ProbePacing
            WITH gap <- AutopeerTimeout, horizon <- Horizon,
                 age <- sinceProbe, probing <- (loop = "probing"),
                 calls <- pending \cup calls
PacedCaller == Pacing!Spec

\* With a machine that keeps up, a node that has lost its Internet peers never
\* waits longer than AutopeerTimeout + PeerCheckTimeout for the next probe: the
\* checks of checkPeerLoop, the refresh of hadPeers by a probe that found
\* nobody, and link-local neighbours coming and going do not starve it.
LonelyNodeProbes ==
  prompt /\ Waiting /\ ~HavePeers(peers) /\ sinceFlip > Bound => sinceProbe <= Bound

\* The scan that starts a probe is stale by the time of the call it leads to,
\* but, with a machine that keeps up, by no more than the dials have taken: a
\* probe never runs while an Internet peer has been connected for longer.
StaleScanBounded ==
  prompt /\ loop = "probing" /\ HavePeers(peers) => sinceFlip <= DialTimeout - dialLeft

\* Stop() fails to end the loop only when it raced with a check: the loop was
\* running when Stop read the field, or the timer fired before Stop could stop
\* it (module.go:48-53 against the unlocked re-arming in module.go:84-86).
StopMissesOnlyByRace ==
  stopper = "done" /\ (loop \notin {"off", "asleep"} \/ Waiting) => raced

\* Under fairness an enabled, running module that stays without Internet peers
\* probes again and again.
KeepsProbing ==
  <>[](enabled /\ loop # "idle" /\ stopper = "up" /\ ~HavePeers(peers))
    => []<>(loop = "probing")
=============================================================================
