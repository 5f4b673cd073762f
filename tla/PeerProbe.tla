------------------------------ MODULE PeerProbe ------------------------------
(***************************************************************************)
(* One probe of the public peers: GetClosestPeers and RandomPick of         *)
(* src/autopeering/peers.go over the fan-out of src/autopeering/main.go.     *)
(* testPeers starts one goroutine per peer; each of them dials and sends     *)
(* its result on one unbuffered channel; the caller receives as many         *)
(* results as there are peers.  Peers are named by their place in the list.  *)
(***************************************************************************)
EXTENDS Naturals, Sequences, FiniteSets, Functions

CONSTANTS
  Count,       \* length of the peer list (123 in peers.txt, with the empty last line)
  Dialable,    \* those with scheme tcp or tls
  Latencies,   \* what a successful dial may measure
  Limit        \* how many closest peers are kept, 10 in checkPeerLoop

List == 1 .. Count

ASSUME ProbeAssumption ==
  /\ Count \in Nat
  /\ Dialable \subseteq List
  /\ Latencies \subseteq Nat
  /\ Limit \in Nat \ {0}

VARIABLES
  caller,      \* testPeers: "spawn", "collect"; its caller: "select", "returned"
  tester,      \* the goroutine of each peer
  outcome,     \* the Peer value each goroutine has or will send
  res,         \* the results received, in the order they came
  closest,     \* what GetClosestPeers returned
  picked       \* what RandomPick left of it

vars == <<caller, tester, outcome, res, closest, picked>>

Offline(i) == [peer |-> i, online |-> FALSE, latency |-> 0]
Online(i, l) == [peer |-> i, online |-> TRUE, latency |-> l]
Results == {Offline(i) : i \in List} \cup {Online(i, l) : i \in Dialable, l \in Latencies}

TypeOK ==
  /\ caller \in {"spawn", "collect", "select", "returned"}
  /\ tester \in [List -> {"unborn", "dialing", "sending", "gone"}]
  /\ outcome \in [List -> Results]
  /\ res \in Seq(Results)
  /\ closest \in Seq(List)
  /\ picked \in Seq(List)

Init ==
  /\ caller = "spawn"
  /\ tester = [i \in List |-> "unborn"]
  /\ outcome = [i \in List |-> Offline(i)]
  /\ res = <<>>
  /\ closest = <<>>
  /\ picked = <<>>

-----------------------------------------------------------------------------
(* testPeers and testPeer.                                                  *)

\* The loop starts the goroutines in the order of the list.
Spawn(i) ==
  /\ caller = "spawn"
  /\ tester[i] = "unborn"
  /\ \A j \in 1 .. i - 1 : tester[j] # "unborn"
  /\ tester' = [tester EXCEPT ![i] = "dialing"]
  /\ UNCHANGED <<caller, outcome, res, closest, picked>>

AllSpawned ==
  /\ caller = "spawn"
  /\ \A i \in List : tester[i] # "unborn"
  /\ caller' = "collect"
  /\ UNCHANGED <<tester, outcome, res, closest, picked>>

\* Mutant: a goroutine returns without sending.
TestFailsSilently(i) ==
  /\ tester[i] = "dialing"
  /\ tester' = [tester EXCEPT ![i] = "gone"]
  /\ UNCHANGED <<caller, outcome, res, closest, picked>>

\* A scheme that is not supported, a dial that fails or a timeout leave the
\* peer offline.
TestFails(i) ==
  /\ tester[i] = "dialing"
  /\ tester' = [tester EXCEPT ![i] = "sending"]
  /\ UNCHANGED <<caller, outcome, res, closest, picked>>

\* Mutant: every scheme is dialled.
TestSucceedsAnyScheme(i) ==
  /\ tester[i] = "dialing"
  /\ \E l \in Latencies : outcome' = [outcome EXCEPT ![i] = Online(i, l)]
  /\ tester' = [tester EXCEPT ![i] = "sending"]
  /\ UNCHANGED <<caller, res, closest, picked>>

TestSucceeds(i) ==
  /\ tester[i] = "dialing"
  /\ i \in Dialable
  /\ \E l \in Latencies : outcome' = [outcome EXCEPT ![i] = Online(i, l)]
  /\ tester' = [tester EXCEPT ![i] = "sending"]
  /\ UNCHANGED <<caller, res, closest, picked>>

\* The channel has no buffer: a send completes when the caller receives.
Receive(i) ==
  /\ caller = "collect"
  /\ Len(res) < Count
  /\ tester[i] = "sending"
  /\ res' = Append(res, outcome[i])
  /\ tester' = [tester EXCEPT ![i] = "gone"]
  /\ UNCHANGED <<caller, outcome, closest, picked>>

\* Mutant: the collecting loop ends one result early.
AllButOneReceived ==
  /\ caller = "collect"
  /\ Len(res) = Count - 1
  /\ caller' = "select"
  /\ UNCHANGED <<tester, outcome, res, closest, picked>>

AllReceived ==
  /\ caller = "collect"
  /\ Len(res) = Count
  /\ caller' = "select"
  /\ UNCHANGED <<tester, outcome, res, closest, picked>>

-----------------------------------------------------------------------------
(* GetClosestPeers and RandomPick, as the sets of results they may return.  *)

Smaller(a, b) == IF a < b THEN a ELSE b

\* The entries of s at some places, in any order.
Arranged(s, places) ==
  LET m == Cardinality(places)
  IN {[i \in 1 .. m |-> s[f[i]]] : f \in Bijection(1 .. m, places)}

\* sort.Slice: some arrangement in which no result is before a faster one.
\* The sort is not stable, so equal latencies may come in any order.
SortedByLatency(s, places) ==
  {t \in Arranged(s, places) :
     \A i, j \in DOMAIN t : i < j => t[i].latency <= t[j].latency}

PlacesOnline(results) == {k \in DOMAIN results : results[k].online}

\* Mutants: the results are not sorted, or not filtered.
FirstPeers(results, n) ==
  LET online == SelectSeq(results, LAMBDA r : r.online)
  IN {[i \in 1 .. Smaller(n, Len(online)) |-> online[i].peer]}

ClosestOfAll(results, n) ==
  {[i \in 1 .. Smaller(n, Len(t)) |-> t[i].peer] :
     t \in SortedByLatency(results, DOMAIN results)}

GetClosestPeers(results, n) ==
  {[i \in 1 .. Smaller(n, Len(t)) |-> t[i].peer] :
     t \in SortedByLatency(results, PlacesOnline(results))}

\* r.Perm(n) permutes 0..n-1, whatever the length of the list.
RandomPick(list, n) ==
  IF Len(list) <= n THEN {list} ELSE Arranged(list, 1 .. n)

Select ==
  /\ caller = "select"
  /\ closest' \in GetClosestPeers(res, Limit)
  /\ picked' \in RandomPick(closest', 1)
  /\ caller' = "returned"
  /\ UNCHANGED <<tester, outcome, res>>

Tester == \E i \in List : TestFails(i) \/ TestSucceeds(i)
Caller == \/ \E i \in List : Spawn(i) \/ Receive(i)
          \/ AllSpawned \/ AllReceived \/ Select

\* The loop of AutoPeering goes on with picked.
Done == caller = "returned" /\ UNCHANGED vars

Next == Tester \/ Caller \/ Done

Spec == Init /\ [][Next]_vars

\* Every goroutine is scheduled and every dial ends, by its timeout at the latest.
FairSpec == Spec /\ WF_vars(Tester) /\ WF_vars(Caller)

-----------------------------------------------------------------------------
(* Properties.                                                              *)

\* When testPeers returns, every peer of the list has been heard exactly once
\* and no goroutine is left blocked on the channel (main.go:17-30).
EveryPeerHeardOnce ==
  caller \in {"select", "returned"} =>
    \A i \in List : /\ tester[i] = "gone"
                    /\ Cardinality({k \in DOMAIN res : res[k] = outcome[i]}) = 1

\* "Get n online peers with best latency" (peers.go:29): distinct online peers,
\* as many as asked for or as there are, and none left out is faster, however
\* the results came in.  One of them is picked exactly when one answered; which
\* one is left to RandomPick (peers.go:58).
ClosestAreBest ==
  caller = "returned" =>
    LET kept == {closest[k] : k \in DOMAIN closest}
        chosen == {picked[k] : k \in DOMAIN picked}
        online == {i \in List : outcome[i].online}
        Beats(some, others) ==
          \A i \in some, j \in others : outcome[i].latency <= outcome[j].latency
    IN /\ chosen \subseteq kept /\ kept \subseteq online
       /\ Cardinality(kept) = Len(closest)
       /\ Len(closest) = Smaller(Limit, Cardinality(online))
       /\ Len(picked) = Smaller(1, Len(closest))
       /\ Beats(kept, online \ kept)

\* The fan-out, the channel, the filter, the sort and the permutation together
\* are one probe (peers.go:29-71): nobody is chosen before all have answered or
\* timed out, no answer is taken back or counted for another peer, somebody among
\* the Limit closest is chosen unless nobody answered, and the check loop, which
\* waits for the choice, is never stuck.
Probe == INSTANCE OneProbe
           WITH Peers <- List,
                answers <- {outcome[i] : i \in {j \in List : tester[j] \in {"sending", "gone"}}},
                taken <- {picked[k] : k \in DOMAIN picked},
                over <- (caller = "returned")
ImplementsOneProbe == Probe!Spec
=============================================================================
