--------------------------- MODULE PeerProbeProofs ---------------------------
(***************************************************************************)
(* One probe of the public peers, for any list of peers, any of them        *)
(* dialable, any latencies and any number of peers kept.                    *)
(***************************************************************************)
EXTENDS PeerProbe, TLAPS, FiniteSetTheorems

LEMMA ListIsFinite == IsFiniteSet(List) /\ Cardinality(List) = Count
<1>1. Count \in Int /\ 1 \in Int /\ (1 > Count => Count = 0)
  BY ProbeAssumption
<1> QED
  BY <1>1, FS_Interval, ProbeAssumption DEF List

-----------------------------------------------------------------------------
(* What GetClosestPeers and RandomPick return.                              *)

LEMMA ResultFacts ==
  ASSUME NEW r \in Results
  PROVE  r.peer \in List /\ r.online \in BOOLEAN /\ r.latency \in Nat
<1>1. CASE \E i \in List : r = Offline(i)
  BY <1>1 DEF Offline
<1>2. CASE \E i \in Dialable, l \in Latencies : r = Online(i, l)
  BY <1>2, ProbeAssumption DEF Online
<1> QED
  BY <1>1, <1>2 DEF Results

\* The filter keeps a finite number of places.
LEMMA PlacesFacts ==
  ASSUME NEW s \in Seq(Results)
  PROVE  /\ IsFiniteSet(PlacesOnline(s))
         /\ Cardinality(PlacesOnline(s)) \in Nat
<1>1. IsFiniteSet(1 .. Len(s)) /\ PlacesOnline(s) \in SUBSET (1 .. Len(s))
  BY FS_Interval DEF PlacesOnline
<1>2. IsFiniteSet(PlacesOnline(s))
  BY <1>1, FS_Subset
<1> QED
  BY <1>2, FS_CardinalityType

\* f is an order that the sort may put the online results in.
Order(s, m, f) ==
  /\ f \in Bijection(1 .. m, PlacesOnline(s))
  /\ \A i, j \in 1 .. m : i < j => s[f[i]].latency <= s[f[j]].latency

\* GetClosestPeers filters, sorts and cuts.
LEMMA ClosestPeers ==
  ASSUME NEW s \in Seq(Results), NEW n \in Nat, NEW list \in GetClosestPeers(s, n)
  PROVE  LET m == Cardinality(PlacesOnline(s))
         IN /\ list \in Seq(List)
            /\ Len(list) = Smaller(n, m)
            /\ \E f : /\ Order(s, m, f)
                      /\ \A i \in 1 .. Smaller(n, m) : list[i] = s[f[i]].peer
<1> DEFINE m == Cardinality(PlacesOnline(s))
           q == Smaller(n, m)
<1>1. m \in Nat
  BY PlacesFacts
<1>2. PICK t \in SortedByLatency(s, PlacesOnline(s)) :
        list = [i \in 1 .. Smaller(n, Len(t)) |-> t[i].peer]
  BY DEF GetClosestPeers
<1>3. PICK f \in Bijection(1 .. m, PlacesOnline(s)) : t = [i \in 1 .. m |-> s[f[i]]]
  BY <1>2 DEF SortedByLatency, Arranged
<1>4. \A i, j \in DOMAIN t : i < j => t[i].latency <= t[j].latency
  BY <1>2 DEF SortedByLatency
<1>5. \A i \in 1 .. m : f[i] \in DOMAIN s /\ s[f[i]] \in Results
  <2>1. f \in [1 .. m -> PlacesOnline(s)]
    BY <1>3 DEF Bijection, Injection
  <2> QED
    BY <2>1 DEF PlacesOnline
<1> HIDE DEF m
<1>6. t \in Seq(Results) /\ Len(t) = m
  BY <1>1, <1>3, <1>5
<1>7. q \in Nat /\ q <= m /\ Smaller(n, Len(t)) = q
  BY <1>1, <1>6 DEF Smaller
<1> HIDE DEF q
<1>8. list = [i \in 1 .. q |-> s[f[i]].peer]
  BY <1>1, <1>2, <1>3, <1>7
<1>9. list \in Seq(List) /\ Len(list) = q
  <2>1. \A i \in 1 .. q : s[f[i]].peer \in List
    BY <1>1, <1>5, <1>7, ResultFacts
  <2> QED
    BY <2>1, <1>7, <1>8
<1>10. Order(s, m, f)
  BY <1>3, <1>4 DEF Order
<1> QED
  BY <1>8, <1>9, <1>10 DEF m, q

\* RandomPick(list, 1) permutes the first place only.
LEMMA PickOne ==
  ASSUME NEW list \in Seq(List), NEW p \in RandomPick(list, 1)
  PROVE  /\ p \in Seq(List)
         /\ Len(p) = Smaller(1, Len(list))
         /\ Len(list) > 0 => p[1] = list[1]
<1>1. CASE Len(list) <= 1
  BY <1>1 DEF RandomPick, Smaller
<1>2. CASE Len(list) > 1
  <2>1. Cardinality(1 .. 1) = 1
    <3>1. 1 .. 1 = {1}
      OBVIOUS
    <3> QED
      BY <3>1, FS_Singleton
  <2>2. PICK f \in Bijection(1 .. 1, 1 .. 1) : p = [i \in 1 .. 1 |-> list[f[i]]]
    <3>1. p \in Arranged(list, 1 .. 1)
      BY <1>2 DEF RandomPick
    <3> QED
      BY <2>1, <3>1 DEF Arranged
  <2>3. f[1] = 1
    BY <2>2 DEF Bijection, Injection
  <2>4. list[1] \in List
    BY <1>2
  <2> QED
    BY <1>2, <2>2, <2>3, <2>4 DEF Smaller
<1> QED
  BY <1>1, <1>2

-----------------------------------------------------------------------------
(* Types.                                                                   *)

\* Every goroutine's result, and every result received, is of the right type.
THEOREM ProbeTypes == Spec => []TypeOK
<1>1. Init => TypeOK
  BY DEF Init, TypeOK, Results
<1>2. TypeOK /\ [Next]_vars => TypeOK'
  <2> SUFFICES ASSUME TypeOK, [Next]_vars PROVE TypeOK'
    OBVIOUS
  <2> USE DEF TypeOK
  <2>1. ASSUME NEW i \in List, TestFails(i) PROVE TypeOK'
    BY <2>1 DEF TestFails
  <2>2. ASSUME NEW i \in List, TestSucceeds(i) PROVE TypeOK'
    BY <2>2 DEF TestSucceeds, Results
  <2>3. ASSUME NEW i \in List, Spawn(i) PROVE TypeOK'
    BY <2>3 DEF Spawn
  <2>4. ASSUME NEW i \in List, Receive(i) PROVE TypeOK'
    BY <2>4 DEF Receive
  <2>5. CASE AllSpawned \/ AllReceived \/ UNCHANGED vars
    BY <2>5 DEF AllSpawned, AllReceived, vars
  <2>6. CASE Select
    <3>1. closest' \in Seq(List)
      BY <2>6, ClosestPeers, ProbeAssumption DEF Select
    <3>2. picked' \in Seq(List)
      BY <2>6, <3>1, PickOne DEF Select
    <3> QED
      BY <2>6, <3>1, <3>2 DEF Select
  <2> QED
    BY <2>1, <2>2, <2>3, <2>4, <2>5, <2>6 DEF Next, Tester, Caller, Done
<1> QED
  BY <1>1, <1>2, PTL DEF Spec

-----------------------------------------------------------------------------
(* The fan-out and the channel.                                             *)

\* The results received are those of different peers, each as its goroutine, now
\* gone, sent it; the caller goes on when it has as many as there are peers.
CollectInv ==
  /\ \A i \in List : outcome[i].peer = i
  /\ \A k \in DOMAIN res :
       tester[res[k].peer] = "gone" /\ res[k] = outcome[res[k].peer]
  /\ \A j, k \in DOMAIN res : res[j].peer = res[k].peer => j = k
  /\ caller \in {"select", "returned"} => Len(res) = Count
  /\ caller # "returned" => closest = <<>> /\ picked = <<>>

LEMMA CollectHolds == Spec => []CollectInv
<1>1. Init => CollectInv
  BY DEF Init, CollectInv, Offline
<1>2. TypeOK /\ CollectInv /\ [Next]_vars => CollectInv'
  <2> SUFFICES ASSUME TypeOK, CollectInv, [Next]_vars PROVE CollectInv'
    OBVIOUS
  <2>res. \A k \in DOMAIN res : res[k] \in Results /\ res[k].peer \in List
    BY ResultFacts DEF TypeOK
  <2>1. ASSUME NEW i \in List, TestFails(i) PROVE CollectInv'
    BY <2>1, <2>res DEF TypeOK, CollectInv, TestFails
  <2>2. ASSUME NEW i \in List, TestSucceeds(i) PROVE CollectInv'
    <3>1. PICK l \in Latencies : outcome' = [outcome EXCEPT ![i] = Online(i, l)]
      BY <2>2 DEF TestSucceeds
    <3>2. outcome'[i].peer = i
      BY <3>1 DEF TypeOK, Online
    <3>3. \A j \in List \ {i} : outcome'[j] = outcome[j] /\ tester'[j] = tester[j]
      BY <2>2, <3>1 DEF TypeOK, TestSucceeds
    <3>4. \A k \in DOMAIN res : res[k].peer # i
      BY <2>2 DEF CollectInv, TestSucceeds
    <3> QED
      BY <2>2, <2>res, <3>2, <3>3, <3>4 DEF CollectInv, TestSucceeds
  <2>3. ASSUME NEW i \in List, Spawn(i) PROVE CollectInv'
    BY <2>3, <2>res DEF TypeOK, CollectInv, Spawn
  <2>4. ASSUME NEW i \in List, Receive(i) PROVE CollectInv'
    <3>1. /\ DOMAIN res' = DOMAIN res \cup {Len(res) + 1}
          /\ \A k \in DOMAIN res : res'[k] = res[k] /\ k # Len(res) + 1
          /\ res'[Len(res) + 1] = outcome[i]
      BY <2>4 DEF Receive, TypeOK
    <3>2. \A k \in DOMAIN res : res[k].peer # i
      BY <2>4 DEF CollectInv, Receive
    <3>3. outcome[i].peer = i /\ tester'[i] = "gone"
      BY <2>4 DEF CollectInv, Receive, TypeOK
    <3>4. \A k \in DOMAIN res : tester'[res[k].peer] = tester[res[k].peer]
      BY <2>4, <2>res, <3>2 DEF Receive, TypeOK
    <3>5. caller = "collect" /\ UNCHANGED <<caller, outcome, closest, picked>>
      BY <2>4 DEF Receive
    <3> QED
      BY <3>1, <3>2, <3>3, <3>4, <3>5 DEF CollectInv
  <2>5. CASE AllSpawned \/ AllReceived \/ UNCHANGED vars
    BY <2>5 DEF CollectInv, AllSpawned, AllReceived, vars
  <2>6. CASE Select
    BY <2>6 DEF CollectInv, Select
  <2> QED
    BY <2>1, <2>2, <2>3, <2>4, <2>5, <2>6 DEF Next, Tester, Caller, Done
<1> QED
  BY <1>1, <1>2, ProbeTypes, PTL DEF Spec

\* As many results as there are peers, of different peers, are the results of all
\* of them: an injection between sets of one size is a bijection.
LEMMA AllHeard ==
  ASSUME TypeOK, CollectInv, Len(res) = Count, NEW i \in List
  PROVE  /\ tester[i] = "gone"
         /\ \E k \in DOMAIN res :
              /\ res[k] = outcome[i]
              /\ \A j \in DOMAIN res : res[j] = outcome[i] => j = k
<1> DEFINE who == [k \in List |-> res[k].peer]
<1>1. DOMAIN res = List
  BY DEF TypeOK, List
<1>2. who \in Injection(List, List)
  <2>1. \A k \in List : res[k].peer \in List
    BY <1>1, ResultFacts DEF TypeOK
  <2>2. \A j, k \in List : who[j] = who[k] => j = k
    BY <1>1 DEF CollectInv
  <2> QED
    BY <2>1, <2>2 DEF Injection, IsInjective
<1> HIDE DEF who
<1>3. who \in Surjection(List, List)
  BY <1>2, ListIsFinite, FS_Injection
<1>4. PICK k \in List : who[k] = i
  BY <1>3 DEF Surjection
<1>5. res[k].peer = i
  BY <1>4 DEF who
<1>6. outcome[i].peer = i
  BY DEF CollectInv
<1> QED
  BY <1>1, <1>5, <1>6 DEF CollectInv

\* Every peer of the list is heard exactly once, and no goroutine is left, however
\* the dials end and in whatever order the results come (main.go:17-30).
THEOREM EveryPeerIsHeardOnce == Spec => []EveryPeerHeardOnce
<1>1. TypeOK /\ CollectInv => EveryPeerHeardOnce
  <2> SUFFICES ASSUME TypeOK, CollectInv, caller \in {"select", "returned"}, NEW i \in List
               PROVE  /\ tester[i] = "gone"
                      /\ Cardinality({k \in DOMAIN res : res[k] = outcome[i]}) = 1
    BY DEF EveryPeerHeardOnce
  <2>1. Len(res) = Count
    BY DEF CollectInv
  <2>2. PICK k \in DOMAIN res :
          /\ res[k] = outcome[i]
          /\ \A j \in DOMAIN res : res[j] = outcome[i] => j = k
    BY <2>1, AllHeard
  <2>3. {j \in DOMAIN res : res[j] = outcome[i]} = {k}
    BY <2>2
  <2> QED
    BY <2>1, <2>3, AllHeard, FS_Singleton
<1> QED
  BY <1>1, ProbeTypes, CollectHolds, PTL

-----------------------------------------------------------------------------
(* The closest peers.                                                       *)

OnlinePeers == {i \in List : outcome[i].online}
Beats(some, others) ==
  \A i \in some, j \in others : outcome[i].latency <= outcome[j].latency

\* ClosestAreBest of what the probe is about to return.
Best(list, p) ==
  LET kept == {list[k] : k \in DOMAIN list}
      chosen == {p[k] : k \in DOMAIN p}
  IN /\ chosen \subseteq kept /\ kept \subseteq OnlinePeers
     /\ Cardinality(kept) = Len(list)
     /\ Len(list) = Smaller(Limit, Cardinality(OnlinePeers))
     /\ Len(p) = Smaller(1, Len(list))
     /\ Beats(kept, OnlinePeers \ kept)

LEMMA IntervalSize ==
  ASSUME NEW m \in Nat
  PROVE  IsFiniteSet(1 .. m) /\ Cardinality(1 .. m) = m
<1>1. 1 \in Int /\ m \in Int
  OBVIOUS
<1>2. /\ IsFiniteSet(1 .. m)
      /\ Cardinality(1 .. m) = IF 1 > m THEN 0 ELSE m - 1 + 1
  BY <1>1, FS_Interval
<1> QED
  BY <1>2

\* The sorted results are those of the online peers, one of each.
LEMMA OrderIsOfOnlinePeers ==
  ASSUME TypeOK, CollectInv, Len(res) = Count,
         NEW m \in Nat, NEW f, Order(res, m, f)
  PROVE  /\ \A i \in 1 .. m : res[f[i]] = outcome[res[f[i]].peer]
         /\ [i \in 1 .. m |-> res[f[i]].peer] \in Bijection(1 .. m, OnlinePeers)
<1> DEFINE who == [i \in 1 .. m |-> res[f[i]].peer]
<1>1. f \in [1 .. m -> PlacesOnline(res)]
  BY DEF Order, Bijection, Injection
<1>2. \A i \in 1 .. m : /\ f[i] \in DOMAIN res
                       /\ res[f[i]].online
                       /\ res[f[i]] = outcome[res[f[i]].peer]
                       /\ res[f[i]].peer \in List
  <2> TAKE i \in 1 .. m
  <2>1. f[i] \in DOMAIN res /\ res[f[i]].online
    BY <1>1 DEF PlacesOnline
  <2> QED
    BY <2>1, ResultFacts DEF TypeOK, CollectInv
<1>3. who \in [1 .. m -> OnlinePeers]
  BY <1>2 DEF OnlinePeers
<1>4. \A i, j \in 1 .. m : who[i] = who[j] => i = j
  <2>1. \A i, j \in 1 .. m : f[i] = f[j] => i = j
    BY <1>1 DEF Order, Bijection, Injection, IsInjective
  <2> QED
    BY <1>2, <2>1 DEF CollectInv
<1>5. \A p \in OnlinePeers : \E i \in 1 .. m : who[i] = p
  <2> TAKE p \in OnlinePeers
  <2>1. p \in List /\ outcome[p].online /\ outcome[p].peer = p
    BY DEF OnlinePeers, CollectInv
  <2>2. PICK k \in DOMAIN res : res[k] = outcome[p]
    BY <2>1, AllHeard
  <2>3. k \in PlacesOnline(res)
    BY <2>1, <2>2 DEF PlacesOnline
  <2>4. PICK i \in 1 .. m : f[i] = k
    BY <2>3 DEF Order, Bijection, Surjection
  <2> QED
    BY <2>1, <2>2, <2>4
<1>6. who \in Injection(1 .. m, OnlinePeers)
  BY <1>3, <1>4 DEF Injection, IsInjective
<1>7. who \in Surjection(1 .. m, OnlinePeers)
  BY <1>3, <1>5 DEF Surjection
<1> QED
  BY <1>2, <1>6, <1>7 DEF Bijection

\* The first peers of an injective list are as many as its places.
LEMMA FirstPlaces ==
  ASSUME NEW m \in Nat, NEW q \in Nat, q <= m, NEW S, NEW g \in Injection(1 .. m, S)
  PROVE  Cardinality({g[i] : i \in 1 .. q}) = q
<1> DEFINE T == {g[i] : i \in 1 .. q}
           h == [i \in 1 .. q |-> g[i]]
<1>1. \A i, j \in 1 .. q : g[i] = g[j] => i = j
  BY DEF Injection, IsInjective
<1>2. h \in [1 .. q -> T] /\ (\A i, j \in 1 .. q : h[i] = h[j] => i = j)
  BY <1>1
<1>3. \A t \in T : \E i \in 1 .. q : h[i] = t
  OBVIOUS
<1> HIDE DEF h, T
<1>4. h \in Bijection(1 .. q, T)
  BY <1>2, <1>3 DEF Bijection, Injection, IsInjective, Surjection
<1>5. Cardinality(T) = Cardinality(1 .. q)
  BY <1>4, IntervalSize, FS_Bijection DEF ExistsBijection
<1> QED
  BY <1>5, IntervalSize DEF T

LEMMA SelectIsBest ==
  ASSUME TypeOK, CollectInv, Len(res) = Count,
         NEW list \in GetClosestPeers(res, Limit), NEW p \in RandomPick(list, 1)
  PROVE  Best(list, p)
<1> DEFINE m == Cardinality(PlacesOnline(res))
           q == Smaller(Limit, m)
           kept == {list[k] : k \in DOMAIN list}
           chosen == {p[k] : k \in DOMAIN p}
<1>1. res \in Seq(Results) /\ Limit \in Nat
  BY ProbeAssumption DEF TypeOK
<1>2. m \in Nat
  BY <1>1, PlacesFacts
<1>3. list \in Seq(List) /\ Len(list) = q
  BY <1>1, ClosestPeers
<1>4. PICK f : Order(res, m, f) /\ \A i \in 1 .. q : list[i] = res[f[i]].peer
  BY <1>1, ClosestPeers
<1> HIDE DEF m
<1>5. q \in Nat /\ q <= m
  BY <1>1, <1>2 DEF Smaller
<1> HIDE DEF q
<1> DEFINE who == [i \in 1 .. m |-> res[f[i]].peer]
<1>6. /\ who \in Bijection(1 .. m, OnlinePeers)
      /\ \A i \in 1 .. m : res[f[i]] = outcome[who[i]]
  BY <1>2, <1>4, OrderIsOfOnlinePeers
<1>7. \A i, j \in 1 .. m : i < j => outcome[who[i]].latency <= outcome[who[j]].latency
  BY <1>4, <1>6 DEF Order
<1>8. \A i \in 1 .. q : list[i] = who[i]
  BY <1>2, <1>4, <1>5
<1> HIDE DEF who
<1>9. /\ who \in Injection(1 .. m, OnlinePeers)
      /\ \A i \in 1 .. m : who[i] \in OnlinePeers
      /\ \A i \in OnlinePeers : \E k \in 1 .. m : who[k] = i
  BY <1>6 DEF Bijection, Injection, Surjection
<1>10. Cardinality(OnlinePeers) = m
  <2>1. Cardinality(OnlinePeers) = Cardinality(1 .. m)
    BY <1>2, <1>6, IntervalSize, FS_Bijection DEF ExistsBijection
  <2> QED
    BY <1>2, <2>1, IntervalSize
<1>11. kept = {who[i] : i \in 1 .. q}
  BY <1>3, <1>5, <1>8
<1>12. kept \subseteq OnlinePeers /\ Cardinality(kept) = q
  <2>1. kept \subseteq OnlinePeers
    BY <1>2, <1>5, <1>9, <1>11
  <2>2. Cardinality({who[i] : i \in 1 .. q}) = q
    BY <1>2, <1>5, <1>9, FirstPlaces
  <2> QED
    BY <1>11, <2>1, <2>2
<1>13. Beats(kept, OnlinePeers \ kept)
  <2> SUFFICES ASSUME NEW i \in 1 .. q, NEW j \in OnlinePeers \ kept
               PROVE  outcome[who[i]].latency <= outcome[j].latency
    BY <1>11 DEF Beats
  <2>1. PICK k \in 1 .. m : who[k] = j
    BY <1>9
  <2>2. k \notin 1 .. q
    BY <1>11, <2>1
  <2> QED
    BY <1>2, <1>5, <1>7, <2>1, <2>2
<1> HIDE DEF kept, chosen
<1>14. /\ p \in Seq(List) /\ Len(p) = Smaller(1, q)
       /\ q > 0 => p[1] = list[1]
  BY <1>3, PickOne
<1>15. chosen \subseteq kept
  <2>1. CASE q = 0
    <3>1. DOMAIN p = {}
      BY <1>14, <2>1 DEF Smaller
    <3> QED
      BY <3>1 DEF chosen
  <2>2. CASE q > 0
    <3>1. Len(p) = 1 /\ p[1] = list[1] /\ 1 \in DOMAIN list
      BY <1>3, <1>5, <1>14, <2>2 DEF Smaller
    <3>2. DOMAIN p = 1 .. Len(p)
      BY <1>14
    <3>3. DOMAIN p = {1}
      BY <3>1, <3>2
    <3> QED
      BY <3>1, <3>3 DEF chosen, kept
  <2> QED
    BY <1>5, <2>1, <2>2
<1> QED
  BY <1>3, <1>10, <1>12, <1>13, <1>14, <1>15 DEF Best, q, kept, chosen

\* The end of a probe is final.
LEMMA ReturnedStays ==
  ASSUME TypeOK, CollectInv, caller = "returned", [Next]_vars
  PROVE  UNCHANGED vars
<1>1. \A i \in List : tester[i] = "gone"
  BY AllHeard DEF CollectInv
<1> QED
  BY <1>1 DEF Next, Tester, Caller, Done, TestFails, TestSucceeds, Spawn, Receive, AllSpawned,
              AllReceived, Select

\* The probe keeps distinct online peers, as many as asked for or as there are,
\* none of the others faster, and picks one of them if there is one (peers.go:29-71).
THEOREM ClosestAreAlwaysBest == Spec => []ClosestAreBest
<1>0. ClosestAreBest <=> (caller = "returned" => Best(closest, picked))
  BY DEF ClosestAreBest, Best, Beats, OnlinePeers
<1>1. Init => ClosestAreBest
  BY DEF Init, ClosestAreBest
<1>2. TypeOK /\ CollectInv /\ ClosestAreBest /\ [Next]_vars => ClosestAreBest'
  <2> SUFFICES ASSUME TypeOK, CollectInv, ClosestAreBest, [Next]_vars, caller' = "returned"
               PROVE  Best(closest, picked)'
    BY DEF ClosestAreBest, Best, Beats, OnlinePeers
  <2>1. CASE caller = "returned"
    BY <1>0, <2>1, ReturnedStays DEF vars, Best, Beats, OnlinePeers
  <2>2. CASE Select
    <3>1. Len(res) = Count
      BY <2>2 DEF Select, CollectInv
    <3>2. Best(closest', picked')
      BY <2>2, <3>1, SelectIsBest DEF Select
    <3> QED
      BY <2>2, <3>2 DEF Select, Best, Beats, OnlinePeers
  <2>3. caller = "returned" \/ Select
    BY DEF Next, Tester, Caller, Done, TestFails, TestSucceeds, Spawn, Receive, AllSpawned,
           AllReceived, vars
  <2> QED
    BY <2>1, <2>2, <2>3
<1> QED
  BY <1>1, <1>2, ProbeTypes, CollectHolds, PTL DEF Spec

-----------------------------------------------------------------------------
(* The probe implements OneProbe.                                           *)

Answered == {j \in List : tester[j] \in {"sending", "gone"}}
Answers == {outcome[i] : i \in Answered}
Taken == {picked[k] : k \in DOMAIN picked}

\* A dial that ends is the peer's say.
LEMMA DialEnds ==
  ASSUME TypeOK, CollectInv, CollectInv', TypeOK', NEW i \in List,
         TestFails(i) \/ TestSucceeds(i)
  PROVE  Probe!HasItsSay(i)
<1>1. /\ tester[i] = "dialing" /\ tester' = [tester EXCEPT ![i] = "sending"]
      /\ UNCHANGED <<caller, picked>>
      /\ \A j \in List \ {i} : outcome'[j] = outcome[j]
  BY DEF TestFails, TestSucceeds, TypeOK
<1>2. i \notin Answered /\ Answered' = Answered \cup {i}
  BY <1>1 DEF Answered, TypeOK
<1>3. Answers' = Answers \cup {outcome'[i]}
  <2>1. \A j \in Answered : outcome'[j] = outcome[j]
    BY <1>1, <1>2 DEF Answered
  <2>2. Answers' = {outcome'[j] : j \in Answered'}
    BY DEF Answers
  <2> QED
    BY <1>2, <2>1, <2>2 DEF Answers
<1>4. outcome'[i] \in Results /\ outcome'[i].peer = i
  BY DEF TypeOK, CollectInv
<1>5. \A r \in Answers : r.peer # i
  BY <1>2 DEF Answers, Answered, CollectInv
<1>6. \E r \in Results : r.peer = i /\ Answers' = Answers \cup {r}
  BY <1>3, <1>4
<1> QED
  BY <1>1, <1>5, <1>6 DEF Probe!HasItsSay, Answers, Answered

\* OneProbe counts as this module does.
LEMMA SameCardinality == \A S : Probe!Cardinality(S) = Cardinality(S)
BY DEF Probe!Cardinality, Cardinality

\* Results differ as their peers do, so as many results as peers are faster.
LEMMA FasterResults ==
  ASSUME TypeOK, CollectInv, NEW i \in List,
         NEW S, IsFiniteSet(S), S \subseteq OnlinePeers,
         \A j \in OnlinePeers : outcome[j].latency < outcome[i].latency => j \in S
  PROVE  Cardinality({o \in {outcome[k] : k \in List} :
                        o.online /\ o.latency < outcome[i].latency}) <= Cardinality(S)
<1> DEFINE faster == {o \in {outcome[k] : k \in List} :
                        o.online /\ o.latency < outcome[i].latency}
           who == {j \in OnlinePeers : outcome[j].latency < outcome[i].latency}
           f == [j \in who |-> outcome[j]]
<1>1. who \subseteq S
  OBVIOUS
<1>2. IsFiniteSet(who) /\ Cardinality(who) <= Cardinality(S)
  BY <1>1, FS_Subset
<1>3. f \in [who -> faster]
  BY DEF OnlinePeers
<1>4. \A o \in faster : \E j \in who : f[j] = o
  BY DEF OnlinePeers
<1>5. f \in Surjection(who, faster)
  BY <1>3, <1>4 DEF Surjection
<1> HIDE DEF f, who, faster
<1>6. IsFiniteSet(faster) /\ Cardinality(faster) <= Cardinality(who)
  BY <1>2, <1>5, FS_Surjection
<1>7. Cardinality(faster) \in Nat /\ Cardinality(who) \in Nat /\ Cardinality(S) \in Nat
  BY <1>2, <1>6, FS_CardinalityType
<1> QED
  BY <1>2, <1>6, <1>7 DEF faster

\* Whoever is kept has fewer than Limit faster ones: they are kept as well.
LEMMA KeptAreClosest ==
  ASSUME TypeOK, CollectInv, NEW list, NEW p, Best(list, p), list \in Seq(List),
         NEW i \in {list[k] : k \in DOMAIN list}
  PROVE  outcome[i] \in Probe!Closest({outcome[k] : k \in List})
<1> DEFINE kept == {list[k] : k \in DOMAIN list}
           faster == {o \in {outcome[k] : k \in List} :
                        o.online /\ o.latency < outcome[i].latency}
<1>1. kept \subseteq OnlinePeers /\ Beats(kept, OnlinePeers \ kept)
  BY DEF Best
<1>2. i \in List /\ outcome[i].online
  BY <1>1 DEF OnlinePeers
<1>3. IsFiniteSet(OnlinePeers)
  BY ListIsFinite, FS_Subset DEF OnlinePeers
<1>4. IsFiniteSet(kept) /\ Cardinality(kept) \in Nat
  BY <1>1, <1>3, FS_Subset, FS_CardinalityType
<1>5. Cardinality(kept) <= Limit
  <2>1. Cardinality(kept) = Smaller(Limit, Cardinality(OnlinePeers))
    BY DEF Best
  <2> QED
    BY <2>1, <1>3, FS_CardinalityType, ProbeAssumption DEF Smaller
<1>6. IsFiniteSet(kept \ {i}) /\ Cardinality(kept \ {i}) = Cardinality(kept) - 1
  BY <1>4, FS_RemoveElement
<1>7. \A j \in OnlinePeers : outcome[j].latency < outcome[i].latency => j \in kept \ {i}
  <2> SUFFICES ASSUME NEW j \in OnlinePeers, outcome[j].latency < outcome[i].latency
               PROVE  j \in kept \ {i}
    OBVIOUS
  <2>1. outcome[i].latency \in Nat /\ outcome[j].latency \in Nat
    <3>1. outcome[i] \in Results /\ outcome[j] \in Results
      BY <1>2 DEF TypeOK, OnlinePeers
    <3> QED
      BY <3>1, ResultFacts
  <2>2. j \notin kept => outcome[i].latency <= outcome[j].latency
    BY <1>1 DEF Beats
  <2> QED
    BY <2>1, <2>2
<1>8. kept \ {i} \subseteq OnlinePeers
  BY <1>1
<1> HIDE DEF kept
<1>9. Cardinality(faster) <= Cardinality(kept \ {i})
  BY <1>2, <1>6, <1>7, <1>8, FasterResults
<1>10. Cardinality(faster) \in Nat
  <2>1. IsFiniteSet(List)
    BY ListIsFinite
  <2>2. outcome \in Surjection(List, {outcome[k] : k \in List})
    <3>1. outcome \in [List -> {outcome[k] : k \in List}]
      BY DEF TypeOK
    <3> QED
      BY <3>1 DEF Surjection
  <2>3. IsFiniteSet({outcome[k] : k \in List})
    BY <2>1, <2>2, FS_Surjection
  <2>4. IsFiniteSet(faster)
    BY <2>3, FS_Subset
  <2> QED
    BY <2>4, FS_CardinalityType
<1>11. Cardinality(faster) < Limit
  BY <1>4, <1>5, <1>6, <1>9, <1>10, ProbeAssumption
<1>12. outcome[i] \in {outcome[k] : k \in List}
  BY <1>2
<1> DEFINE all == {outcome[k] : k \in List}
<1>13. Cardinality({o \in all : o.online /\ o.latency < outcome[i].latency}) < Limit
  BY <1>11
<1> HIDE DEF all
<1>14. outcome[i] \in all /\ outcome[i].online
  BY <1>2, <1>12 DEF all
<1>15. outcome[i] \in Probe!Closest(all)
  BY <1>13, <1>14, SameCardinality DEF Probe!Closest
<1> QED
  BY <1>15 DEF all

\* The choice is made when all have had their say, among the closest.
LEMMA SelectChooses ==
  ASSUME TypeOK, CollectInv, Select
  PROVE  Probe!Choose
<1>1. Len(res) = Count /\ caller # "returned" /\ caller' = "returned" /\ Taken = {}
  BY DEF Select, CollectInv, Taken
<1>2. /\ \A i \in List : tester[i] = "gone" /\ outcome[i].peer = i
      /\ Answers = {outcome[i] : i \in List}
  <2>1. \A i \in List : tester[i] = "gone"
    BY <1>1, AllHeard
  <2>2. Answered = List
    BY <2>1 DEF Answered
  <2> QED
    BY <2>1, <2>2 DEF Answers, CollectInv
<1>3. UNCHANGED Answers
  BY DEF Select, Answers, Answered
<1>4. \A i \in List : \E r \in Answers : r.peer = i
  BY <1>2
<1>5. Best(closest', picked')
  BY <1>1, SelectIsBest DEF Select
<1>6. closest' \in Seq(List)
  BY ClosestPeers, ProbeAssumption DEF Select, TypeOK
<1>7. picked' \in Seq(List)
  BY <1>6, PickOne DEF Select
<1>8. IsFiniteSet(OnlinePeers)
  BY ListIsFinite, FS_Subset DEF OnlinePeers
<1>9. CASE OnlinePeers = {}
  <2>1. Len(picked') = 0
    BY <1>5, <1>9, FS_EmptySet, ProbeAssumption DEF Best, Smaller
  <2>2. Taken' = {}
    BY <1>7, <2>1 DEF Taken
  <2>3. Probe!Closest(Answers) = {}
    BY <1>2, <1>9 DEF Probe!Closest, OnlinePeers
  <2> QED
    BY <1>1, <1>3, <1>4, <2>2, <2>3 DEF Probe!Choose, Answers, Answered, Taken
<1>10. CASE OnlinePeers # {}
  <2>1. Cardinality(OnlinePeers) \in Nat /\ Cardinality(OnlinePeers) # 0
    BY <1>8, <1>10, FS_EmptySet, FS_CardinalityType
  <2>2. Len(picked') = 1
    BY <1>5, <2>1, ProbeAssumption DEF Best, Smaller
  <2>3. DOMAIN picked' = {1}
    <3>1. DOMAIN picked' = 1 .. Len(picked')
      BY <1>7
    <3> QED
      BY <2>2, <3>1
  <2>4. Taken' = {picked'[1]}
    BY <2>3 DEF Taken
  <2>5. picked'[1] \in {closest'[k] : k \in DOMAIN closest'}
    BY <1>5, <2>3 DEF Best
  <2>6. outcome[picked'[1]] \in Probe!Closest(Answers)
    BY <1>2, <1>5, <1>6, <2>5, KeptAreClosest
  <2>7. outcome[picked'[1]].peer = picked'[1]
    BY <1>2, <1>7, <2>3
  <2>8. \E r \in Probe!Closest(Answers) : Taken' = {r.peer}
    BY <2>4, <2>6, <2>7
  <2> QED
    BY <1>1, <1>3, <1>4, <2>8 DEF Probe!Choose, Answers, Answered, Taken
<1> QED
  BY <1>9, <1>10

\* The goroutines, the channel, the filter, the sort and the permutation together
\* do what OneProbe allows and no more: nobody is chosen before all have had their
\* say, no say is taken back, and the choice is one of the closest (peers.go:29-71).
THEOREM ProbeIsOneProbe == Spec => Probe!Steps
<1>1. Init => Probe!Init
  BY DEF Init, Probe!Init
<1>2. TypeOK /\ TypeOK' /\ CollectInv /\ CollectInv' /\ [Next]_vars
        => [Probe!Next]_<<Answers, Taken, caller = "returned">>
  <2> SUFFICES ASSUME TypeOK, TypeOK', CollectInv, CollectInv', [Next]_vars
               PROVE  [Probe!Next]_<<Answers, Taken, caller = "returned">>
    OBVIOUS
  <2>1. ASSUME NEW i \in List, TestFails(i) \/ TestSucceeds(i) PROVE Probe!Next
    BY <2>1, DialEnds DEF Probe!Next
  <2>2. CASE Select
    BY <2>2, SelectChooses DEF Probe!Next
  <2>3. ASSUME NEW i \in List, Spawn(i) \/ Receive(i)
        PROVE  UNCHANGED <<Answers, Taken, caller = "returned">>
    <3>1. UNCHANGED <<caller, outcome, picked>>
      BY <2>3 DEF Spawn, Receive
    <3>2. Answered' = Answered
      BY <2>3 DEF Spawn, Receive, Answered, TypeOK
    <3> QED
      BY <3>1, <3>2 DEF Answers, Taken
  <2>4. CASE AllSpawned \/ AllReceived
    <3>1. /\ UNCHANGED <<tester, outcome, picked>>
          /\ caller # "returned" /\ caller' # "returned"
      BY <2>4 DEF AllSpawned, AllReceived
    <3> QED
      BY <3>1 DEF Answers, Answered, Taken
  <2>5. CASE UNCHANGED vars
    BY <2>5 DEF vars, Answers, Answered, Taken
  <2> QED
    BY <2>1, <2>2, <2>3, <2>4, <2>5 DEF Next, Tester, Caller, Done
<1> QED
  BY <1>1, <1>2, ProbeTypes, CollectHolds, PTL
     DEF Spec, Probe!Steps, Answers, Answered, Taken
=============================================================================
