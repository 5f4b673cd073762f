--------------------------- MODULE KeySearchProofs ---------------------------
(* Proofs about the key generator, for every number of threads, capacity of   *)
(* the channel and size of keys.                                              *)
EXTENDS KeySearch, WellFoundedInduction, TLAPS

\* isBetter only says yes of keys that differ: main never prints a key twice.
LEMMA BetterIrreflexive ==
  ASSUME NEW a \in Keys
  PROVE  ~IsBetter(a, a)
<1>1. \A i \in 1 .. KeySize : ~(a[i] < a[i])
  BY DEF Keys
<1> QED
  BY <1>1 DEF IsBetter, Keys

\* isBetter is transitive: it looks at bytes in the order of their significance.
LEMMA BetterTransitive ==
  ASSUME NEW a \in Keys, NEW b \in Keys, NEW c \in Keys,
         IsBetter(a, b), IsBetter(b, c)
  PROVE  IsBetter(a, c)
<1>1. PICK i \in 1 .. KeySize :
        /\ b[i] < a[i]
        /\ \A k \in 1 .. KeySize : k < i => b[k] = a[k]
  BY DEF IsBetter, Keys
<1>2. PICK j \in 1 .. KeySize :
        /\ c[j] < b[j]
        /\ \A k \in 1 .. KeySize : k < j => c[k] = b[k]
  BY DEF IsBetter, Keys
<1>3. \A k \in 1 .. KeySize : a[k] \in Nat /\ b[k] \in Nat /\ c[k] \in Nat
  BY SearchAssumption DEF Keys
<1>4. CASE i <= j
  <2>1. c[i] < a[i]
    BY <1>1, <1>2, <1>3, <1>4
  <2>2. \A k \in 1 .. KeySize : k < i => c[k] = a[k]
    BY <1>1, <1>2, <1>4
  <2> QED
    BY <2>1, <2>2 DEF IsBetter, Keys
<1>5. CASE j < i
  <2>1. c[j] < a[j]
    BY <1>1, <1>2, <1>5
  <2>2. \A k \in 1 .. KeySize : k < j => c[k] = a[k]
    BY <1>1, <1>2, <1>5
  <2> QED
    BY <2>1, <2>2 DEF IsBetter, Keys
<1> QED
  BY <1>4, <1>5

LEMMA WorstIsKey == Worst \in Keys
BY SearchAssumption DEF Worst, Keys

\* The empty currentBest is none of the keys.
LEMMA KeysAreNotEmpty == \A key \in Keys : key # <<>>
<1> SUFFICES ASSUME NEW key \in Keys, key = <<>>
             PROVE  FALSE
  OBVIOUS
<1>1. DOMAIN key = 1 .. KeySize /\ 1 \in 1 .. KeySize
  BY SearchAssumption DEF Keys
<1> QED
  BY <1>1

\* A key that main has matched stays matched when it prints a better one.
LEMMA MatchedKept ==
  ASSUME NEW old \in Keys, NEW new \in Keys, NEW key \in Keys,
         ~IsBetter(old, key), IsBetter(old, new)
  PROVE  ~IsBetter(new, key)
BY BetterTransitive

-----------------------------------------------------------------------------

\* Every step keeps the types, the channel within its capacity included.
LEMMA TypeStep == TypeOK /\ [Next]_vars => TypeOK'
<1> SUFFICES ASSUME TypeOK, [Next]_vars
             PROVE  TypeOK'
  OBVIOUS
<1> USE SearchAssumption
<1>1. CASE Receive
  <2>1. newKeys # <<>> /\ newKeys \in Seq(Keys) /\ Len(newKeys) <= Capacity
    BY <1>1 DEF TypeOK, Receive
  <2>2. Head(newKeys) \in Keys /\ Tail(newKeys) \in Seq(Keys)
        /\ Len(Tail(newKeys)) <= Capacity
    BY <2>1
  <2> QED
    BY <1>1, <2>2 DEF TypeOK, Receive
<1>2. ASSUME NEW t \in Threads, Generate(t)
      PROVE  TypeOK'
  BY <1>2 DEF TypeOK, Generate
<1>3. ASSUME NEW t \in Threads, Send(t)
      PROVE  TypeOK'
  <2>1. /\ bestKey[t] \in Keys
        /\ newKeys \in Seq(Keys)
        /\ Len(newKeys) < Capacity
        /\ newKeys' = Append(newKeys, bestKey[t])
    BY <1>3 DEF TypeOK, Send
  <2>2. newKeys' \in Seq(Keys) /\ Len(newKeys') <= Capacity
    BY <2>1
  <2> QED
    BY <1>3, <2>2 DEF TypeOK, Send
<1>4. CASE UNCHANGED vars
  BY <1>4 DEF TypeOK, vars
<1> QED
  BY <1>1, <1>2, <1>3, <1>4 DEF Next

\* The types hold and the channel never holds more than its capacity.
THEOREM SearchTypes == Spec => []TypeOK
<1>1. Init => TypeOK
  BY SearchAssumption, WorstIsKey DEF Init, TypeOK
<1> QED
  BY <1>1, TypeStep, PTL DEF Spec

-----------------------------------------------------------------------------

\* No step loses a thread's best key.
LEMMA NoKeyLostStep == TypeOK /\ NoKeyLost /\ [Next]_vars => NoKeyLost'
<1> SUFFICES ASSUME TypeOK, NoKeyLost, [Next]_vars,
                    NEW t \in Threads, bestKey'[t] # Worst
             PROVE  \/ sending'[t]
                    \/ \E i \in DOMAIN newKeys' : newKeys'[i] = bestKey'[t]
                    \/ Matched(bestKey[t])'
  BY DEF NoKeyLost, Matched
<1>1. CASE Receive
  <2> DEFINE head == Head(newKeys)
  <2>1. /\ newKeys # <<>> /\ newKeys \in Seq(Keys) /\ head \in Keys
        /\ newKeys' = Tail(newKeys)
        /\ bestKey' = bestKey /\ sending' = sending
        /\ bestKey[t] \in Keys
    BY <1>1 DEF TypeOK, Receive
  <2>2. currentBest' # <<>> /\ ~IsBetter(currentBest', head)
    BY <1>1, <2>1, BetterIrreflexive, KeysAreNotEmpty DEF Receive, TypeOK
  <2>3. CASE Matched(bestKey[t])
    <3>1. currentBest \in Keys /\ ~IsBetter(currentBest, bestKey[t])
      BY <2>3 DEF Matched, TypeOK
    <3>2. CASE IsBetter(currentBest, head)
      <4>1. currentBest' = head
        BY <1>1, <3>2 DEF Receive
      <4>2. ~IsBetter(head, bestKey[t])
        BY <2>1, <3>1, <3>2, MatchedKept
      <4> QED
        BY <2>1, <2>2, <4>1, <4>2 DEF Matched
    <3>3. CASE ~IsBetter(currentBest, head)
      <4>1. currentBest' = currentBest
        BY <1>1, <3>1, <3>3, KeysAreNotEmpty DEF Receive
      <4> QED
        BY <2>1, <2>2, <3>1, <4>1 DEF Matched
    <3> QED
      BY <3>2, <3>3
  <2>4. CASE \E i \in DOMAIN newKeys : newKeys[i] = bestKey[t]
    <3>1. PICK i \in 1 .. Len(newKeys) : newKeys[i] = bestKey[t]
      BY <2>1, <2>4
    <3>2. CASE i = 1
      BY <2>1, <2>2, <3>1, <3>2 DEF Matched
    <3>3. CASE i # 1
      <4>1. i - 1 \in DOMAIN Tail(newKeys) /\ Tail(newKeys)[i - 1] = newKeys[i]
        BY <2>1, <3>3
      <4> QED
        BY <2>1, <3>1, <4>1
    <3> QED
      BY <3>2, <3>3
  <2> QED
    BY <2>1, <2>3, <2>4 DEF NoKeyLost
<1>2. ASSUME NEW u \in Threads, Generate(u)
      PROVE  \/ sending'[t]
             \/ \E i \in DOMAIN newKeys' : newKeys'[i] = bestKey'[t]
             \/ Matched(bestKey[t])'
  BY <1>2 DEF Generate, TypeOK, NoKeyLost, Matched
<1>3. ASSUME NEW u \in Threads, Send(u)
      PROVE  \/ sending'[t]
             \/ \E i \in DOMAIN newKeys' : newKeys'[i] = bestKey'[t]
             \/ Matched(bestKey[t])'
  <2>1. /\ newKeys \in Seq(Keys) /\ bestKey[u] \in Keys
        /\ newKeys' = Append(newKeys, bestKey[u])
        /\ bestKey' = bestKey /\ currentBest' = currentBest
    BY <1>3 DEF TypeOK, Send
  <2>2. CASE u = t
    <3>1. newKeys'[Len(newKeys) + 1] = bestKey'[t] /\ Len(newKeys) + 1 \in DOMAIN newKeys'
      BY <2>1, <2>2
    <3> QED
      BY <3>1
  <2>3. CASE u # t
    <3>1. sending'[t] = sending[t]
      BY <1>3, <2>3 DEF Send, TypeOK
    <3>2. \A i \in DOMAIN newKeys : i \in DOMAIN newKeys' /\ newKeys'[i] = newKeys[i]
      BY <2>1
    <3> QED
      BY <2>1, <3>1, <3>2 DEF NoKeyLost, Matched
  <2> QED
    BY <2>2, <2>3
<1>4. CASE UNCHANGED vars
  BY <1>4 DEF vars, NoKeyLost, Matched
<1> QED
  BY <1>1, <1>2, <1>3, <1>4 DEF Next

\* For any number of threads and any channel, a thread's best key is still to be
\* sent, in the channel, or matched by what main has printed (main.go:38-46, 63-77).
THEOREM SearchLosesNoKey == Spec => []NoKeyLost
<1>1. Init => NoKeyLost
  BY DEF Init, NoKeyLost
<1>2. Init => TypeOK
  BY SearchAssumption, WorstIsKey DEF Init, TypeOK
<1> QED
  BY <1>1, <1>2, TypeStep, NoKeyLostStep, PTL DEF Spec

-----------------------------------------------------------------------------

\* A set of naturals that is not empty has a least element.
LEMMA HasLeast ==
  ASSUME NEW T, T \subseteq Nat, T # {}
  PROVE  \E x \in T : \A y \in T : ~(y < x)
<1> DEFINE R == OpToRel(<, Nat)
<1>1. IsWellFoundedOn(R, Nat)
  BY NatLessThanWellFounded
<1>2. \E x \in T : \A y \in T : ~(<<y, x>> \in R)
  <2> HIDE DEF R
  <2> QED
    BY <1>1, WFMin
<1> QED
  BY <1>2 DEF OpToRel

\* Of two different keys one is better: they differ at a first byte.
LEMMA BetterTotal ==
  ASSUME NEW a \in Keys, NEW b \in Keys, a # b
  PROVE  IsBetter(a, b) \/ IsBetter(b, a)
<1> DEFINE Differ == {i \in 1 .. KeySize : a[i] # b[i]}
<1>1. Differ \subseteq Nat /\ Differ # {}
  <2>1. \E i \in 1 .. KeySize : a[i] # b[i]
    <3>1. /\ a = [i \in 1 .. KeySize |-> a[i]]
          /\ b = [i \in 1 .. KeySize |-> b[i]]
      BY DEF Keys
    <3> QED
      BY <3>1
  <2> QED
    BY <2>1
<1>2. PICK i \in Differ : \A k \in Differ : ~(k < i)
  <2> HIDE DEF Differ
  <2> QED
    BY <1>1, HasLeast
<1>3. i \in 1 .. KeySize /\ \A k \in 1 .. KeySize : k < i => a[k] = b[k]
  BY <1>2
<1>4. a[i] < b[i] \/ b[i] < a[i]
  BY <1>2, SearchAssumption DEF Keys
<1> QED
  BY <1>3, <1>4 DEF IsBetter, Keys

\* Whatever is in the channel or was printed last is no better than what some
\* thread has: a thread's best key only gets better.
Held(key) == \E t \in Threads : ~IsBetter(bestKey[t], key)
HeldInv ==
  /\ \A i \in DOMAIN newKeys : Held(newKeys[i])
  /\ currentBest # <<>> => Held(currentBest)

LEMMA HeldStep == TypeOK /\ HeldInv /\ [Next]_vars => HeldInv'
<1> SUFFICES ASSUME TypeOK, HeldInv, [Next]_vars
             PROVE  HeldInv'
  OBVIOUS
<1>1. CASE Receive
  <2>1. /\ newKeys # <<>> /\ newKeys \in Seq(Keys) /\ newKeys' = Tail(newKeys)
        /\ bestKey' = bestKey /\ currentBest' \in {Head(newKeys), currentBest}
    BY <1>1 DEF TypeOK, Receive
  <2>2. Held(Head(newKeys))
    BY <2>1 DEF HeldInv
  <2>3. \A i \in DOMAIN newKeys' : Held(newKeys'[i])
    BY <2>1 DEF HeldInv
  <2> QED
    BY <2>1, <2>2, <2>3 DEF HeldInv, Held
<1>2. ASSUME NEW u \in Threads, Generate(u)
      PROVE  HeldInv'
  <2>1. ASSUME NEW key \in Keys, Held(key)
        PROVE  Held(key)'
    <3>1. PICK t \in Threads : ~IsBetter(bestKey[t], key)
      BY <2>1 DEF Held
    <3>2. bestKey[t] \in Keys /\ bestKey'[t] \in Keys
      BY <1>2 DEF TypeOK, Generate
    <3>3. bestKey'[t] = bestKey[t] \/ IsBetter(bestKey[t], bestKey'[t])
      BY <1>2 DEF TypeOK, Generate
    <3>4. ~IsBetter(bestKey'[t], key)
      BY <3>1, <3>2, <3>3, BetterTransitive
    <3> QED
      BY <3>4 DEF Held
  <2>2. /\ newKeys' = newKeys /\ currentBest' = currentBest
        /\ \A i \in DOMAIN newKeys : newKeys[i] \in Keys
        /\ currentBest # <<>> => currentBest \in Keys
    BY <1>2 DEF TypeOK, Generate
  <2> QED
    BY <2>1, <2>2 DEF HeldInv
<1>3. ASSUME NEW u \in Threads, Send(u)
      PROVE  HeldInv'
  <2>1. /\ newKeys \in Seq(Keys) /\ bestKey[u] \in Keys
        /\ newKeys' = Append(newKeys, bestKey[u])
        /\ bestKey' = bestKey /\ currentBest' = currentBest
    BY <1>3 DEF TypeOK, Send
  <2>2. Held(bestKey[u])
    BY <2>1, BetterIrreflexive DEF Held
  <2>3. \A i \in DOMAIN newKeys' : Held(newKeys'[i])
    BY <2>1, <2>2 DEF HeldInv
  <2> QED
    BY <2>1, <2>3 DEF HeldInv, Held
<1>4. CASE UNCHANGED vars
  BY <1>4 DEF vars, HeldInv, Held
<1> QED
  BY <1>1, <1>2, <1>3, <1>4 DEF Next

\* Nothing is worse than the key that doKeys begins with.
LEMMA WorstIsWorst ==
  ASSUME NEW a \in Keys
  PROVE  ~IsBetter(a, Worst)
BY SearchAssumption DEF IsBetter, Keys, Worst

\* For any number of threads, channel and size of keys: when all keys that were
\* found have arrived, the key printed last is the best of all threads
\* (main.go:38-46, 72-76).
THEOREM SearchSettlesOnBest == Spec => []SettlesOnBest
<1>1. Init => TypeOK /\ HeldInv
  BY SearchAssumption, WorstIsKey DEF Init, TypeOK, HeldInv
<1>2. TypeOK /\ NoKeyLost /\ HeldInv => SettlesOnBest
  <2> SUFFICES ASSUME TypeOK, NoKeyLost, HeldInv, Drained,
                      NEW s \in Threads, bestKey[s] # Worst
               PROVE  /\ \E t \in Threads : currentBest = bestKey[t]
                      /\ \A t \in Threads : ~IsBetter(currentBest, bestKey[t])
    BY DEF SettlesOnBest
  <2>1. \A t \in Threads : bestKey[t] # Worst => Matched(bestKey[t])
    BY DEF NoKeyLost, Drained
  <2>2. currentBest # <<>> /\ currentBest \in Keys
    BY <2>1 DEF Matched, TypeOK
  <2>3. \A t \in Threads : bestKey[t] \in Keys /\ ~IsBetter(currentBest, bestKey[t])
    BY <2>1, <2>2, WorstIsWorst DEF Matched, TypeOK
  <2>4. PICK t \in Threads : ~IsBetter(bestKey[t], currentBest)
    BY <2>2 DEF HeldInv, Held
  <2>5. currentBest = bestKey[t]
    BY <2>2, <2>3, <2>4, BetterTotal
  <2> QED
    BY <2>3, <2>5
<1> QED
  BY <1>1, <1>2, HeldStep, TypeStep, SearchLosesNoKey, PTL DEF Spec
=============================================================================
