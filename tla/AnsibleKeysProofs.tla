-------------------------- MODULE AnsibleKeysProofs --------------------------
(***************************************************************************)
(* The key generator for ansible, for any number of hosts, tries and keys.  *)
(***************************************************************************)
EXTENDS AnsibleKeys, TLAPS, NaturalsInduction, WellFoundedInduction

-----------------------------------------------------------------------------
(* bubbleUpTo.                                                              *)

\* A nonempty set of naturals has a least element.
LEMMA LeastNatural ==
  ASSUME NEW T, T \subseteq Nat, T # {}
  PROVE  \E x \in T : \A y \in T : x <= y
<1>1. PICK x \in T : \A y \in T : <<y, x>> \notin OpToRel(<, Nat)
  <2>1. IsWellFoundedOn(OpToRel(<, Nat), Nat)
    BY NatLessThanWellFounded
  <2> DEFINE R == OpToRel(<, Nat)
  <2>2. IsWellFoundedOn(R, Nat)
    BY <2>1
  <2> HIDE DEF R
  <2>3. \E x \in T : \A y \in T : ~(<<y, x>> \in R)
    BY <2>2, WFMin
  <2> QED
    BY <2>3 DEF R
<1>2. \A y \in T : ~(y < x)
  BY <1>1 DEF OpToRel
<1> QED
  BY <1>2

\* bubbleUpTo stops somewhere, at or before the place it is given.
LEMMA MovesStops ==
  ASSUME numHosts \in Nat, NEW sets \in [Places -> Nat], NEW num \in Places
  PROVE  /\ Moves(sets, num) \in 0 .. numHosts - num
         /\ \A j \in 1 .. Moves(sets, num) : IsBetter(sets[j], sets[0])
         /\ Moves(sets, num) < numHosts - num =>
              ~IsBetter(sets[Moves(sets, num) + 1], sets[0])
<1> DEFINE last == numHosts - num
           Stops(p) == /\ \A j \in 1 .. p : IsBetter(sets[j], sets[0])
                       /\ p < last => ~IsBetter(sets[p + 1], sets[0])
           Ahead == {q \in 1 .. last : ~IsBetter(sets[q], sets[0])} \cup {last + 1}
<1>1. last \in 0 .. numHosts
  BY DEF Places
<1>2. PICK q \in Ahead : \A r \in Ahead : q <= r
  <2>1. Ahead \subseteq Nat /\ Ahead # {}
    BY <1>1
  <2> QED
    BY <2>1, LeastNatural
<1>3. q - 1 \in 0 .. last /\ Stops(q - 1)
  <2>1. q \in 1 .. last + 1
    BY <1>1
  <2>2. ASSUME NEW j \in 1 .. q - 1
        PROVE  IsBetter(sets[j], sets[0])
    <3>1. j \in 1 .. last /\ j < q
      BY <1>1, <2>1
    <3>2. j \notin Ahead
      BY <1>2, <3>1
    <3> QED
      BY <3>1, <3>2
  <2>3. q - 1 < last => ~IsBetter(sets[(q - 1) + 1], sets[0])
    <3>1. q - 1 + 1 = q /\ (q - 1 < last => q # last + 1)
      BY <1>1, <2>1
    <3> QED
      BY <3>1
  <2>4. q - 1 \in 0 .. last
    BY <1>1, <2>1
  <2> QED
    BY <2>2, <2>3, <2>4
<1>4. Moves(sets, num) = CHOOSE p \in 0 .. last : Stops(p)
  BY DEF Moves
<1>5. Moves(sets, num) \in 0 .. last /\ Stops(Moves(sets, num))
  <2> HIDE DEF last, Stops
  <2> QED
    BY <1>3, <1>4
<1> QED
  BY <1>5

\* It rearranges the keys: none comes from elsewhere and none is doubled.
LEMMA BubbleRearranges ==
  ASSUME numHosts \in Nat, NEW S \in SUBSET Nat, NEW sets \in [Places -> S],
         NEW num \in Places
  PROVE  /\ BubbleUpTo(sets, num) \in [Places -> S]
         /\ (\A a, b \in Places : a # b => sets[a] # sets[b])
              => \A a, b \in Places :
                   a # b => BubbleUpTo(sets, num)[a] # BubbleUpTo(sets, num)[b]
<1> DEFINE p == Moves(sets, num)
           from == [k \in Places |-> IF k < p THEN k + 1 ELSE IF k = p THEN 0 ELSE k]
<1>1. p \in 0 .. numHosts
  <2>1. sets \in [Places -> Nat] /\ num \in 0 .. numHosts
    BY DEF Places
  <2> QED
    BY <2>1, MovesStops
<1> HIDE DEF p
<1>2. \A k \in Places : from[k] \in Places
  BY <1>1 DEF Places
<1>3. \A a, b \in Places : a # b => from[a] # from[b]
  BY <1>1 DEF Places
<1>4. BubbleUpTo(sets, num) = [k \in Places |-> sets[from[k]]]
  <2>1. \A k \in Places : sets[from[k]] = IF k < p THEN sets[k + 1]
                                         ELSE IF k = p THEN sets[0] ELSE sets[k]
    OBVIOUS
  <2> QED
    BY <2>1 DEF BubbleUpTo, p
<1> HIDE DEF from
<1> QED
  BY <1>2, <1>3, <1>4

\* It lets no best key go: of the keys, or of all but the one at place 0, the
\* hosts' places keep one at least as good.
LEMMA BubbleKeepsBest ==
  ASSUME numHosts \in Nat \ {0}, NEW sets \in [Places -> Nat], NEW num \in Places,
         NEW t \in Nat, NEW k \in Places, sets[k] <= t, k = 0 => num = 0
  PROVE  \E h \in Hosts : BubbleUpTo(sets, num)[h] <= t
<1> DEFINE p == Moves(sets, num)
<1>1. /\ p \in 0 .. numHosts - num
      /\ \A j \in 1 .. p : IsBetter(sets[j], sets[0])
      /\ p < numHosts - num => ~IsBetter(sets[p + 1], sets[0])
  BY MovesStops
<1>2. \A h \in Places : BubbleUpTo(sets, num)[h] =
        IF h < p THEN sets[h + 1] ELSE IF h = p THEN sets[0] ELSE sets[h]
  BY DEF BubbleUpTo
<1> HIDE DEF p
<1>3. \A j \in Places : sets[j] \in Nat
  OBVIOUS
<1>4. CASE k > p
  <2>1. k \in Hosts /\ ~(k < p) /\ k # p
    BY <1>1, <1>4 DEF Hosts, Places
  <2> QED
    BY <1>2, <2>1
<1>5. CASE k <= p /\ p > 0
  <2>1. sets[0] <= t
    <3>1. k # 0 => sets[0] < sets[k]
      BY <1>1, <1>5 DEF IsBetter, Places
    <3>2. 0 \in Places
      BY DEF Places
    <3> QED
      BY <1>3, <3>1, <3>2
  <2>2. p \in Hosts /\ p \in Places
    BY <1>1, <1>5 DEF Hosts, Places
  <2> QED
    BY <1>1, <1>2, <2>1, <2>2
<1>6. CASE k = 0 /\ p = 0
  <2>1. 0 \in Places /\ 1 \in Places /\ 1 \in Hosts
    BY DEF Hosts, Places
  <2>2. ~(sets[0] < sets[1])
    BY <1>1, <1>6 DEF IsBetter
  <2>3. BubbleUpTo(sets, num)[1] = sets[1]
    BY <1>2, <1>6, <2>1
  <2> QED
    BY <1>3, <1>6, <2>1, <2>2, <2>3
<1> QED
  BY <1>1, <1>4, <1>5, <1>6 DEF Places

-----------------------------------------------------------------------------
(* The inductive invariant.                                                 *)

Types ==
  /\ numHosts \in 0 .. MaxHosts /\ keyTries \in 0 .. MaxTries
  /\ pc \in {"check", "refused", "fill", "sort", "try", "vars", "writeVars",
             "vault", "writeVault", "done", "stopped"}
  /\ i \in Nat
  /\ keys \in [Places -> Ranks \cup {0}]
  /\ tried \in SUBSET Ranks
  /\ vars \in [1 .. MaxHosts -> Contents] /\ vault \in [1 .. MaxHosts -> Contents]

\* The places fill from below, with keys that were drawn, each in one place; later
\* none is empty.  The loops of the writing stay within the hosts.
KeysInv ==
  /\ pc = "check" => i = 0 /\ \A k \in Places : keys[k] = 0
  /\ pc = "fill" => i <= numHosts + 1 /\ \A k \in Places : keys[k] = 0 <=> k >= i
  /\ pc \notin {"check", "refused", "fill", "stopped"} => \A k \in Places : keys[k] # 0
  /\ \A k \in Places : keys[k] \in tried \cup {0}
  /\ \A a, b \in Places : a # b /\ keys[a] # 0 => keys[a] # keys[b]
  /\ pc = "sort" => i <= numHosts + 1
  /\ pc = "vars" => i > 0
  /\ pc \in {"writeVars", "vault", "writeVault"} => i \in Hosts

\* Before and after the first pass of the sort.
Unsorted == pc \in {"check", "fill"} \/ (pc = "sort" /\ i = 0)
Settled == (pc = "sort" /\ i > 0) \/ pc = "try" \/ Chosen

\* Where the best key is: anywhere before the first pass of the sort, in a host's
\* place from then on, so that the place where new keys come in never holds it.
BestInv ==
  /\ Unsorted =>
       \A t \in tried : \E k \in Places : keys[k] # 0 /\ keys[k] <= t
  /\ Settled /\ numHosts > 0 => \A t \in tried : \E h \in Hosts : keys[h] <= t

\* A key that is in a file of a host is the key of that host; away from the host
\* under way, whole files are a pair.
FilesInv ==
  /\ pc \in {"check", "refused", "fill", "sort", "try"} =>
       vars = vault /\ \A h \in 1 .. MaxHosts : vars[h] \notin Ranks
  /\ \A h \in 1 .. MaxHosts :
       /\ vars[h] \in Ranks => h \in Hosts /\ vars[h] = keys[h]
       /\ vault[h] \in Ranks => h \in Hosts /\ vault[h] = keys[h]
       /\ (h # i \/ pc = "vars") /\ vars[h] # Torn /\ vault[h] # Torn => vars[h] = vault[h]
  /\ pc = "writeVars" => vars[i] = Torn
  /\ pc \in {"vault", "writeVault"} => vars[i] \in {Torn, keys[i]}
  /\ pc = "writeVault" => vault[i] = Torn

IInv == Types /\ KeysInv /\ BestInv /\ FilesInv

LEMMA InitIInv == Init => IInv
<1> SUFFICES ASSUME Init PROVE IInv
  OBVIOUS
<1>0. numHosts \in Nat /\ 0 \in Places
  BY AnsibleAssumption DEF Init, Places
<1>1. PICK earlier \in 0 .. MaxHosts :
        vars = [h \in 1 .. MaxHosts |-> IF h <= earlier THEN Earlier ELSE Absent]
  BY DEF Init
<1>2. vars \in [1 .. MaxHosts -> Contents] /\ \A h \in 1 .. MaxHosts : vars[h] \notin Ranks
  BY <1>1, AnsibleAssumption DEF Contents
<1>3. Types
  BY <1>2 DEF Init, Types, Places
<1>4. KeysInv
  BY DEF Init, KeysInv
<1>5. BestInv
  BY DEF Init, BestInv, Settled, Chosen
<1>6. FilesInv
  BY <1>2 DEF Init, FilesInv
<1> QED
  BY <1>3, <1>4, <1>5, <1>6 DEF IInv

\* What bubbleUpTo is called with while sorting and trying.
LEMMA SortsKeys ==
  ASSUME Types, KeysInv, pc = "sort", i < numHosts + 1
  PROVE  /\ numHosts \in Nat /\ i \in Places
         /\ keys \in [Places -> tried] /\ tried \in SUBSET Nat
         /\ \A a, b \in Places : a # b => keys[a] # keys[b]
BY AnsibleAssumption DEF Types, KeysInv, Places

LEMMA TriesKeys ==
  ASSUME Types, KeysInv, pc = "try", NEW k, Draw(k)
  PROVE  /\ numHosts \in Nat /\ 0 \in Places
         /\ [keys EXCEPT ![0] = k] \in [Places -> tried'] /\ tried' \in SUBSET Ranks
         /\ tried' \in SUBSET Nat
         /\ \A a, b \in Places :
              a # b => [keys EXCEPT ![0] = k][a] # [keys EXCEPT ![0] = k][b]
<1>1. /\ numHosts \in Nat /\ 0 \in Places /\ tried' = tried \cup {k} /\ k \notin tried
      /\ tried' \in SUBSET Ranks /\ tried' \in SUBSET Nat
  BY AnsibleAssumption DEF Types, Draw, Places
<1>2. keys \in [Places -> tried] /\ \A a, b \in Places : a # b => keys[a] # keys[b]
  BY DEF Types, KeysInv
<1> QED
  BY <1>1, <1>2

LEMMA TypesStep == Types /\ KeysInv /\ [Next]_state => Types'
<1> SUFFICES ASSUME Types, KeysInv, [Next]_state
             PROVE  Types'
  OBVIOUS
<1> USE DEF Types
<1>1. CASE Check
  BY <1>1 DEF Check, flags, files, Places
<1>2. CASE Fill
  <2>1. tried' \in SUBSET Ranks
    BY <1>2 DEF Fill, Draw
  <2>2. keys' \in [Places -> Ranks \cup {0}]
    BY <1>2 DEF Fill, Draw
  <2>3. i' \in Nat
    BY <1>2 DEF Fill
  <2> QED
    BY <1>2, <2>1, <2>2, <2>3 DEF Fill, flags, files, Places
<1>3. CASE Sort
  <2>1. keys' \in [Places -> Ranks \cup {0}]
    <3>1. CASE i < numHosts + 1
      <4>1. keys' = BubbleUpTo(keys, i)
        BY <1>3, <3>1 DEF Sort
      <4>2. BubbleUpTo(keys, i) \in [Places -> tried]
        BY <1>3, <3>1, SortsKeys, BubbleRearranges DEF Sort
      <4> QED
        BY <4>1, <4>2
    <3>2. CASE ~(i < numHosts + 1)
      BY <1>3, <3>2 DEF Sort
    <3> QED
      BY <3>1, <3>2
  <2> QED
    BY <1>3, <2>1 DEF Sort, flags, files, Places
<1>4. CASE Try
  <2>1. keys' \in [Places -> Ranks \cup {0}] /\ tried' \in SUBSET Ranks
    <3>1. ASSUME NEW k \in Ranks, Draw(k), keys' = BubbleUpTo([keys EXCEPT ![0] = k], 0)
          PROVE  keys' \in [Places -> Ranks \cup {0}] /\ tried' \in SUBSET Ranks
      <4>1. keys' \in [Places -> tried']
        BY <1>4, <3>1, TriesKeys, BubbleRearranges DEF Try
      <4>2. tried' \in SUBSET Ranks
        BY <1>4, <3>1, TriesKeys DEF Try
      <4> QED
        BY <4>1, <4>2
    <3> QED
      BY <1>4, <3>1 DEF Try
  <2> QED
    BY <1>4, <2>1 DEF Try, flags, files, Places
<1>5. CASE CreateVars \/ WriteVars \/ CreateVault \/ WriteVault
  <2>1. vars' \in [1 .. MaxHosts -> Contents] /\ vault' \in [1 .. MaxHosts -> Contents]
    <3>1. Torn \in Contents
      BY DEF Contents
    <3>2. pc \in {"writeVars", "writeVault"} => keys[i] \in Contents
      BY DEF KeysInv, Contents, Places, Hosts
    <3> QED
      BY <1>5, <3>1, <3>2 DEF CreateVars, WriteVars, CreateVault, WriteVault, Ends, files, Goto
  <2> QED
    BY <1>5, <2>1 DEF CreateVars, WriteVars, CreateVault, WriteVault, Ends, Goto, flags, files, Places
<1>6. CASE AllWritten \/ Killed \/ UNCHANGED state
  BY <1>6 DEF AllWritten, Killed, state, flags, files, Places
<1> QED
  BY <1>1, <1>2, <1>3, <1>4, <1>5, <1>6 DEF Next

LEMMA KeysStep == Types /\ KeysInv /\ [Next]_state => KeysInv'
<1> SUFFICES ASSUME Types, KeysInv, [Next]_state
             PROVE  KeysInv'
  OBVIOUS
<1>0. numHosts \in Nat /\ i \in Nat /\ Ranks \in SUBSET Nat /\ 0 \notin Ranks
  BY AnsibleAssumption DEF Types
<1>1. CASE Check
  BY <1>0, <1>1 DEF Check, KeysInv, flags, files, Places, Hosts
<1>2. CASE Fill
  <2>1. ASSUME i < numHosts + 1, NEW k \in Ranks, Draw(k), keys' = [keys EXCEPT ![i] = k],
               i' = i + 1, UNCHANGED pc
        PROVE  KeysInv'
    <3>1. i \in Places /\ k # 0 /\ k \notin tried /\ tried' = tried \cup {k} /\ pc = "fill"
      BY <1>0, <1>2, <2>1 DEF Draw, Places, Fill
    <3>2. /\ keys'[i] = k
          /\ \A a \in Places \ {i} : keys'[a] = keys[a]
      BY <2>1, <3>1 DEF Types
    <3>3. \A a \in Places : keys[a] \in tried \cup {0} /\ (keys[a] = 0 <=> a >= i)
      BY <3>1 DEF KeysInv
    <3>4. UNCHANGED Places
      BY <1>2 DEF Fill, flags, Places
    <3>5. \A a \in Places : keys'[a] = 0 <=> a >= i + 1
      BY <1>0, <3>1, <3>2, <3>3 DEF Places
    <3>6. \A a, b \in Places : a # b /\ keys'[a] # 0 => keys'[a] # keys'[b]
      BY <3>1, <3>2, <3>3 DEF KeysInv
    <3>7. \A a \in Places : keys'[a] \in tried' \cup {0}
      BY <3>1, <3>2, <3>3
    <3>8. i' <= numHosts' + 1 /\ pc' = "fill"
      BY <1>0, <1>2, <2>1, <3>1 DEF Fill, flags
    <3> QED
      BY <2>1, <3>4, <3>5, <3>6, <3>7, <3>8 DEF KeysInv
  <2>2. ASSUME ~(i < numHosts + 1), i' = 0, pc' = "sort", UNCHANGED <<keys, tried>>
        PROVE  KeysInv'
    BY <1>0, <1>2, <2>2 DEF KeysInv, Fill, flags, Places
  <2> QED
    BY <1>2, <2>1, <2>2 DEF Fill
<1>3. CASE Sort
  <2>1. CASE i < numHosts + 1
    <3>1. /\ keys' \in [Places -> tried]
          /\ \A a, b \in Places : a # b => keys'[a] # keys'[b]
      <4>1. keys' = BubbleUpTo(keys, i)
        BY <1>3, <2>1 DEF Sort
      <4> QED
        BY <1>3, <2>1, <4>1, SortsKeys, BubbleRearranges DEF Sort
    <3>2. tried \in SUBSET Ranks
      BY DEF Types
    <3> QED
      BY <1>0, <1>3, <2>1, <3>1, <3>2 DEF KeysInv, Sort, flags, Places
  <2>2. CASE ~(i < numHosts + 1)
    BY <1>0, <1>3, <2>2 DEF KeysInv, Sort, flags, Places
  <2> QED
    BY <2>1, <2>2
<1>4. CASE Try
  <2>1. ASSUME NEW k \in Ranks, Draw(k), keys' = BubbleUpTo([keys EXCEPT ![0] = k], 0),
               UNCHANGED pc
        PROVE  KeysInv'
    <3>1. /\ keys' \in [Places -> tried']
          /\ \A a, b \in Places : a # b => keys'[a] # keys'[b]
      <4> DEFINE drawn == [keys EXCEPT ![0] = k]
      <4>1. /\ numHosts \in Nat /\ 0 \in Places /\ drawn \in [Places -> tried']
            /\ tried' \in SUBSET Nat
            /\ \A a, b \in Places : a # b => drawn[a] # drawn[b]
        BY <1>4, <2>1, TriesKeys DEF Try
      <4>2. keys' = BubbleUpTo(drawn, 0)
        BY <2>1
      <4> HIDE DEF drawn
      <4> QED
        BY <4>1, <4>2, BubbleRearranges
    <3>2. tried' \in SUBSET Ranks
      BY <1>4, <2>1, TriesKeys DEF Try
    <3> QED
      BY <1>0, <1>4, <2>1, <3>1, <3>2 DEF KeysInv, Try, flags, Places
  <2>2. ASSUME i' = 1, pc' = "vars", UNCHANGED <<keys, tried>>
        PROVE  KeysInv'
    BY <1>0, <1>4, <2>2 DEF KeysInv, Try, flags, Places
  <2> QED
    BY <1>4, <2>1, <2>2 DEF Try
<1>5. CASE CreateVars \/ WriteVars \/ CreateVault \/ WriteVault
  BY <1>0, <1>5 DEF KeysInv, CreateVars, WriteVars, CreateVault, WriteVault, Ends, Goto,
                    flags, Places, Hosts
<1>6. CASE AllWritten \/ Killed \/ UNCHANGED state
  BY <1>6 DEF KeysInv, AllWritten, Killed, state, flags, Places, Hosts
<1> QED
  BY <1>1, <1>2, <1>3, <1>4, <1>5, <1>6 DEF Next

LEMMA BestStep == Types /\ KeysInv /\ BestInv /\ [Next]_state => BestInv'
<1> SUFFICES ASSUME Types, KeysInv, BestInv, [Next]_state
             PROVE  BestInv'
  OBVIOUS
<1>0. numHosts \in Nat /\ i \in Nat /\ Ranks \in SUBSET Nat /\ 0 \notin Ranks
  BY AnsibleAssumption DEF Types
<1> USE DEF Unsorted, Settled, Chosen
<1>1. CASE Check
  BY <1>1 DEF Check, BestInv, flags, Places
<1>2. CASE Fill
  <2>1. ASSUME i < numHosts + 1, NEW k \in Ranks, Draw(k), keys' = [keys EXCEPT ![i] = k],
               i' = i + 1, UNCHANGED pc
        PROVE  BestInv'
    <3>1. /\ i \in Places /\ k # 0 /\ tried' = tried \cup {k} /\ pc = "fill" /\ keys[i] = 0
          /\ UNCHANGED Places
      BY <1>0, <1>2, <2>1 DEF Draw, Places, Fill, flags, KeysInv
    <3>2. keys'[i] = k /\ \A a \in Places \ {i} : keys'[a] = keys[a]
      BY <2>1, <3>1 DEF Types
    <3>3. ASSUME NEW t \in tried'
          PROVE  \E a \in Places : keys'[a] # 0 /\ keys'[a] <= t
      <4>1. CASE t = k
        BY <1>0, <3>1, <3>2, <4>1
      <4>2. CASE t \in tried
        BY <3>1, <3>2, <4>2 DEF BestInv
      <4> QED
        BY <3>1, <4>1, <4>2
    <3> QED
      BY <2>1, <3>1, <3>3 DEF BestInv
  <2>2. ASSUME i' = 0, pc' = "sort", UNCHANGED <<keys, tried>>
        PROVE  BestInv'
    BY <1>2, <2>2 DEF BestInv, Fill, flags, Places
  <2> QED
    BY <1>2, <2>1, <2>2 DEF Fill
<1>3. CASE Sort
  <2>1. CASE i < numHosts + 1
    <3>1. /\ keys' = BubbleUpTo(keys, i) /\ pc' = "sort" /\ i' = i + 1
          /\ UNCHANGED <<tried, numHosts>>
      BY <1>3, <2>1 DEF Sort, flags
    <3>2. ASSUME numHosts > 0, NEW t \in tried
          PROVE  \E h \in Hosts : keys'[h] <= t
      <4>1. PICK k \in Places : keys[k] <= t /\ (k = 0 => i = 0)
        BY <1>0, <1>3, <3>2 DEF BestInv, Sort, Hosts, Places
      <4>2. t \in Nat /\ keys \in [Places -> Nat] /\ i \in Places
        BY <1>0, <1>3, <2>1, <3>2, SortsKeys DEF Sort
      <4> QED
        BY <1>0, <3>1, <3>2, <4>1, <4>2, BubbleKeepsBest
    <3> QED
      BY <1>0, <3>1, <3>2 DEF BestInv, Hosts
  <2>2. CASE ~(i < numHosts + 1)
    BY <1>0, <1>3, <2>2 DEF BestInv, Sort, flags, Hosts
  <2> QED
    BY <2>1, <2>2
<1>4. CASE Try
  <2>1. ASSUME NEW k \in Ranks, Draw(k), keys' = BubbleUpTo([keys EXCEPT ![0] = k], 0),
               UNCHANGED pc
        PROVE  BestInv'
    <3>1. /\ pc' = "try" /\ UNCHANGED numHosts /\ tried' = tried \cup {k}
          /\ 0 \in Places /\ [keys EXCEPT ![0] = k] \in [Places -> Nat]
          /\ tried' \in SUBSET Nat
      BY <1>4, <2>1, TriesKeys DEF Try, flags, Draw
    <3>2. ASSUME numHosts > 0, NEW t \in tried'
          PROVE  \E h \in Hosts : keys'[h] <= t
      <4>1. \E a \in Places : [keys EXCEPT ![0] = k][a] <= t
        <5>1. CASE t = k
          BY <1>0, <3>1, <5>1 DEF Types
        <5>2. CASE t \in tried
          <6>1. PICK h \in Hosts : keys[h] <= t
            BY <1>4, <3>2, <5>2 DEF BestInv, Try
          <6> QED
            BY <1>0, <6>1 DEF Types, Hosts, Places
        <5> QED
          BY <3>1, <5>1, <5>2
      <4> DEFINE drawn == [keys EXCEPT ![0] = k]
      <4>2. /\ \E a \in Places : drawn[a] <= t
            /\ drawn \in [Places -> Nat] /\ keys' = BubbleUpTo(drawn, 0) /\ t \in Nat
            /\ numHosts \in Nat \ {0} /\ 0 \in Places
        BY <1>0, <2>1, <3>1, <3>2, <4>1
      <4> HIDE DEF drawn
      <4> QED
        BY <4>2, BubbleKeepsBest
    <3> QED
      BY <3>1, <3>2 DEF BestInv, Hosts
  <2>2. ASSUME i' = 1, pc' = "vars", UNCHANGED <<keys, tried>>
        PROVE  BestInv'
    BY <1>4, <2>2 DEF BestInv, Try, flags, Hosts
  <2> QED
    BY <1>4, <2>1, <2>2 DEF Try
<1>5. CASE CreateVars \/ WriteVars \/ CreateVault \/ WriteVault
  BY <1>5 DEF BestInv, CreateVars, WriteVars, CreateVault, WriteVault, Ends, Goto, flags, Hosts
<1>6. CASE AllWritten \/ Killed \/ UNCHANGED state
  BY <1>6 DEF BestInv, AllWritten, Killed, state, flags, Hosts, Places
<1> QED
  BY <1>1, <1>2, <1>3, <1>4, <1>5, <1>6 DEF Next

LEMMA FilesStep == Types /\ KeysInv /\ FilesInv /\ [Next]_state => FilesInv'
<1> SUFFICES ASSUME Types, KeysInv, FilesInv, [Next]_state
             PROVE  FilesInv'
  OBVIOUS
<1>1. CASE Check \/ Fill \/ Sort \/ Try
  <2>1. /\ UNCHANGED <<files, numHosts, MaxHosts>>
        /\ vars = vault /\ \A h \in 1 .. MaxHosts : vars[h] \notin Ranks
        /\ pc' \in {"refused", "fill", "sort", "try", "vars"}
    BY <1>1 DEF FilesInv, Check, Fill, Sort, Try, flags
  <2> QED
    BY <2>1 DEF FilesInv, files
<1>2. CASE CreateVars \/ WriteVars \/ CreateVault \/ WriteVault
  <2>1. /\ i \in Nat /\ (pc \in {"writeVars", "vault", "writeVault"} => i \in Hosts)
        /\ pc = "vars" => i > 0
        /\ keys \in [Places -> Ranks \cup {0}] /\ \A k \in Hosts : keys[k] \in Ranks
        /\ Torn \notin Ranks
        /\ vars \in [1 .. MaxHosts -> Contents] /\ vault \in [1 .. MaxHosts -> Contents]
        /\ numHosts \in 0 .. MaxHosts /\ Hosts \subseteq 1 .. MaxHosts
    BY <1>2, AnsibleAssumption DEF Types, KeysInv, CreateVars, WriteVars, CreateVault, WriteVault,
                                   Goto, Hosts, Places
  <2>2. CASE CreateVars
    <3>1. i \in Hosts /\ UNCHANGED <<i, keys, numHosts>>
      BY <2>1, <2>2 DEF CreateVars, Hosts, flags
    <3> QED
      BY <2>1, <2>2, <3>1 DEF CreateVars, Ends, files, FilesInv, Hosts
  <2>3. CASE WriteVars
    BY <2>1, <2>3 DEF WriteVars, Goto, flags, FilesInv, Hosts
  <2>4. CASE CreateVault
    BY <2>1, <2>4 DEF CreateVault, Ends, files, flags, FilesInv, Hosts
  <2>5. CASE WriteVault
    <3>1. /\ vault'[i] \in {Torn, keys[i]} /\ vars[i] \in {Torn, keys[i]}
          /\ \A h \in 1 .. MaxHosts : h # i => vault'[h] = vault[h]
      BY <2>1, <2>5 DEF WriteVault, Goto, FilesInv
    <3>2. i \in Hosts /\ pc' = "vars" /\ i' = i + 1 /\ UNCHANGED <<vars, keys, numHosts>>
      BY <2>1, <2>5 DEF WriteVault, Goto, flags
    <3>3. \A h \in 1 .. MaxHosts : vars[h] # Torn /\ vault'[h] # Torn => vars[h] = vault'[h]
      BY <2>5, <3>1 DEF FilesInv, WriteVault, Goto
    <3> QED
      BY <2>1, <3>1, <3>2, <3>3 DEF FilesInv, Hosts
  <2> QED
    BY <1>2, <2>2, <2>3, <2>4, <2>5
<1>3. CASE AllWritten \/ Killed \/ UNCHANGED state
  BY <1>3 DEF FilesInv, AllWritten, Killed, state, flags, files, Hosts
<1> QED
  BY <1>1, <1>2, <1>3 DEF Next

LEMMA IInvHolds == Spec => []IInv
<1>1. IInv /\ [Next]_state => IInv'
  BY TypesStep, KeysStep, BestStep, FilesStep DEF IInv
<1> QED
  BY <1>1, InitIInv, PTL DEF Spec

-----------------------------------------------------------------------------
(* Theorems.                                                                *)

\* The places are filled with keys before they are sorted or written, and every
\* write is to a host that was asked for.
THEOREM AnsibleTypes == Spec => []TypeOK
<1>1. IInv => TypeOK
  BY DEF IInv, Types, KeysInv, TypeOK
<1> QED
  BY <1>1, IInvHolds, PTL

\* However many keys are tried and in whatever order they come, the best of them
\* is given to a host, although the sort is none.
THEOREM BestKeyIsAlwaysTaken == Spec => []BestKeyTaken
<1>1. IInv => BestKeyTaken
  BY DEF IInv, BestInv, Settled, BestKeyTaken
<1> QED
  BY <1>1, IInvHolds, PTL

\* No two hosts ever hold one key or halves of different keys, whichever file
\* fails and whenever the program is killed, over the files of an earlier run too.
THEOREM HostsAlwaysHaveOwnPairs == Spec => []HostsHaveOwnPairs
<1>1. IInv => HostsHaveOwnPairs
  <2> SUFFICES ASSUME IInv PROVE HostsHaveOwnPairs
    OBVIOUS
  <2>1. ASSUME NEW g \in 1 .. MaxHosts, NEW h \in 1 .. MaxHosts, g # h
        PROVE  /\ vars[g] \in Ranks => vars[g] \notin {vars[h], vault[h]}
               /\ vault[g] \in Ranks => vault[g] # vault[h]
    <3>1. Hosts \subseteq Places /\ 0 \notin Ranks
      BY AnsibleAssumption DEF Hosts, Places, IInv, Types
    <3> QED
      BY <2>1, <3>1 DEF IInv, FilesInv, KeysInv
  <2>2. ASSUME NEW h \in 1 .. MaxHosts, h # i,
               {vars[h], vault[h]} \subseteq Ranks \cup {Earlier}
        PROVE  vars[h] = vault[h]
    <3>1. Torn \notin Ranks \cup {Earlier}
      BY AnsibleAssumption
    <3> QED
      BY <2>2, <3>1 DEF IInv, FilesInv
  <2> QED
    BY <2>1, <2>2 DEF HostsHaveOwnPairs
<1> QED
  BY <1>1, IInvHolds, PTL
=============================================================================
