----------------------------- MODULE AnsibleKeys -----------------------------
(***************************************************************************)
(* The key generator for ansible (contrib/ansible/genkeys.go): it draws     *)
(* -tries keys, means to keep the best -hosts of them, and writes each to   *)
(* the two files of a host.  keys[0] is the place where new keys come in,   *)
(* keys[1 .. numHosts] are those that are written.                          *)
(*                                                                         *)
(* A key set stands for its public key, and that for its place in the       *)
(* order of isBetter: a smaller number is a better key.  No key is drawn    *)
(* twice.                                                                   *)
(***************************************************************************)
EXTENDS Integers

CONSTANTS
  MaxHosts, MaxTries,    \* bounds on the flags -hosts and -tries
  Ranks,                 \* the keys there are
  Absent, Earlier, Torn  \* contents of a file: none, of an earlier run, cut short

ASSUME AnsibleAssumption ==
  /\ MaxHosts \in Nat /\ MaxTries \in Nat
  /\ Ranks \subseteq Nat \ {0}
  /\ {Absent, Earlier, Torn} \cap Ranks = {}
  /\ Absent # Earlier /\ Absent # Torn /\ Earlier # Torn

VARIABLES
  numHosts, keyTries,  \* the flags
  pc,
  i,                   \* the loop variable of each of main's and sort's loops
  keys,                \* 0 where there is no key yet
  tried,               \* history: the keys drawn
  vars, vault          \* host_vars/<i>/vars and host_vars/<i>/vault

flags == <<numHosts, keyTries>>
files == <<vars, vault>>
state == <<flags, pc, i, keys, tried, files>>

Hosts == 1 .. numHosts
Places == 0 .. numHosts
Contents == Ranks \cup {Absent, Earlier, Torn}

TypeOK ==
  /\ numHosts \in 0 .. MaxHosts /\ keyTries \in 0 .. MaxTries
  /\ pc \in {"check", "refused", "fill", "sort", "try", "vars", "writeVars",
             "vault", "writeVault", "done", "stopped"}
  /\ i \in Nat
  /\ keys \in [Places -> Ranks \cup {0}]
  /\ pc \notin {"check", "refused", "fill", "stopped"} => 0 \notin {keys[k] : k \in Places}
  /\ tried \subseteq Ranks
  /\ {vars, vault} \subseteq [1 .. MaxHosts -> Contents]

\* The files of an earlier run may be there, for all hosts it was asked for.
Init ==
  /\ numHosts \in 0 .. MaxHosts /\ keyTries \in 0 .. MaxTries
  /\ pc = "check" /\ i = 0
  /\ keys = [k \in Places |-> 0]
  /\ tried = {}
  /\ \E earlier \in 0 .. MaxHosts :
       vars = [h \in 1 .. MaxHosts |-> IF h <= earlier THEN Earlier ELSE Absent]
  /\ vault = vars

Goto(from, to) == pc = from /\ pc' = to

-----------------------------------------------------------------------------
(* Keeping the better keys.                                                 *)

IsBetter(old, new) == new < old

\* How far bubbleUpTo moves sets[0]: past the worse keys that follow it, up to
\* the first that is not worse or to the place it is given.
Moves(sets, num) ==
  LET last == numHosts - num
  IN CHOOSE p \in 0 .. last :
       /\ \A j \in 1 .. p : IsBetter(sets[j], sets[0])
       /\ p < last => ~IsBetter(sets[p + 1], sets[0])

\* Mutant: tmp is not put back.
BubbleUpToCopying(sets, num) ==
  LET p == Moves(sets, num)
  IN [k \in Places |-> IF k < p THEN sets[k + 1] ELSE sets[k]]

BubbleUpTo(sets, num) ==
  LET p == Moves(sets, num)
  IN [k \in Places |-> IF k < p THEN sets[k + 1] ELSE IF k = p THEN sets[0] ELSE sets[k]]

Draw(k) == tried' = tried \cup {k} /\ k \in Ranks \ tried

Check ==
  /\ pc = "check"
  /\ pc' = IF numHosts > keyTries THEN "refused" ELSE "fill"
  /\ UNCHANGED <<flags, i, keys, tried, files>>

\* Mutant: one key too few.
FillHosts ==
  /\ pc = "fill"
  /\ IF i < numHosts
     THEN /\ \E k \in Ranks : Draw(k) /\ keys' = [keys EXCEPT ![i] = k]
          /\ i' = i + 1 /\ UNCHANGED pc
     ELSE /\ i' = 0 /\ pc' = "sort" /\ UNCHANGED <<keys, tried>>
  /\ UNCHANGED <<flags, files>>

Fill ==
  /\ pc = "fill"
  /\ IF i < numHosts + 1
     THEN /\ \E k \in Ranks : Draw(k) /\ keys' = [keys EXCEPT ![i] = k]
          /\ i' = i + 1 /\ UNCHANGED pc
     ELSE /\ i' = 0 /\ pc' = "sort" /\ UNCHANGED <<keys, tried>>
  /\ UNCHANGED <<flags, files>>

\* Mutant: no sorting.
SortNothing ==
  /\ Goto("sort", "try")
  /\ i' = 0
  /\ UNCHANGED <<flags, keys, tried, files>>

\* sortKeySetArray.
Sort ==
  /\ pc = "sort"
  /\ IF i < numHosts + 1
     THEN keys' = BubbleUpTo(keys, i) /\ i' = i + 1 /\ UNCHANGED pc
     ELSE i' = 0 /\ pc' = "try" /\ UNCHANGED keys
  /\ UNCHANGED <<flags, tried, files>>

\* What is in keys[0] is given up for the new key.
Try ==
  /\ pc = "try"
  /\ IF i < keyTries - numHosts - 1
     THEN /\ \E k \in Ranks : Draw(k) /\ keys' = BubbleUpTo([keys EXCEPT ![0] = k], 0)
          /\ i' = i + 1 /\ UNCHANGED pc
     ELSE i' = 1 /\ pc' = "vars" /\ UNCHANGED <<keys, tried>>
  /\ UNCHANGED <<flags, files>>

-----------------------------------------------------------------------------
(* Writing them down.  A file that cannot be created ends the program; an   *)
(* error of WriteString is not looked at.                                   *)

Ends == pc' = "stopped" /\ UNCHANGED files

CreateVars ==
  /\ pc = "vars" /\ i <= numHosts
  /\ \/ pc' = "writeVars" /\ vars' = [vars EXCEPT ![i] = Torn] /\ UNCHANGED vault
     \/ Ends
  /\ UNCHANGED <<flags, i, keys, tried>>

WriteVars ==
  /\ Goto("writeVars", "vault")
  /\ vars' = [vars EXCEPT ![i] = keys[i]] \/ UNCHANGED vars
  /\ UNCHANGED <<flags, i, keys, tried, vault>>

\* Mutant: a vault that cannot be created is skipped.
CreateVaultOrSkip ==
  /\ pc = "vault"
  /\ \/ pc' = "writeVault" /\ vault' = [vault EXCEPT ![i] = Torn] /\ UNCHANGED i
     \/ pc' = "vars" /\ i' = i + 1 /\ UNCHANGED vault
  /\ UNCHANGED <<flags, keys, tried, vars>>

CreateVault ==
  /\ pc = "vault"
  /\ \/ pc' = "writeVault" /\ vault' = [vault EXCEPT ![i] = Torn] /\ UNCHANGED vars
     \/ Ends
  /\ UNCHANGED <<flags, i, keys, tried>>

WriteVault ==
  /\ Goto("writeVault", "vars")
  /\ vault' = [vault EXCEPT ![i] = keys[i]] \/ UNCHANGED vault
  /\ i' = i + 1
  /\ UNCHANGED <<flags, keys, tried, vars>>

AllWritten ==
  /\ pc = "vars" /\ i > numHosts
  /\ pc' = "done"
  /\ UNCHANGED <<flags, i, keys, tried, files>>

Killed ==
  /\ pc \notin {"refused", "done", "stopped"}
  /\ pc' = "stopped"
  /\ UNCHANGED <<flags, i, keys, tried, files>>

Next ==
  \/ Check \/ Fill \/ Sort \/ Try
  \/ CreateVars \/ WriteVars \/ CreateVault \/ WriteVault \/ AllWritten
  \/ Killed

Spec == Init /\ [][Next]_state

-----------------------------------------------------------------------------
(* Properties.                                                              *)

Chosen == pc \in {"vars", "writeVars", "vault", "writeVault", "done"}

\* The best of all keys tried is given to a host: the partial sort and the
\* replacing of keys[0] (genkeys.go:47-52) may drop good keys, but never the best.
BestKeyTaken ==
  Chosen /\ numHosts > 0 => \A t \in tried : \E h \in Hosts : keys[h] <= t

\* A host has a key pair and has it alone: two hosts never get the same key,
\* whatever the swaps do with the places, and two files of a host that are whole
\* hold the two halves of one key, also when the program is killed, fails or runs
\* over the files of an earlier run; the one exception is the host at which it stopped.
HostsHaveOwnPairs ==
  /\ \A g, h \in 1 .. MaxHosts :
       g # h => /\ vars[g] \in Ranks => vars[g] \notin {vars[h], vault[h]}
                /\ vault[g] \in Ranks => vault[g] # vault[h]
  /\ \A h \in 1 .. MaxHosts :
       h # i /\ {vars[h], vault[h]} \subseteq Ranks \cup {Earlier} => vars[h] = vault[h]

\* "number of tries before taking the best keys" (genkeys.go:21): no key that was
\* passed over is better than one that a host is given.
TakesBestKeys ==
  Chosen => \A t \in tried : \A h \in Hosts :
              keys[h] > t => \E g \in Hosts : keys[g] = t
=============================================================================
