------------------------------ MODULE KeySearch ------------------------------
(***************************************************************************)
(* The key generator, cmd/genkeys/main.go: one goroutine per thread keeps   *)
(* generating keys and sends each one that beats its own best on a buffered *)
(* channel; main() receives them and prints those that beat everything it   *)
(* has printed.  A keySet is represented by its public key, which its       *)
(* private key determines.                                                  *)
(***************************************************************************)
EXTENDS Naturals, Sequences

CONSTANTS
  Threads,   \* the doKeys goroutines, GOMAXPROCS of them
  Capacity,  \* of the channel newKeys: the number of threads
  KeySize,   \* ed25519.PublicKeySize, 32 in the code
  MaxByte    \* 255 in the code

ASSUME SearchAssumption ==
  /\ Capacity \in Nat \ {0}
  /\ KeySize \in Nat \ {0}
  /\ MaxByte \in Nat

VARIABLES
  bestKey,     \* bestKey of each doKeys
  sending,     \* whether it has still to send it
  newKeys,     \* the channel
  currentBest  \* main's currentBest: <<>> until a key has come

vars == <<bestKey, sending, newKeys, currentBest>>

Keys == [1 .. KeySize -> 0 .. MaxByte]
Worst == [i \in 1 .. KeySize |-> MaxByte]

TypeOK ==
  /\ bestKey \in [Threads -> Keys]
  /\ sending \in [Threads -> BOOLEAN]
  /\ newKeys \in Seq(Keys) /\ Len(newKeys) <= Capacity
  /\ currentBest \in Keys \cup {<<>>}

\* isBetter: at the first byte where they differ the new key has the smaller
\* one; over an empty old key the loop finds nothing.
IsBetter(oldPub, newPub) ==
  \E idx \in DOMAIN oldPub :
    /\ newPub[idx] < oldPub[idx]
    /\ \A before \in DOMAIN oldPub :
         before < idx => newPub[before] = oldPub[before]

Init ==
  /\ bestKey = [t \in Threads |-> Worst]
  /\ sending = [t \in Threads |-> FALSE]
  /\ newKeys = <<>>
  /\ currentBest = <<>>

-----------------------------------------------------------------------------

\* One turn of the loop of doKeys: a key that is not better is dropped.
Generate(t) ==
  /\ ~sending[t]
  /\ \E pub \in Keys :
       IF IsBetter(bestKey[t], pub)
       THEN /\ bestKey' = [bestKey EXCEPT ![t] = pub]
            /\ sending' = [sending EXCEPT ![t] = TRUE]
       ELSE UNCHANGED <<bestKey, sending>>
  /\ UNCHANGED <<newKeys, currentBest>>

\* Mutants: a send that gives up when the channel is full, or never blocks.
SendOrDrop(t) ==
  /\ sending[t]
  /\ newKeys' = IF Len(newKeys) < Capacity THEN Append(newKeys, bestKey[t]) ELSE newKeys
  /\ sending' = [sending EXCEPT ![t] = FALSE]
  /\ UNCHANGED <<bestKey, currentBest>>

SendUnbounded(t) ==
  /\ sending[t]
  /\ newKeys' = Append(newKeys, bestKey[t])
  /\ sending' = [sending EXCEPT ![t] = FALSE]
  /\ UNCHANGED <<bestKey, currentBest>>

\* The goroutine blocks while the channel is full.
Send(t) ==
  /\ sending[t]
  /\ Len(newKeys) < Capacity
  /\ newKeys' = Append(newKeys, bestKey[t])
  /\ sending' = [sending EXCEPT ![t] = FALSE]
  /\ UNCHANGED <<bestKey, currentBest>>

\* Mutants: main forgets the first key's special case, or prints every key.
ReceiveWithoutFirst ==
  /\ newKeys # <<>>
  /\ newKeys' = Tail(newKeys)
  /\ currentBest' = IF IsBetter(currentBest, Head(newKeys))
                    THEN Head(newKeys) ELSE currentBest
  /\ UNCHANGED <<bestKey, sending>>

ReceiveAlways ==
  /\ newKeys # <<>>
  /\ newKeys' = Tail(newKeys)
  /\ currentBest' = Head(newKeys)
  /\ UNCHANGED <<bestKey, sending>>

\* main prints a key when it makes it currentBest.
Receive ==
  /\ newKeys # <<>>
  /\ newKeys' = Tail(newKeys)
  /\ LET newKey == Head(newKeys)
     IN currentBest' = IF IsBetter(currentBest, newKey) \/ currentBest = <<>>
                       THEN newKey ELSE currentBest
  /\ UNCHANGED <<bestKey, sending>>

Next == Receive \/ \E t \in Threads : Generate(t) \/ Send(t)

Spec == Init /\ [][Next]_vars

\* Goroutines blocked on the channel are served in turn.  That a better key
\* is ever generated is luck, not fairness.
FairSpec == Spec /\ WF_vars(Receive) /\ \A t \in Threads : WF_vars(Send(t))

-----------------------------------------------------------------------------
(* Properties.                                                              *)

\* main has printed this key or one that is at least as good.
Matched(key) == currentBest # <<>> /\ ~IsBetter(currentBest, key)

\* A thread's best key is never lost between the thread and the printer, though
\* main drops keys and the channel fills up: it is still to be sent, in the
\* channel, or matched by what has been printed (main.go:38-46, 63-77).
NoKeyLost ==
  \A t \in Threads :
    bestKey[t] # Worst =>
      \/ sending[t]
      \/ \E i \in DOMAIN newKeys : newKeys[i] = bestKey[t]
      \/ Matched(bestKey[t])

\* No key is between a thread and main.
Drained == newKeys = <<>> /\ \A t \in Threads : ~sending[t]

\* "It prints out a new set of keys each time it finds a better one" (main.go:4):
\* whenever the threads' keys have all arrived, in whatever order, the last key that
\* main has printed is the best key of all threads (main.go:38-46, 72-76): no late
\* arrival has replaced it by a worse one.
SettlesOnBest ==
  Drained /\ (\E t \in Threads : bestKey[t] # Worst) =>
    /\ \E t \in Threads : currentBest = bestKey[t]
    /\ \A t \in Threads : ~IsBetter(currentBest, bestKey[t])

\* A key that a thread has found is matched by a printed one in the end, however
\* many others compete for the channel.
FoundKeyIsPrinted ==
  \A t \in Threads : \A key \in Keys \ {Worst} :
    bestKey[t] = key ~> Matched(key)
=============================================================================
