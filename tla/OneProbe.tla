------------------------------ MODULE OneProbe ------------------------------
(***************************************************************************)
(* What one probe promises to the check loop: every peer gets its say once  *)
(* and is held to it; then, never earlier, one of the closest that answered *)
(* is taken, whichever it is, or nobody when nobody did; and that moment     *)
(* comes.                                                                   *)
(***************************************************************************)
EXTENDS Naturals, FiniteSets

CONSTANTS
  Peers,       \* who is asked
  Limit,       \* how many of those that answered may count as the closest
  Results      \* what a peer may turn out to be: online or not, and how fast

VARIABLES
  answers,     \* the results so far, one for each peer that has had its say
  taken,       \* whom the probe chose
  over         \* it has chosen

\* Fewer than Limit others are faster: with equal latencies these are more than
\* Limit, of which a caller may keep any.
Closest(rs) ==
  {r \in rs : /\ r.online
              /\ Cardinality({o \in rs : o.online /\ o.latency < r.latency}) < Limit}

Init == answers = {} /\ taken = {} /\ ~over

HasItsSay(p) ==
  /\ \A r \in answers : r.peer # p
  /\ \E r \in Results : r.peer = p /\ answers' = answers \cup {r}
  /\ UNCHANGED <<taken, over>>

Choose ==
  /\ ~over /\ over'
  /\ \A p \in Peers : \E r \in answers : r.peer = p
  /\ \/ Closest(answers) = {} /\ UNCHANGED taken
     \/ \E r \in Closest(answers) : taken' = {r.peer}
  /\ UNCHANGED answers

Next == Choose \/ \E p \in Peers : HasItsSay(p)

\* What may happen, and that the choice comes.
Steps == Init /\ [][Next]_<<answers, taken, over>>

Spec == Steps /\ <>over
=============================================================================
