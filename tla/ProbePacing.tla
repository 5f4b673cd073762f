----------------------------- MODULE ProbePacing -----------------------------
(***************************************************************************)
(* What the autopeering module promises to the public peers: it probes      *)
(* them at a bounded rate and calls at most one of them per probe.          *)
(***************************************************************************)
EXTENDS Naturals

CONSTANTS PublicPeers, gap, horizon

VARIABLES
  age,       \* time since the last probe began, saturating at horizon
  probing,   \* a probe is under way
  calls      \* the peers being called

Init == age = horizon /\ probing = FALSE /\ calls = {}

Probe ==
  /\ age > gap
  /\ ~probing
  /\ age' = 0
  /\ probing' = TRUE
  /\ UNCHANGED calls

CallOneOrNone ==
  /\ probing
  /\ probing' = FALSE
  /\ calls' = calls \/ \E p \in PublicPeers : calls' = calls \cup {p}
  /\ UNCHANGED age

CallEnds ==
  /\ \E p \in calls : calls' = calls \ {p}
  /\ UNCHANGED <<age, probing>>

TimePasses ==
  /\ age' = IF age < horizon THEN age + 1 ELSE age
  /\ UNCHANGED <<probing, calls>>

Next == Probe \/ CallOneOrNone \/ CallEnds \/ TimePasses

Spec == Init /\ [][Next]_<<age, probing, calls>>
=============================================================================
