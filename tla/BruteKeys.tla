------------------------------ MODULE BruteKeys ------------------------------
(***************************************************************************)
(* The brute-force key searchers of contrib/yggdrasil-brute-simple: two C    *)
(* programs, for curve25519 and ed25519 keys, with one loop.  A secret is    *)
(* tried, its public key is hashed, and when the hash beats the worst row of *)
(* three parallel tables it is inserted there and a new random secret is     *)
(* drawn; otherwise the secret is incremented.  The loop runs in batches     *)
(* until the time is up.                                                     *)
(*                                                                         *)
(* A secret is a random seed and the number of increments since; its 240-bit *)
(* counter does not wrap in the life of a program.  What a hash is worth is   *)
(* open: each test draws it anew.                                            *)
(***************************************************************************)
EXTENDS Integers

CONSTANTS
  NUMKEYS,    \* rows of the tables
  MaxHash,    \* hashes are the numbers 1..MaxHash, an empty row has 0
  Width,      \* the counter of runs is unsigned: it wraps at this number
  Batch,      \* tests between two looks at the clock
  MaxTests    \* tests made: a bound

ASSUME BruteAssumption ==
  /\ NUMKEYS \in Nat \ {0}
  /\ MaxHash \in Nat
  /\ Width \in Nat /\ Width > NUMKEYS
  /\ Batch \in Nat \ {0}
  /\ MaxTests \in Nat

VARIABLES
  program,       \* "curve25519" or "ed25519"
  pc,            \* "batch", "printed" or "failed"
  i,             \* tests made in this batch
  runs,          \* tests made, as the program counts them
  secret,        \* sk of the one, seed of the other: the secret to be tried next
  bestsklist,    \* the secrets of the rows, with the public key in ed25519
  bestpklist,    \* the public keys of the rows, in curve25519
  besthashlist,  \* their hashes, the worst one first
  timeUp,        \* the requested time has passed
  made,          \* history: tests made
  tested         \* history: the secrets tested, with their hashes

vars == <<program, pc, i, runs, secret, bestsklist, bestpklist, besthashlist,
          timeUp, made, tested>>

Rows == 0 .. NUMKEYS - 1

\* A public key, and what ed25519 stores for a secret, are named by the secret.
Secrets == [seed : Nat, offset : Nat]
Drawn(n) == [seed |-> n, offset |-> 0]
Zero == Drawn(0)     \* of a row that is still empty: no seed is drawn as 0
Increment(s) == [s EXCEPT !.offset = @ + 1]

TypeOK ==
  /\ program \in {"curve25519", "ed25519"}
  /\ pc \in {"batch", "printed", "failed"}
  /\ i \in 0 .. Batch
  /\ runs \in 0 .. Width - 1
  /\ secret \in Secrets
  /\ bestsklist \in [Rows -> Secrets]
  /\ bestpklist \in [Rows -> Secrets]
  /\ besthashlist \in [Rows -> 0 .. MaxHash]
  /\ timeUp \in BOOLEAN
  /\ made \in Nat
  /\ tested \in SUBSET [secret : Secrets, hash : 1 .. MaxHash]

\* A requested time of 0 is up at once.
Init ==
  /\ program \in {"curve25519", "ed25519"}
  /\ pc = "batch"
  /\ i = 0
  /\ runs = 0
  /\ secret = Drawn(1)
  /\ bestsklist = [r \in Rows |-> Zero]
  /\ bestpklist = [r \in Rows |-> Zero]
  /\ besthashlist = [r \in Rows |-> 0]
  /\ timeUp \in BOOLEAN
  /\ made = 0
  /\ tested = {}

-----------------------------------------------------------------------------
(* The tables.                                                              *)

\* find_where: the last row of those from the top that the hash beats, or -1.
IsWhere(where, hash) ==
  /\ \A r \in Rows : r <= where => besthashlist[r] < hash
  /\ where + 1 \in Rows => besthashlist[where + 1] >= hash

\* Mutant: the row is overwritten, and the worst one stays.
Overwrite(list, item, where) == [list EXCEPT ![where] = item]

\* insert_32 and insert_64: the rows above move up, the worst one falls out.
Insert(list, item, where) ==
  [r \in Rows |-> IF r < where THEN list[r + 1]
                  ELSE IF r = where THEN item ELSE list[r]]

-----------------------------------------------------------------------------
(* The loop.                                                                *)

\* Mutant: a counter without a width.
CountedWide(n) == n + 1

Counted(n) == (n + 1) % Width

BeginsTest ==
  /\ pc = "batch" /\ i < Batch
  /\ made < MaxTests
  /\ i' = i + 1
  /\ runs' = Counted(runs)
  /\ UNCHANGED <<program, timeUp>>

Tested(hash) ==
  /\ made' = made + 1
  /\ tested' = tested \cup {[secret |-> secret, hash |-> hash]}
  /\ UNCHANGED pc

\* Mutant: the public keys stay where they were.
TestKeptStale ==
  /\ BeginsTest
  /\ \E hash \in 1 .. MaxHash, where \in Rows :
       /\ IsWhere(where, hash)
       /\ Tested(hash)
       /\ bestsklist' = Insert(bestsklist, secret, where)
       /\ besthashlist' = Insert(besthashlist, hash, where)
       /\ UNCHANGED bestpklist
  /\ secret' = Increment(Drawn(secret.seed + 1))

\* Mutant: the search goes on from the key it has found.
TestKeptOn ==
  /\ BeginsTest
  /\ \E hash \in 1 .. MaxHash, where \in Rows :
       /\ IsWhere(where, hash)
       /\ Tested(hash)
       /\ bestsklist' = Insert(bestsklist, secret, where)
       /\ bestpklist' = IF program = "curve25519"
                        THEN Insert(bestpklist, secret, where) ELSE bestpklist
       /\ besthashlist' = Insert(besthashlist, hash, where)
  /\ secret' = Increment(secret)

\* A hash that beats a row: the next secret is a new random one, which no
\* program draws twice, and is incremented at once.
TestKept ==
  /\ BeginsTest
  /\ \E hash \in 1 .. MaxHash, where \in Rows :
       /\ IsWhere(where, hash)
       /\ Tested(hash)
       /\ bestsklist' = Insert(bestsklist, secret, where)
       /\ bestpklist' = IF program = "curve25519"
                        THEN Insert(bestpklist, secret, where) ELSE bestpklist
       /\ besthashlist' = Insert(besthashlist, hash, where)
  /\ secret' = Increment(Drawn(secret.seed + 1))

TestDropped ==
  /\ BeginsTest
  /\ \E hash \in 1 .. MaxHash : IsWhere(-1, hash) /\ Tested(hash)
  /\ secret' = Increment(secret)
  /\ UNCHANGED <<bestsklist, bestpklist, besthashlist>>

\* The library finds no public key: the program ends and prints no key.
TestFails ==
  /\ BeginsTest
  /\ pc' = "failed"
  /\ UNCHANGED <<secret, bestsklist, bestpklist, besthashlist, made, tested>>

\* Mutant: the clock alone ends the search.
LookAtClockOnly ==
  /\ pc = "batch" /\ i = Batch
  /\ IF timeUp THEN pc' = "printed" /\ UNCHANGED i ELSE i' = 0 /\ UNCHANGED pc
  /\ UNCHANGED <<program, runs, secret, bestsklist, bestpklist, besthashlist,
                 timeUp, made, tested>>

\* Between two batches; the rows are printed when the loop ends.
Look ==
  /\ pc = "batch" /\ i = Batch
  /\ IF timeUp /\ runs >= NUMKEYS
     THEN pc' = "printed" /\ UNCHANGED i
     ELSE i' = 0 /\ UNCHANGED pc
  /\ UNCHANGED <<program, runs, secret, bestsklist, bestpklist, besthashlist,
                 timeUp, made, tested>>

TimePasses ==
  /\ ~timeUp
  /\ timeUp' = TRUE
  /\ UNCHANGED <<program, pc, i, runs, secret, bestsklist, bestpklist,
                 besthashlist, made, tested>>

Next == TestKept \/ TestDropped \/ TestFails \/ Look \/ TimePasses

Spec == Init /\ [][Next]_vars

-----------------------------------------------------------------------------
(* Properties.                                                              *)

Row(r) == [secret |-> bestsklist[r], hash |-> besthashlist[r]]
Filled(r) == besthashlist[r] > 0

\* The three tables, which three separate calls shift, stay in step: a row is a
\* secret that was tested, with its own public key and hash.
RowsAreKeys ==
  \A r \in Rows : Filled(r) =>
    /\ Row(r) \in tested
    /\ program = "curve25519" => bestpklist[r] = bestsklist[r]

\* The tables hold the best keys of the search: a tested key that is not in them
\* beats no row.
BestAreKept ==
  \A t \in tested :
    (\E r \in Rows : Row(r) = t) \/ \A r \in Rows : t.hash <= besthashlist[r]

\* The program prints only keys (the loop's `|| runs < NUMKEYS`): however short
\* the time, no row is empty, the counter's overflow included.
PrintsOnlyKeys == pc = "printed" => \A r \in Rows : Filled(r)

\* Each printed key comes from a random secret of its own: who learns one
\* cannot count on to another.
RowsAreUnrelated ==
  \A r, q \in Rows :
    r # q /\ Filled(r) /\ Filled(q) => bestsklist[r].seed # bestsklist[q].seed
=============================================================================
