--------------------------- MODULE BruteKeysProofs ---------------------------
(***************************************************************************)
(* Proofs about BruteKeys: for any number of rows, hashes, width of the      *)
(* counter and size of a batch.                                              *)
(***************************************************************************)
EXTENDS BruteKeys, TLAPS

\* find_where sees only the rows from the top: it is right because the hashes
\* ascend, and they do because it is right.
HashesAscend ==
  \A r, q \in Rows : r < q => besthashlist[r] <= besthashlist[q]

\* The seeds of the rows have been used up.
SeedsAreSpent == \A r \in Rows : Filled(r) => bestsklist[r].seed < secret.seed

\* Every test that is made fills a row, from the bottom, until all are filled.
TestsFillRows == \A r \in Rows : r >= NUMKEYS - made => Filled(r)

RunsAreTests ==
  /\ pc = "batch" => runs <= made
  /\ pc = "printed" => made >= NUMKEYS

TableInv ==
  /\ TypeOK
  /\ HashesAscend
  /\ RowsAreKeys
  /\ BestAreKept
  /\ SeedsAreSpent
  /\ RowsAreUnrelated
  /\ TestsFillRows
  /\ RunsAreTests

-----------------------------------------------------------------------------

\* The counter stays in its width and never runs ahead of the tests.
LEMMA CountedBounds ==
  ASSUME NEW n \in 0 .. Width - 1
  PROVE  Counted(n) \in 0 .. Width - 1 /\ Counted(n) <= n + 1
<1>1. Width \in Nat /\ Width > 0
  BY BruteAssumption, SMT
<1>2. CASE n + 1 < Width
  BY <1>1, <1>2, SMT DEF Counted
<1>3. CASE n + 1 = Width
  BY <1>1, <1>3, SMT DEF Counted
<1> QED
  BY <1>1, <1>2, <1>3, SMT

\* What insert_32 and insert_64 leave in each row.
LEMMA InsertAt ==
  ASSUME NEW S, NEW list \in [Rows -> S], NEW item \in S, NEW where \in Rows
  PROVE  /\ Insert(list, item, where) \in [Rows -> S]
         /\ \A r \in Rows :
              Insert(list, item, where)[r] = IF r < where THEN list[r + 1]
                                             ELSE IF r = where THEN item ELSE list[r]
         /\ \A r \in Rows : r < where => r + 1 \in Rows
<1>1. NUMKEYS \in Nat \ {0}
  BY BruteAssumption
<1>2. \A r \in Rows : r < where => r + 1 \in Rows
  BY <1>1, SMT DEF Rows
<1> QED
  BY <1>2, Zenon DEF Insert

LEMMA IncrementIsSecret ==
  ASSUME NEW s \in Secrets
  PROVE  /\ Increment(s) \in Secrets /\ Increment(s).seed = s.seed
         /\ Increment(Drawn(s.seed + 1)) \in Secrets
         /\ Increment(Drawn(s.seed + 1)).seed = s.seed + 1
BY DEF Increment, Drawn, Secrets

\* What a test leaves alone, and what it counts.
LEMMA BeginsTestTypes ==
  ASSUME TypeOK, BeginsTest
  PROVE  /\ program' = program /\ timeUp' = timeUp
         /\ i' \in 0 .. Batch /\ runs' \in 0 .. Width - 1
         /\ runs' <= runs + 1
<1>1. runs \in 0 .. Width - 1 /\ i \in 0 .. Batch /\ i < Batch
  BY DEF TypeOK, BeginsTest
<1>2. i' = i + 1 /\ runs' = Counted(runs) /\ program' = program /\ timeUp' = timeUp
  BY DEF BeginsTest
<1>3. i' \in 0 .. Batch
  BY <1>1, <1>2, BruteAssumption, SMT
<1> QED
  BY <1>1, <1>2, <1>3, CountedBounds

-----------------------------------------------------------------------------

\* A key that beats a row goes where find_where says.
LEMMA KeptStep == TableInv /\ TestKept => TableInv'
<1> SUFFICES ASSUME TableInv, TestKept
             PROVE  TableInv'
  OBVIOUS
<1>1. PICK hash \in 1 .. MaxHash, where \in Rows :
        /\ IsWhere(where, hash)
        /\ Tested(hash)
        /\ bestsklist' = Insert(bestsklist, secret, where)
        /\ bestpklist' = IF program = "curve25519"
                         THEN Insert(bestpklist, secret, where) ELSE bestpklist
        /\ besthashlist' = Insert(besthashlist, hash, where)
  BY DEF TestKept
<1>2. TypeOK /\ secret' = Increment(Drawn(secret.seed + 1)) /\ BeginsTest
  BY DEF TestKept, TableInv
<1>3. NUMKEYS \in Nat \ {0} /\ MaxHash \in Nat /\ hash \in 0 .. MaxHash
  BY BruteAssumption, SMT
<1>4. /\ secret \in Secrets /\ secret.seed \in Nat
      /\ secret' \in Secrets /\ secret'.seed = secret.seed + 1
  BY <1>2, IncrementIsSecret DEF TypeOK, Secrets
<1>5. /\ besthashlist' \in [Rows -> 0 .. MaxHash]
      /\ \A r \in Rows : besthashlist'[r] = IF r < where THEN besthashlist[r + 1]
                           ELSE IF r = where THEN hash ELSE besthashlist[r]
      /\ \A r \in Rows : r < where => r + 1 \in Rows
  <2>1. besthashlist \in [Rows -> 0 .. MaxHash]
    BY <1>2 DEF TypeOK
  <2>2. /\ Insert(besthashlist, hash, where) \in [Rows -> 0 .. MaxHash]
        /\ \A r \in Rows :
             Insert(besthashlist, hash, where)[r] = IF r < where THEN besthashlist[r + 1]
                                ELSE IF r = where THEN hash ELSE besthashlist[r]
        /\ \A r \in Rows : r < where => r + 1 \in Rows
    BY <1>3, <2>1, InsertAt
  <2> QED
    BY <1>1, <2>1, <2>2
<1>6. /\ bestsklist' \in [Rows -> Secrets]
      /\ \A r \in Rows : bestsklist'[r] = IF r < where THEN bestsklist[r + 1]
                           ELSE IF r = where THEN secret ELSE bestsklist[r]
  <2>1. bestsklist \in [Rows -> Secrets]
    BY <1>2 DEF TypeOK
  <2>2. /\ Insert(bestsklist, secret, where) \in [Rows -> Secrets]
        /\ \A r \in Rows :
             Insert(bestsklist, secret, where)[r] = IF r < where THEN bestsklist[r + 1]
                                ELSE IF r = where THEN secret ELSE bestsklist[r]
    <3>1. secret \in Secrets /\ \A r \in Rows : r < where => r + 1 \in Rows
      BY <1>4, <1>5
    <3> QED
      BY <2>1, <3>1 DEF Insert
  <2> QED
    BY <1>1, <2>1, <2>2
<1>7. /\ bestpklist' \in [Rows -> Secrets]
      /\ program = "curve25519" =>
           \A r \in Rows : bestpklist'[r] = IF r < where THEN bestpklist[r + 1]
                             ELSE IF r = where THEN secret ELSE bestpklist[r]
  <2>1. bestpklist \in [Rows -> Secrets]
    BY <1>2 DEF TypeOK
  <2>2. /\ Insert(bestpklist, secret, where) \in [Rows -> Secrets]
        /\ \A r \in Rows :
             Insert(bestpklist, secret, where)[r] = IF r < where THEN bestpklist[r + 1]
                                ELSE IF r = where THEN secret ELSE bestpklist[r]
    <3>1. secret \in Secrets /\ \A r \in Rows : r < where => r + 1 \in Rows
      BY <1>4, <1>5
    <3> QED
      BY <2>1, <3>1 DEF Insert
  <2> QED
    BY <1>1, <2>1, <2>2
<1>8. /\ made' = made + 1 /\ made \in Nat /\ pc' = pc
      /\ tested' = tested \cup {[secret |-> secret, hash |-> hash]}
  BY <1>1, <1>2 DEF Tested, TypeOK
<1>9. /\ \A r \in Rows : r <= where => besthashlist[r] < hash
      /\ where + 1 \in Rows => besthashlist[where + 1] >= hash
  BY <1>1 DEF IsWhere
<1>10. besthashlist \in [Rows -> 0 .. MaxHash] /\ HashesAscend
  BY <1>2 DEF TypeOK, TableInv
<1>11. TypeOK'
  <2>1. tested' \in SUBSET [secret : Secrets, hash : 1 .. MaxHash]
    BY <1>2, <1>4, <1>8 DEF TypeOK
  <2>2. made' \in Nat
    BY <1>8
  <2> QED
    BY <1>2, <1>4, <1>5, <1>6, <1>7, <1>8, <2>1, <2>2, BeginsTestTypes DEF TypeOK
<1>12. \A r \in Rows : r > where => besthashlist[r] >= hash
  <2> SUFFICES ASSUME NEW r \in Rows, r > where
               PROVE  besthashlist[r] >= hash
    OBVIOUS
  <2>1. where + 1 \in Rows /\ (r = where + 1 \/ where + 1 < r)
    BY <1>3 DEF Rows
  <2>2. besthashlist[where + 1] <= besthashlist[r]
    BY <1>10, <2>1 DEF HashesAscend
  <2> QED
    BY <1>9, <1>10, <2>1, <2>2
<1>13. HashesAscend'
  <2> SUFFICES ASSUME NEW r \in Rows, NEW q \in Rows, r < q
               PROVE  besthashlist'[r] <= besthashlist'[q]
    BY DEF HashesAscend, Rows
  <2>1. CASE q < where
    <3>1. r + 1 \in Rows /\ q + 1 \in Rows /\ r + 1 < q + 1
      BY <1>5, <2>1 DEF Rows
    <3>2. besthashlist[r + 1] <= besthashlist[q + 1]
      BY <1>10, <3>1 DEF HashesAscend
    <3> QED
      BY <1>5, <2>1, <3>2 DEF Rows
  <2>2. CASE q = where
    <3>1. r + 1 \in Rows /\ r + 1 <= where
      BY <1>3, <2>2 DEF Rows
    <3> QED
      BY <1>3, <1>5, <1>9, <1>10, <2>2, <3>1 DEF Rows
  <2>3. CASE q > where
    <3>1. besthashlist'[q] = besthashlist[q] /\ besthashlist[q] >= hash
      BY <1>5, <1>12, <2>3 DEF Rows
    <3>2. CASE r < where
      BY <1>3, <1>5, <1>9, <1>10, <3>1, <3>2 DEF Rows
    <3>3. CASE r = where
      BY <1>3, <1>5, <3>1, <3>3 DEF Rows
    <3>4. CASE r > where
      BY <1>5, <1>10, <3>1, <3>4 DEF Rows, HashesAscend
    <3> QED
      BY <3>2, <3>3, <3>4 DEF Rows
  <2> QED
    BY <2>1, <2>2, <2>3 DEF Rows
<1>14. RowsAreKeys'
  <2> SUFFICES ASSUME NEW r \in Rows, besthashlist'[r] > 0
               PROVE  /\ [secret |-> bestsklist'[r], hash |-> besthashlist'[r]] \in tested'
                      /\ program' = "curve25519" => bestpklist'[r] = bestsklist'[r]
    BY DEF RowsAreKeys, Rows, Filled, Row
  <2>0. program' = program
    BY <1>2, BeginsTestTypes
  <2>1. CASE r < where
    BY <1>5, <1>6, <1>7, <1>8, <2>0, <2>1 DEF TableInv, RowsAreKeys, Filled, Row
  <2>2. CASE r = where
    <3>1. bestsklist'[r] = secret /\ besthashlist'[r] = hash
      BY <1>5, <1>6, <2>2 DEF Rows
    <3>2. program = "curve25519" => bestpklist'[r] = secret
      BY <1>7, <2>2 DEF Rows
    <3> QED
      BY <1>8, <2>0, <3>1, <3>2
  <2>3. CASE r > where
    BY <1>5, <1>6, <1>7, <1>8, <2>0, <2>3 DEF TableInv, RowsAreKeys, Filled, Row, Rows
  <2> QED
    BY <2>1, <2>2, <2>3 DEF Rows
<1>15. \A r \in Rows : besthashlist[0] <= besthashlist'[r]
  <2>1. 0 \in Rows /\ 0 <= where
    BY <1>3 DEF Rows
  <2>2. \A r \in Rows : besthashlist[0] <= besthashlist[r]
    BY <1>10, <2>1 DEF HashesAscend, Rows
  <2>3. besthashlist[0] <= hash
    BY <1>3, <1>9, <1>10, <2>1
  <2> QED
    BY <1>5, <2>2, <2>3
<1>16. BestAreKept'
  <2> SUFFICES ASSUME NEW t \in tested',
                      ~\A r \in Rows : t.hash <= besthashlist'[r]
               PROVE  \E r \in Rows :
                        [secret |-> bestsklist'[r], hash |-> besthashlist'[r]] = t
    BY DEF BestAreKept, Rows, Row
  <2>1. CASE t = [secret |-> secret, hash |-> hash]
    <3>1. bestsklist'[where] = secret /\ besthashlist'[where] = hash
      BY <1>5, <1>6 DEF Rows
    <3> QED
      BY <2>1, <3>1
  <2>2. CASE t \in tested
    <3>1. t.hash \in 1 .. MaxHash
      BY <1>2, <2>2 DEF TypeOK
    <3>2. ~(t.hash <= besthashlist[0]) /\ 0 \in Rows
      BY <1>3, <1>5, <1>10, <1>15, <3>1 DEF Rows
    <3>3. PICK r \in Rows : Row(r) = t
      BY <2>2, <3>2 DEF TableInv, BestAreKept
    <3>4. r # 0 /\ bestsklist[r] = t.secret /\ besthashlist[r] = t.hash
      BY <1>10, <3>1, <3>2, <3>3 DEF Row
    <3>5. CASE r <= where
      <4>1. r - 1 \in Rows /\ r - 1 < where /\ (r - 1) + 1 = r
        BY <1>3, <3>4, <3>5 DEF Rows
      <4> QED
        BY <1>5, <1>6, <3>3, <4>1 DEF Row
    <3>6. CASE r > where
      BY <1>5, <1>6, <3>3, <3>6 DEF Row, Rows
    <3> QED
      BY <3>5, <3>6 DEF Rows
  <2> QED
    BY <1>8, <2>1, <2>2
<1>17. \A r \in Rows : besthashlist'[r] > 0 =>
         \/ r = where /\ bestsklist'[r] = secret
         \/ \E q \in Rows : /\ r # where
                            /\ q = (IF r < where THEN r + 1 ELSE r)
                            /\ bestsklist'[r] = bestsklist[q] /\ Filled(q)
  BY <1>5, <1>6 DEF Filled, Rows
<1>18. SeedsAreSpent'
  <2> SUFFICES ASSUME NEW r \in Rows, besthashlist'[r] > 0
               PROVE  bestsklist'[r].seed < secret'.seed
    BY DEF SeedsAreSpent, Rows, Filled
  <2>1. CASE bestsklist'[r] = secret
    BY <1>4, <2>1
  <2>2. ASSUME NEW q \in Rows, bestsklist'[r] = bestsklist[q], Filled(q)
        PROVE  bestsklist'[r].seed < secret'.seed
    <3>1. bestsklist[q].seed < secret.seed /\ bestsklist[q].seed \in Nat
      BY <1>2, <2>2 DEF TableInv, SeedsAreSpent, TypeOK, Secrets
    <3> QED
      BY <1>4, <2>2, <3>1
  <2> QED
    BY <1>17, <2>1, <2>2
<1>19. RowsAreUnrelated'
  <2> SUFFICES ASSUME NEW r \in Rows, NEW q \in Rows, r # q,
                      besthashlist'[r] > 0, besthashlist'[q] > 0
               PROVE  bestsklist'[r].seed # bestsklist'[q].seed
    BY DEF RowsAreUnrelated, Rows, Filled
  <2>1. \A k \in Rows : Filled(k) => bestsklist[k].seed # secret.seed
    <3>1. \A k \in Rows : Filled(k) => bestsklist[k].seed < secret.seed
      BY DEF TableInv, SeedsAreSpent
    <3>2. \A k \in Rows : bestsklist[k].seed \in Nat
      BY <1>2 DEF TypeOK, Secrets
    <3> QED
      BY <1>4, <3>1, <3>2
  <2>2. CASE r = where
    BY <1>17, <2>1, <2>2
  <2>3. CASE q = where
    BY <1>17, <2>1, <2>3
  <2>4. CASE r # where /\ q # where
    <3>1. PICK k \in Rows : /\ k = (IF r < where THEN r + 1 ELSE r)
                            /\ bestsklist'[r] = bestsklist[k] /\ Filled(k)
      BY <1>17, <2>4
    <3>2. PICK l \in Rows : /\ l = (IF q < where THEN q + 1 ELSE q)
                            /\ bestsklist'[q] = bestsklist[l] /\ Filled(l)
      BY <1>17, <2>4
    <3>3. k # l
      BY <2>4, <3>1, <3>2 DEF Rows
    <3> QED
      BY <3>1, <3>2, <3>3 DEF TableInv, RowsAreUnrelated
  <2> QED
    BY <2>2, <2>3, <2>4
<1>20. TestsFillRows'
  <2> SUFFICES ASSUME NEW r \in Rows, r >= NUMKEYS - (made + 1)
               PROVE  besthashlist'[r] > 0
    BY <1>8 DEF TestsFillRows, Rows, Filled
  <2>1. \A q \in Rows : q >= NUMKEYS - made => besthashlist[q] > 0
    BY DEF TableInv, TestsFillRows, Filled
  <2>2. CASE r < where
    <3>1. r + 1 \in Rows /\ besthashlist'[r] = besthashlist[r + 1]
      BY <1>5, <2>2
    <3>2. r + 1 >= NUMKEYS - made
      BY <1>3, <1>8 DEF Rows
    <3> QED
      BY <2>1, <3>1, <3>2
  <2>3. CASE r = where
    <3>1. besthashlist'[r] = hash
      BY <1>5, <2>3 DEF Rows
    <3> QED
      BY <3>1
  <2>4. CASE r > where
    BY <1>5, <1>10, <1>12, <2>4 DEF Rows
  <2> QED
    BY <2>2, <2>3, <2>4 DEF Rows
<1>21. RunsAreTests'
  <2>1. pc = "batch" /\ runs <= made /\ runs' <= runs + 1
    BY <1>2, BeginsTestTypes DEF BeginsTest, TableInv, RunsAreTests
  <2>2. runs \in Nat /\ runs' \in Nat
    BY <1>2, <1>11, BruteAssumption DEF TypeOK
  <2> QED
    BY <1>8, <2>1, <2>2 DEF RunsAreTests
<1> QED
  BY <1>11, <1>13, <1>14, <1>16, <1>18, <1>19, <1>20, <1>21 DEF TableInv

\* A key that beats no row changes no row: they are all filled.
LEMMA DroppedStep == TableInv /\ TestDropped => TableInv'
<1> SUFFICES ASSUME TableInv, TestDropped
             PROVE  TableInv'
  OBVIOUS
<1>1. PICK hash \in 1 .. MaxHash : IsWhere(-1, hash) /\ Tested(hash)
  BY DEF TestDropped
<1>2. TypeOK /\ BeginsTest /\ secret' = Increment(secret)
  BY DEF TestDropped, TableInv
<1>3. UNCHANGED <<bestsklist, bestpklist, besthashlist>>
  BY DEF TestDropped
<1>4. NUMKEYS \in Nat \ {0} /\ 0 \in Rows
  BY BruteAssumption DEF Rows
<1>5. /\ secret \in Secrets /\ secret.seed \in Nat
      /\ secret' \in Secrets /\ secret'.seed = secret.seed
  BY <1>2, IncrementIsSecret DEF TypeOK, Secrets
<1>6. /\ made' = made + 1 /\ made \in Nat /\ pc' = pc
      /\ tested' = tested \cup {[secret |-> secret, hash |-> hash]}
  BY <1>1, <1>2 DEF Tested, TypeOK
<1>7. besthashlist \in [Rows -> 0 .. MaxHash] /\ HashesAscend
  BY <1>2 DEF TypeOK, TableInv
<1>8. \A r \in Rows : hash <= besthashlist[r]
  <2>1. hash <= besthashlist[0]
    BY <1>1, <1>4 DEF IsWhere
  <2>2. \A r \in Rows : besthashlist[0] <= besthashlist[r]
    BY <1>4, <1>7 DEF HashesAscend, Rows
  <2> QED
    BY <1>4, <1>7, <2>1, <2>2
<1>9. TypeOK'
  <2>1. tested' \in SUBSET [secret : Secrets, hash : 1 .. MaxHash]
    BY <1>2, <1>5, <1>6 DEF TypeOK
  <2> QED
    BY <1>2, <1>3, <1>5, <1>6, <2>1, BeginsTestTypes DEF TypeOK
<1>10. HashesAscend'
  BY <1>3, <1>7 DEF HashesAscend
<1>11. RowsAreKeys'
  BY <1>2, <1>3, <1>6, BeginsTestTypes DEF TableInv, RowsAreKeys, Row, Filled
<1>12. BestAreKept'
  BY <1>3, <1>6, <1>8 DEF TableInv, BestAreKept, Row
<1>13. SeedsAreSpent' /\ RowsAreUnrelated'
  BY <1>3, <1>5 DEF TableInv, SeedsAreSpent, RowsAreUnrelated, Filled
<1>14. TestsFillRows'
  BY <1>3, <1>7, <1>8 DEF TestsFillRows, Filled
<1>15. RunsAreTests'
  <2>1. pc = "batch" /\ runs <= made /\ runs' <= runs + 1
    BY <1>2, BeginsTestTypes DEF BeginsTest, TableInv, RunsAreTests
  <2>2. runs \in Nat /\ runs' \in Nat
    BY <1>2, <1>9, BruteAssumption DEF TypeOK
  <2> QED
    BY <1>6, <2>1, <2>2 DEF RunsAreTests
<1> QED
  BY <1>9, <1>10, <1>11, <1>12, <1>13, <1>14, <1>15 DEF TableInv

\* The steps that leave the tables and the history alone.
LEMMA OtherStep ==
  ASSUME TableInv, TypeOK', RunsAreTests',
         UNCHANGED <<program, secret, bestsklist, bestpklist, besthashlist, made, tested>>
  PROVE  TableInv'
BY DEF TableInv, HashesAscend, RowsAreKeys, BestAreKept, SeedsAreSpent,
       RowsAreUnrelated, TestsFillRows, Row, Filled

LEMMA TableInit == Init => TableInv
<1> SUFFICES ASSUME Init
             PROVE  TableInv
  OBVIOUS
<1>1. NUMKEYS \in Nat \ {0} /\ MaxHash \in Nat /\ Width \in Nat /\ Width > 0 /\ Batch \in Nat
  BY BruteAssumption, SMT
<1>2. Zero \in Secrets /\ Drawn(1) \in Secrets
  BY DEF Zero, Drawn, Secrets
<1>3. TypeOK
  BY <1>1, <1>2 DEF Init, TypeOK
<1>4. \A r \in Rows : besthashlist[r] = 0
  BY DEF Init
<1>5. HashesAscend /\ RowsAreKeys /\ SeedsAreSpent /\ RowsAreUnrelated
  BY <1>4 DEF HashesAscend, RowsAreKeys, SeedsAreSpent, RowsAreUnrelated, Filled
<1>6. BestAreKept
  BY DEF Init, BestAreKept
<1>7. TestsFillRows
  BY <1>1 DEF Init, TestsFillRows, Rows
<1>8. RunsAreTests
  BY DEF Init, RunsAreTests
<1> QED
  BY <1>3, <1>5, <1>6, <1>7, <1>8 DEF TableInv

LEMMA TableStep == TableInv /\ [Next]_vars => TableInv'
<1> SUFFICES ASSUME TableInv, [Next]_vars
             PROVE  TableInv'
  OBVIOUS
<1>1. TypeOK /\ RunsAreTests
  BY DEF TableInv
<1>2. CASE TestKept
  BY <1>2, KeptStep
<1>3. CASE TestDropped
  BY <1>3, DroppedStep
<1>4. CASE TestFails
  <2>1. TypeOK'
    BY <1>1, <1>4, BeginsTestTypes DEF TestFails, TypeOK
  <2>2. RunsAreTests'
    BY <1>4 DEF TestFails, RunsAreTests
  <2> QED
    BY <1>1, <1>4, <2>1, <2>2, BeginsTestTypes, OtherStep DEF TestFails
<1>5. CASE Look
  <2>1. TypeOK'
    BY <1>1, <1>5, BruteAssumption DEF Look, TypeOK
  <2>2. RunsAreTests'
    BY <1>1, <1>5, BruteAssumption DEF Look, RunsAreTests, TypeOK
  <2> QED
    BY <1>5, <2>1, <2>2, OtherStep DEF Look
<1>6. CASE TimePasses
  <2>1. TypeOK' /\ RunsAreTests'
    BY <1>1, <1>6 DEF TimePasses, TypeOK, RunsAreTests
  <2> QED
    BY <1>6, <2>1, OtherStep DEF TimePasses
<1>7. CASE UNCHANGED vars
  <2>1. TypeOK' /\ RunsAreTests'
    BY <1>1, <1>7 DEF vars, TypeOK, RunsAreTests
  <2> QED
    BY <1>7, <2>1, OtherStep DEF vars
<1> QED
  BY <1>2, <1>3, <1>4, <1>5, <1>6, <1>7 DEF Next

-----------------------------------------------------------------------------

\* Everything below follows from one inductive invariant of the tables.
THEOREM TablesAreSound == Spec => []TableInv
<1> QED
  BY TableInit, TableStep, PTL DEF Spec

\* Every variable keeps its type; the counter stays in its width.
THEOREM BruteTypes == Spec => []TypeOK
<1>1. TableInv => TypeOK
  BY DEF TableInv
<1> QED
  BY <1>1, TablesAreSound, PTL

\* The three tables stay in step (insert_32 and insert_64 of both programs).
THEOREM TablesStayAligned == Spec => []RowsAreKeys
<1>1. TableInv => RowsAreKeys
  BY DEF TableInv
<1> QED
  BY <1>1, TablesAreSound, PTL

\* The tables hold the best keys tested, however many, whatever their hashes.
THEOREM NoBetterKeyDropped == Spec => []BestAreKept
<1>1. TableInv => BestAreKept
  BY DEF TableInv
<1> QED
  BY <1>1, TablesAreSound, PTL

\* No empty row is printed: a count of at least NUMKEYS, which may have wrapped,
\* means that many tests, and each of them filled a row.
THEOREM OnlyKeysPrinted == Spec => []PrintsOnlyKeys
<1>1. TableInv => PrintsOnlyKeys
  <2> SUFFICES ASSUME TableInv, pc = "printed", NEW r \in Rows
               PROVE  Filled(r)
    BY DEF PrintsOnlyKeys
  <2>1. made >= NUMKEYS /\ made \in Nat /\ NUMKEYS \in Nat
    BY BruteAssumption DEF TableInv, RunsAreTests, TypeOK
  <2>2. r >= NUMKEYS - made
    BY <2>1 DEF Rows
  <2> QED
    BY <2>2 DEF TableInv, TestsFillRows
<1> QED
  BY <1>1, TablesAreSound, PTL

\* No two printed keys come from the same random secret.
THEOREM PrintedKeysUnrelated == Spec => []RowsAreUnrelated
<1>1. TableInv => RowsAreUnrelated
  BY DEF TableInv
<1> QED
  BY <1>1, TablesAreSound, PTL
=============================================================================
