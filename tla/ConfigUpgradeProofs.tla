------------------------- MODULE ConfigUpgradeProofs -------------------------
(***************************************************************************)
(* Proofs about ConfigUpgrade: for any packages, any number of identities    *)
(* that may be generated and any number of upgrades.                         *)
(***************************************************************************)
EXTENDS ConfigUpgrade, TLAPS

LEMMA ContentsFacts ==
  /\ Absent \in Contents /\ Empty \in Contents
  /\ \A k \in 0 .. Identities : Holding(k) \in Contents
  /\ Identities \in Nat /\ 1 \in 0 .. Identities /\ 1 \in 1 .. Identities
BY UpgradeAssumption DEF Absent, Empty, Holding, Contents, NoKey

\* Whatever a program reads or generates is an identity.
LEMMA KeyReadIsIdentity ==
  ASSUME TypeOK, NEW c \in Contents, MayRead(c)
  PROVE  KeyRead(c) \in 1 .. Identities
<1>1. c.key \in 0 .. Identities /\ generated \in 0 .. Identities /\ Identities \in Nat
  BY ContentsFacts DEF Contents, TypeOK
<1> QED
  BY <1>1 DEF MayRead, KeyRead, Fresh, NoKey

\* What a program that prints a configuration changes.
LEMMA WritesTypes ==
  ASSUME TypeOK, NEW k \in 1 .. Identities, Writes(k)
  PROVE  /\ conf' \in Contents /\ conf' = Holding(k)
         /\ kept' \in SUBSET (1 .. Identities) /\ kept' = kept \cup {k}
         /\ generated' \in 0 .. Identities
<1>1. k \in 0 .. Identities /\ Identities \in Nat
  BY ContentsFacts
<1> QED
  BY <1>1, ContentsFacts DEF Writes, Uses, Fresh, TypeOK

LEMMA UpgradeTypeStep == TypeOK /\ [Next]_vars => TypeOK'
<1> SUFFICES ASSUME TypeOK, [Next]_vars
             PROVE  TypeOK'
  OBVIOUS
<1>0. Identities \in Nat /\ RunsPerPackage \in Nat
  BY UpgradeAssumption
<1>1. ASSUME NEW p \in Packages, Upgrade(p)
      PROVE  TypeOK'
  <2>1. runs' \in [Packages -> 0 .. RunsPerPackage]
    BY <1>0, <1>1 DEF TypeOK, Upgrade
  <2>2. node' \in 0 .. Identities
    BY <1>0, <1>1 DEF TypeOK, Upgrade, NoKey
  <2>3. disturbed' \in BOOLEAN
    BY <1>1, Zenon DEF TypeOK, Upgrade
  <2> QED
    BY <1>1, <2>1, <2>2, <2>3 DEF TypeOK, Upgrade, files
<1>2. CASE BackupOpens
  BY <1>2, ContentsFacts DEF TypeOK, BackupOpens, history
<1>3. CASE BackupCopies
  BY <1>3 DEF TypeOK, BackupCopies
<1>4. CASE NormaliseOpens
  BY <1>4, ContentsFacts DEF TypeOK, NormaliseOpens, history
<1>5. CASE Normalise
  <2>1. backup[package] \in Contents
    BY DEF TypeOK
  <2>2. CASE MayRead(backup[package]) /\ Writes(KeyRead(backup[package]))
    BY <1>5, <2>1, <2>2, KeyReadIsIdentity, WritesTypes DEF TypeOK, Normalise, history
  <2>3. CASE UNCHANGED <<conf, kept, generated>>
    BY <1>5, <2>3 DEF TypeOK, Normalise, history
  <2> QED
    BY <1>5, <2>2, <2>3 DEF Normalise
<1>6. CASE PostinstStarts
  BY <1>0, <1>6 DEF TypeOK, PostinstStarts, UnitFor, NoKey, files, history
<1>7. CASE CreateOpens
  BY <1>7, ContentsFacts DEF TypeOK, CreateOpens, history
<1>g. ASSUME GenconfWorks \/ GenconfFails
      PROVE  /\ conf' \in Contents /\ generated' \in 0 .. Identities
             /\ kept' \in SUBSET (1 .. Identities)
             /\ genconf' \in {"ok", "failed", "recovered"}
  <2>1. CASE GenconfWorks
    <3>1. Fresh \in 1 .. Identities /\ Writes(Fresh)
      BY <1>0, <2>1 DEF TypeOK, Fresh, GenconfWorks
    <3> QED
      BY <2>1, <3>1, WritesTypes DEF GenconfWorks
  <2>2. CASE GenconfFails
    BY <2>2 DEF TypeOK, GenconfFails
  <2> QED
    BY <1>g, <2>1, <2>2
<1>8. CASE CreateGenerates
  BY <1>8, <1>g DEF TypeOK, CreateGenerates
<1>14. CASE GenerateDefault
  <2>1. /\ GenconfWorks \/ GenconfFails
        /\ unit' \in {"off", "starting"}
    BY <1>14, Zenon DEF GenerateDefault
  <2> QED
    BY <1>14, <1>g, <2>1 DEF TypeOK, GenerateDefault
<1>15. CASE GenerateOpens
  BY <1>15, ContentsFacts DEF TypeOK, GenerateOpens, history
<1>16. CASE DaemonEnds
  BY <1>0, <1>16 DEF TypeOK, DaemonEnds, NoKey, files, history
<1>9. CASE Start
  <2>1. disturbed' \in BOOLEAN
    BY <1>9, Zenon DEF TypeOK, Start
  <2> QED
    BY <1>9, <2>1 DEF TypeOK, Start, UnitFor, files
<1>10. CASE DaemonReads
  <2>1. CASE MayRead(conf) /\ node' = KeyRead(conf) /\ Uses(node')
    <3>1. node' \in 0 .. Identities /\ node' \in 1 .. Identities
      BY <1>0, <2>1, KeyReadIsIdentity DEF TypeOK
    <3>2. generated' \in 0 .. Identities
      BY <1>0, <2>1, <3>1 DEF Uses, Fresh, TypeOK
    <3> QED
      BY <1>10, <3>1, <3>2 DEF TypeOK, DaemonReads, history
  <2>2. CASE UNCHANGED <<node, generated>>
    BY <1>10, <2>2 DEF TypeOK, DaemonReads, history
  <2> QED
    BY <1>10, <2>1, <2>2 DEF DaemonReads
<1>11. CASE PowerCut
  <2>1. disturbed' \in BOOLEAN
    BY <1>11, Zenon DEF TypeOK, PowerCut
  <2> QED
    BY <1>0, <1>11, <2>1 DEF TypeOK, PowerCut, NoKey, files
<1>12. CASE Edit
  <2>1. conf' \in Contents
    BY <1>12 DEF TypeOK, Edit, Contents
  <2> QED
    BY <1>12, <2>1 DEF TypeOK, Edit, history
<1>13. CASE UNCHANGED vars
  BY <1>13 DEF TypeOK, vars, files, history
<1> QED
  BY <1>1, <1>2, <1>3, <1>4, <1>5, <1>6, <1>7, <1>8, <1>9, <1>10, <1>11,
     <1>12, <1>13, <1>14, <1>15, <1>16
     DEF Next, Postinst

LEMMA UpgradeInitTypes == Init => TypeOK
<1> SUFFICES ASSUME Init
             PROVE  TypeOK
  OBVIOUS
<1>0. Identities \in Nat /\ RunsPerPackage \in Nat
  BY UpgradeAssumption
<1>1. conf \in Contents /\ generated \in 0 .. Identities /\ kept \in SUBSET (1 .. Identities)
  BY ContentsFacts DEF Init
<1>2. backup \in [Packages -> Contents]
  BY ContentsFacts DEF Init
<1>3. runs \in [Packages -> 0 .. RunsPerPackage] /\ node \in 0 .. Identities
  BY <1>0 DEF Init, NoKey
<1>4. copyFailed \in BOOLEAN /\ disturbed \in BOOLEAN
  BY Zenon DEF Init
<1> QED
  BY <1>1, <1>2, <1>3, <1>4 DEF Init, TypeOK

\* Every file holds a configuration, an empty one or none, and every key in
\* them is one that was generated.
THEOREM UpgradeTypes == Spec => []TypeOK
BY UpgradeInitTypes, UpgradeTypeStep, PTL DEF Spec

-----------------------------------------------------------------------------
(* The identity of an undisturbed machine.                                  *)

\* The file holds the first identity, and no other was ever generated.
Settled == conf.exists /\ conf.key = 1 /\ generated = 1

\* There never was a file.
Untouched == conf = Absent /\ generated = 0

\* The first file has been opened and not written yet.
Opened == unit = "writing" /\ conf = Empty /\ generated = 0

\* Where the identity is at each step of the script and of the service: it
\* leaves the configuration file only while the backup has it, and a new one is
\* generated only when there was none.
FirstKeyInv ==
  /\ script = "idle" => Settled \/ Untouched \/ Opened
  /\ script # "idle" => unit = "off"
  /\ unit = "starting" => Settled \/ Untouched
  /\ unit = "generating" => Untouched
  /\ unit = "writing" => Opened
  /\ script \in {"backup", "copy", "open"} => Settled /\ conf.parses
  /\ script = "open" => backup[package] = conf
  /\ script = "normalise" => /\ backup[package].exists /\ backup[package].parses
                             /\ backup[package].key = 1 /\ generated = 1
  /\ script = "start" => Settled
  /\ script \in {"create", "generate"} => generated = 0
  /\ node \in {NoKey, 1}
  /\ node = 1 => generated = 1

Undisturbed == ~disturbed /\ ~copyFailed /\ genconf = "ok"
KeptInv == TypeOK /\ (Undisturbed => FirstKeyInv)

LEMMA KeptInit == Init => KeptInv
<1> SUFFICES ASSUME Init
             PROVE  FirstKeyInv
  BY UpgradeInitTypes DEF KeptInv
<1> QED
  BY DEF Init, FirstKeyInv, Settled, Untouched, Opened, Holding, Absent, NoKey

LEMMA CopyStaysGood ==
  ASSUME TypeOK, [Next]_vars, ~copyFailed'
  PROVE  ~copyFailed
BY Zenon DEF TypeOK, Next, Upgrade, Postinst, BackupOpens, BackupCopies,
  NormaliseOpens, Normalise, PostinstStarts, CreateOpens, CreateGenerates,
  Start, GenerateOpens, GenerateDefault, DaemonReads, DaemonEnds, PowerCut,
  Edit, vars, history

\* An undisturbed machine was undisturbed before.
LEMMA StaysUndisturbed ==
  ASSUME TypeOK, [Next]_vars, Undisturbed'
  PROVE  Undisturbed
<1>1. ~disturbed' => ~disturbed
  BY Zenon DEF TypeOK, Next, Upgrade, Postinst, BackupOpens,
    BackupCopies, NormaliseOpens, Normalise, PostinstStarts, CreateOpens,
    CreateGenerates, Start, GenerateOpens, GenerateDefault, DaemonReads,
    DaemonEnds, PowerCut, Edit, vars, history
<1>2. ~copyFailed' => ~copyFailed
  BY CopyStaysGood
<1>3. genconf' = "ok" => genconf = "ok"
  BY DEF TypeOK, Next, Upgrade, Postinst, BackupOpens,
    BackupCopies, NormaliseOpens, Normalise, PostinstStarts, CreateOpens,
    CreateGenerates, GenconfWorks, GenconfFails, Start, GenerateOpens,
    GenerateDefault, DaemonReads, DaemonEnds, PowerCut, Edit, vars, history
<1> QED
  BY <1>1, <1>2, <1>3 DEF Undisturbed

LEMMA KeptStep == KeptInv /\ [Next]_vars => KeptInv'
<1> SUFFICES ASSUME TypeOK, FirstKeyInv, [Next]_vars, Undisturbed, Undisturbed'
             PROVE  FirstKeyInv'
  BY UpgradeTypeStep, StaysUndisturbed DEF KeptInv
<1> USE DEF FirstKeyInv, Settled, Untouched, Opened
<1>0. Identities \in Nat \ {0} /\ conf \in Contents /\ generated \in 0 .. Identities
  BY UpgradeAssumption DEF TypeOK
<1>1. ASSUME NEW p \in Packages, Upgrade(p)
      PROVE  FirstKeyInv'
  <2>1. unit = "off" /\ (conf.exists => ~MayFail(conf))
    BY <1>1, Zenon DEF Upgrade, Undisturbed
  <2>2. conf.exists => conf.parses
    BY <2>1, Zenon DEF MayFail, Readable
  <2> QED
    BY <1>1, <2>1, <2>2 DEF Upgrade, Absent, files, NoKey
<1>2. CASE BackupOpens
  BY <1>2 DEF BackupOpens
<1>3. CASE BackupCopies
  <2>1. backup' = [backup EXCEPT ![package] = conf]
    BY <1>3, Zenon DEF BackupCopies, Undisturbed
  <2>2. backup'[package] = conf
    BY <2>1 DEF TypeOK
  <2> QED
    BY <1>3, <2>2 DEF BackupCopies
<1>4. CASE NormaliseOpens
  BY <1>4 DEF NormaliseOpens
<1>5. CASE Normalise
  <2>1. ~MayFail(backup[package]) /\ KeyRead(backup[package]) = 1
    BY <1>5 DEF Normalise, MayFail, Readable, IsEmpty, KeyRead, NoKey
  <2>2. Writes(1)
    BY <1>5, <2>1 DEF Normalise
  <2> QED
    BY <1>5, <2>2 DEF Normalise, Writes, Uses, Fresh, Holding
<1>6. CASE PostinstStarts
  BY <1>6 DEF PostinstStarts, UnitFor, IsEmpty, NoKey, files
<1>7. CASE CreateOpens
  BY <1>7 DEF CreateOpens
\* On an undisturbed machine -genconf works, and makes the first identity.
<1>g. ASSUME GenconfWorks \/ GenconfFails, generated = 0
      PROVE  conf' = Holding(1) /\ generated' = 1
  <2>1. GenconfWorks
    BY <1>g DEF GenconfFails, Undisturbed
  <2> QED
    BY <1>g, <2>1 DEF GenconfWorks, Writes, Uses, Fresh
<1>8. CASE CreateGenerates
  BY <1>8, <1>g DEF CreateGenerates, Holding, NoKey
<1>9. CASE Start
  <2>1. script = "idle" /\ unit = "off"
    BY <1>9, Zenon DEF Start, Undisturbed
  <2> QED
    BY <1>9, <2>1 DEF Start, UnitFor, IsEmpty, Absent, NoKey, files
<1>10. CASE GenerateDefault
  <2>1. GenconfWorks \/ GenconfFails
    BY <1>10, Zenon DEF GenerateDefault
  <2>2. conf' = Holding(1) /\ generated' = 1 /\ unit' \in {"off", "starting"}
    BY <1>10, <1>g, <2>1 DEF GenerateDefault
  <2> QED
    BY <1>10, <2>2 DEF GenerateDefault, Holding
<1>15. CASE GenerateOpens
  BY <1>15 DEF GenerateOpens, NoKey
<1>16. CASE DaemonEnds
  BY <1>16 DEF DaemonEnds, NoKey, files
<1>11. CASE DaemonReads
  <2>1. CASE Settled
    BY <1>11, <2>1 DEF DaemonReads, Uses, Fresh, KeyRead, NoKey
  <2>2. CASE Untouched
    <3>1. UNCHANGED <<node, generated>>
      BY <1>11, <2>2 DEF DaemonReads, MayRead, Readable, Absent
    <3> QED
      BY <1>11, <2>2, <3>1 DEF DaemonReads
  <2> QED
    BY <1>11, <2>1, <2>2 DEF DaemonReads
<1>12. CASE PowerCut
  <2>1. script = "idle"
    BY <1>12, Zenon DEF PowerCut, Undisturbed
  <2>2. unit # "writing"
    BY <1>12 DEF PowerCut, Undisturbed
  <2> QED
    BY <1>12, <2>1, <2>2 DEF PowerCut, files, NoKey
<1>13. CASE Edit
  BY <1>0, <1>13 DEF Edit, Contents, Absent
<1>14. CASE UNCHANGED vars
  BY <1>14 DEF vars, files
<1> QED
  BY <1>1, <1>2, <1>3, <1>4, <1>5, <1>6, <1>7, <1>8, <1>9, <1>10, <1>11,
     <1>12, <1>13, <1>14, <1>15, <1>16
     DEF Next, Postinst

\* A node that has an identity runs with that one only, through any number of
\* upgrades and restarts that are not disturbed.
THEOREM IdentityIsKept == Spec => []IdentityKept
<1>1. KeptInv => IdentityKept
  BY DEF KeptInv, FirstKeyInv, IdentityKept, Undisturbed
<1> QED
  BY <1>1, KeptInit, KeptStep, PTL DEF Spec

-----------------------------------------------------------------------------
(* No identity is lost when each package is configured once.                 *)

\* Where a key may be written over: the backup is written only while it has no
\* key, and the file only while it has none or the backup has the same.
LossInv ==
  /\ \A p \in Packages : runs[p] = 0 => backup[p].key = NoKey
  /\ script \in {"backup", "copy"} => backup[package].key = NoKey
  /\ script = "open" => backup[package].key = conf.key
  /\ script \in {"normalise", "create", "generate"} => conf.key = NoKey
  /\ unit \in {"generating", "writing"} => /\ conf.key = NoKey
                                          /\ script = "idle" /\ manager # "launchd"
  /\ script # "idle" => runs[package] # 0
  /\ ~conf.exists => conf.key = NoKey

SafeInv == TypeOK /\ (~copyFailed => LossInv /\ NoIdentityLost)

LEMMA SafeInit == Init => SafeInv
<1> SUFFICES ASSUME Init
             PROVE  LossInv /\ NoIdentityLost
  BY UpgradeInitTypes DEF SafeInv
<1> QED
  BY DEF Init, LossInv, NoIdentityLost, Holding, Absent, NoKey

LEMMA SafeStep ==
  ASSUME RunsPerPackage = 1, SafeInv, [Next]_vars
  PROVE  SafeInv'
<1>a. TypeOK' /\ (~copyFailed' => ~copyFailed)
  <2>1. ~copyFailed' => ~copyFailed
    BY CopyStaysGood DEF SafeInv
  <2> QED
    BY <2>1, UpgradeTypeStep DEF SafeInv
<1> SUFFICES ASSUME TypeOK, LossInv, NoIdentityLost, ~copyFailed, ~copyFailed'
             PROVE  LossInv' /\ NoIdentityLost'
  BY <1>a DEF SafeInv
<1>0. /\ Identities \in Nat \ {0} /\ conf \in Contents /\ package \in Packages
      /\ backup \in [Packages -> Contents] /\ kept \in SUBSET (1 .. Identities)
      /\ runs \in [Packages -> 0 .. 1]
  BY UpgradeAssumption DEF TypeOK
<1>k. \A k \in kept : k # NoKey /\ (conf.key = k \/ \E p \in Packages : backup[p].key = k)
  BY <1>0 DEF NoIdentityLost, NoKey
<1> USE DEF LossInv
<1>1. ASSUME NEW p \in Packages, Upgrade(p)
      PROVE  LossInv' /\ NoIdentityLost'
  <2>1. runs[p] = 0 /\ runs'[p] # 0 /\ \A q \in Packages : runs'[q] = 0 => runs[q] = 0
    BY <1>0, <1>1 DEF Upgrade
  <2> QED
    BY <1>1, <1>k, <2>1 DEF Upgrade, NoIdentityLost, files
\* Only a key that the backup does not have can be lost from it.
<1>b. ASSUME NEW c \in Contents, backup' = [backup EXCEPT ![package] = c],
             backup[package].key = NoKey, conf' = conf, kept' = kept
      PROVE  NoIdentityLost'
  <2>1. \A q \in Packages : q # package => backup'[q] = backup[q]
    BY <1>0, <1>b
  <2> QED
    BY <1>0, <1>b, <1>k, <2>1 DEF NoIdentityLost
<1>2. CASE BackupOpens
  <2>1. NoIdentityLost'
    BY <1>2, <1>b, ContentsFacts DEF BackupOpens
  <2>2. LossInv'
    BY <1>0, <1>2 DEF BackupOpens, Empty
  <2> QED
    BY <2>1, <2>2
<1>3. CASE BackupCopies
  <2>1. backup' = [backup EXCEPT ![package] = conf] /\ conf' = conf /\ kept' = kept
    BY <1>3, Zenon DEF BackupCopies
  <2>2. NoIdentityLost'
    BY <1>0, <1>3, <1>b, <2>1 DEF BackupCopies
  <2> QED
    BY <1>0, <1>3, <2>1, <2>2 DEF BackupCopies
<1>4. CASE NormaliseOpens
  <2>1. NoIdentityLost'
    BY <1>0, <1>4, <1>k DEF NormaliseOpens, NoIdentityLost
  <2> QED
    BY <1>4, <2>1 DEF NormaliseOpens, Empty, NoKey
\* A program writes its key over a file that has none.
<1>w. ASSUME NEW k, Writes(k), conf.key = NoKey, backup' = backup
      PROVE  NoIdentityLost' /\ conf'.exists
  BY <1>k, <1>w DEF Writes, Holding, NoIdentityLost
<1>5. CASE Normalise
  <2>1. CASE Writes(KeyRead(backup[package]))
    BY <1>5, <1>w, <2>1 DEF Normalise
  <2>2. CASE UNCHANGED <<conf, kept, generated>>
    BY <1>5, <1>k, <2>2 DEF Normalise, NoIdentityLost
  <2> QED
    BY <1>5, <2>1, <2>2 DEF Normalise
<1>6. CASE PostinstStarts
  BY <1>0, <1>6, <1>k DEF PostinstStarts, UnitFor, IsEmpty, NoIdentityLost, files
<1>7. CASE CreateOpens
  BY <1>7, <1>k DEF CreateOpens, Empty, NoIdentityLost
<1>g. ASSUME GenconfWorks \/ GenconfFails, conf.key = NoKey, backup' = backup
      PROVE  NoIdentityLost' /\ (conf'.exists \/ conf' = conf)
  BY <1>g, <1>k, <1>w DEF GenconfWorks, GenconfFails, NoIdentityLost
<1>8. CASE CreateGenerates
  BY <1>8, <1>g DEF CreateGenerates
<1>9. CASE Start
  BY <1>0, <1>9, <1>k DEF Start, UnitFor, IsEmpty, NoIdentityLost, files
<1>10. CASE GenerateDefault
  <2>1. GenconfWorks \/ GenconfFails
    BY <1>10, Zenon DEF GenerateDefault
  <2> QED
    BY <1>10, <1>g, <2>1 DEF GenerateDefault
<1>15. CASE GenerateOpens
  BY <1>15, <1>k DEF GenerateOpens, Empty, NoIdentityLost, NoKey
<1>16. CASE DaemonEnds
  BY <1>16, <1>k DEF DaemonEnds, NoIdentityLost, files
<1>11. CASE DaemonReads
  BY <1>11, <1>k DEF DaemonReads, NoIdentityLost
<1>12. CASE PowerCut
  BY <1>12, <1>k DEF PowerCut, NoIdentityLost, files
<1>13. CASE Edit
  <2>1. conf'.key = conf.key /\ conf'.exists = conf.exists
    BY <1>0, <1>13 DEF Edit, Contents
  <2> QED
    BY <1>13, <1>k, <2>1 DEF Edit, NoIdentityLost
<1>14. CASE UNCHANGED vars
  BY <1>14, <1>k DEF vars, NoIdentityLost, files
<1> QED
  BY <1>1, <1>2, <1>3, <1>4, <1>5, <1>6, <1>7, <1>8, <1>9, <1>10, <1>11,
     <1>12, <1>13, <1>14, <1>15, <1>16
     DEF Next, Postinst

\* An identity that the configuration file has held is in it or in a backup, for
\* any number of packages that are configured once each.
THEOREM NoIdentityIsLost == ASSUME RunsPerPackage = 1 PROVE Spec => []NoIdentityLost
<1>1. SafeInv => NoIdentityLost
  BY DEF SafeInv, NoIdentityLost
<1>2. SafeInv /\ [Next]_vars => SafeInv'
  BY SafeStep
<1> QED
  BY <1>1, <1>2, SafeInit, PTL DEF Spec

-----------------------------------------------------------------------------
(* The identity of the running daemon is the one in the file.                *)

\* No script runs beside a daemon or a unit, except on launchd, where no unit
\* generates; there and while a file is missing no -genconf has been repeated.
PhaseInv ==
  /\ unit # "off" /\ manager # "launchd" => node = NoKey /\ script = "idle"
  /\ script # "idle" /\ manager # "launchd" => node = NoKey /\ manager = "systemd"
  /\ unit \in {"generating", "writing"} => manager # "launchd"
  /\ ~conf.exists \/ script \in {"create", "generate"} => genconf = "ok"
  /\ unit = "writing" \/ script = "generate" => conf.exists
  /\ manager = "launchd" => genconf # "recovered"

\* A daemon that starts finds a key; an empty file is one being written.
StartsOnKey ==
  /\ node # NoKey => conf.key = node
  /\ unit = "starting" /\ conf.exists => conf.key # NoKey
  /\ manager # "systemd" /\ conf.exists /\ conf.key = NoKey => unit = "writing"

SavedInv ==
  TypeOK /\ PhaseInv /\ (manager # "launchd" /\ genconf # "failed" => StartsOnKey)

LEMMA SavedInit == Init => SavedInv
<1> SUFFICES ASSUME Init
             PROVE  PhaseInv /\ StartsOnKey
  BY UpgradeInitTypes DEF SavedInv
<1> QED
  BY DEF Init, PhaseInv, StartsOnKey, Holding, Absent, NoKey

LEMMA SavedStep == SavedInv /\ [Next]_vars => SavedInv'
<1> SUFFICES ASSUME SavedInv, [Next]_vars
             PROVE  PhaseInv' /\ (manager' # "launchd" /\ genconf' # "failed" => StartsOnKey')
  BY UpgradeTypeStep DEF SavedInv
<1>0. /\ generated \in Nat /\ conf \in Contents
      /\ manager \in {"systemd", "openrc", "freebsd", "launchd"}
      /\ genconf \in {"ok", "failed", "recovered"}
  BY UpgradeAssumption DEF SavedInv, TypeOK
<1> USE DEF SavedInv, PhaseInv, StartsOnKey
<1>1. ASSUME NEW p \in Packages, Upgrade(p)
      PROVE  PhaseInv' /\ (manager' # "launchd" /\ genconf' # "failed" => StartsOnKey')
  BY <1>1 DEF Upgrade, files
<1>2. CASE BackupOpens
  BY <1>2 DEF BackupOpens, history
<1>3. CASE BackupCopies
  BY <1>3 DEF BackupCopies
<1>4. CASE NormaliseOpens
  BY <1>0, <1>4 DEF NormaliseOpens, history, Empty
<1>w. ASSUME NEW k, Writes(k)
      PROVE  conf'.exists
  BY <1>w DEF Writes, Holding
<1>5. CASE Normalise
  <2>1. conf'.exists \/ conf' = conf
    BY <1>5, <1>w DEF Normalise
  <2> QED
    BY <1>0, <1>5, <2>1 DEF Normalise, history
<1>6. CASE PostinstStarts
  BY <1>0, <1>6 DEF PostinstStarts, UnitFor, IsEmpty, files, history
<1>7. CASE CreateOpens
  BY <1>0, <1>7 DEF CreateOpens, history, Empty
<1>8. CASE CreateGenerates
  BY <1>0, <1>8 DEF CreateGenerates, GenconfWorks, GenconfFails, Writes, Holding, Fresh, NoKey
<1>9. CASE Start
  BY <1>0, <1>9 DEF Start, UnitFor, IsEmpty, files
<1>10. CASE GenerateOpens
  BY <1>0, <1>10 DEF GenerateOpens, history, Empty
<1>11. CASE GenerateDefault
  BY <1>0, <1>11 DEF GenerateDefault, GenconfWorks, GenconfFails, Writes, Holding, Fresh, NoKey
<1>12. CASE DaemonReads
  BY <1>0, <1>12 DEF DaemonReads, history, MayRead, Readable, KeyRead
<1>13. CASE DaemonEnds
  BY <1>13 DEF DaemonEnds, files, history
<1>14. CASE PowerCut
  BY <1>0, <1>14 DEF PowerCut, files
<1>15. CASE Edit
  <2>1. conf'.key = conf.key /\ conf'.exists = conf.exists
    BY <1>0, <1>15 DEF Edit, Contents
  <2> QED
    BY <1>15, <2>1 DEF Edit, history
<1>16. CASE UNCHANGED vars
  BY <1>16 DEF vars, files, history
<1> QED
  BY <1>1, <1>2, <1>3, <1>4, <1>5, <1>6, <1>7, <1>8, <1>9, <1>10, <1>11,
     <1>12, <1>13, <1>14, <1>15, <1>16
     DEF Next, Postinst

\* The daemon runs with the identity its file will give it the next time, unless
\* the last -genconf failed or, on launchd, an upgrade was disturbed.
THEOREM IdentityIsSaved == Spec => []RunsWithSavedIdentity
<1>1. SavedInv /\ KeptInv => RunsWithSavedIdentity
  <2> SUFFICES ASSUME SavedInv, KeptInv, script = "idle", node # NoKey,
                      genconf # "failed",
                      ~(manager = "launchd" /\ (disturbed \/ copyFailed))
               PROVE  conf.key = node
    BY DEF RunsWithSavedIdentity
  <2>1. CASE manager # "launchd"
    BY <2>1 DEF SavedInv, StartsOnKey
  <2>2. CASE manager = "launchd"
    <3>1. genconf = "ok"
      BY <2>2 DEF SavedInv, PhaseInv, TypeOK
    <3>2. FirstKeyInv
      BY <2>2, <3>1, Zenon DEF KeptInv, Undisturbed
    <3> QED
      BY <3>2 DEF FirstKeyInv, Settled, Untouched, Opened
  <2> QED
    BY <2>1, <2>2
<1> QED
  BY <1>1, SavedInit, SavedStep, KeptInit, KeptStep, PTL DEF Spec
=============================================================================
