---------------------------- MODULE ConfigUpgrade ----------------------------
(***************************************************************************)
(* The node's identity is the private key in its configuration file.  This  *)
(* module follows that file through package upgrades: the postinst and      *)
(* prerm scripts that contrib/deb/generate.sh writes, which back it up and   *)
(* rewrite it with `yggdrasil -normaliseconf`, and through the scripts of    *)
(* the service managers, which generate one before they start the daemon:   *)
(*   systemd   when it is missing or empty (contrib/systemd);               *)
(*   openrc    when it is missing, and they give up if that fails           *)
(*             (contrib/openrc, contrib/busybox-init, contrib/docker);      *)
(*   freebsd   when it is missing, and it goes on if that fails;            *)
(*   launchd   never (contrib/macos/yggdrasil.plist).                       *)
(* The Debian package belongs to systemd, the macOS package, whose          *)
(* postinstall (create-pkg.sh) has the shape of postinst, to launchd; the   *)
(* others have no package scripts here.                                     *)
(*                                                                         *)
(* generate.sh writes postinst from a here-document that is not quoted, so  *)
(* its `date` is evaluated when the package is built: a package is named    *)
(* here by its build date, and so are the backups.                          *)
(*                                                                         *)
(* A power cut may come between any two steps.  dpkg has stopped the        *)
(* service before it runs postinst, so the two do not overlap; postinstall  *)
(* runs beside the daemon, which launchd keeps alive, and reloads it last.  *)
(***************************************************************************)
EXTENDS Naturals

CONSTANTS
  Packages,         \* the packages, by build date
  Identities,       \* keys that may be generated: a bound
  RunsPerPackage    \* how often a package is configured: a bound

ASSUME UpgradeAssumption ==
  /\ Identities \in Nat \ {0}
  /\ RunsPerPackage \in Nat

VARIABLES
  manager,     \* the service manager of this machine
  conf,        \* /etc/yggdrasil.conf
  backup,      \* /var/backups/yggdrasil.conf.<build date>
  runs,        \* how often each package has been configured
  script,      \* program counter of postinst
  package,     \* the package it belongs to
  unit,        \* the service: "off", about to generate its configuration and
               \* "writing" it, "starting" the daemon
  node,        \* identity of the running daemon, or NoKey
  generated,   \* how many identities have been generated
  kept,        \* history: identities that the configuration file has held
  copyFailed,  \* history: a backup could not be written
  genconf,     \* history: "ok" as long as every -genconf succeeded; "failed" if the
               \* last one failed or was cut short, else "recovered"
  disturbed    \* history: an upgrade was cut short or overtaken by a restart of
               \* the daemon, or began on a file that cannot be read

files == <<conf, backup, generated, kept>>
history == <<copyFailed, genconf, disturbed>>
vars == <<manager, files, runs, script, package, unit, node, history>>

NoKey == 0
Absent == [exists |-> FALSE, key |-> NoKey, parses |-> TRUE]
Empty == [exists |-> TRUE, key |-> NoKey, parses |-> TRUE]
Holding(k) == [exists |-> TRUE, key |-> k, parses |-> TRUE]
Contents == [exists : BOOLEAN, key : 0 .. Identities, parses : BOOLEAN]
IsEmpty(c) == c.exists /\ c.key = NoKey

TypeOK ==
  /\ manager \in {"systemd", "openrc", "freebsd", "launchd"}
  /\ conf \in Contents
  /\ backup \in [Packages -> Contents]
  /\ runs \in [Packages -> 0 .. RunsPerPackage]
  /\ script \in {"idle", "backup", "copy", "open", "normalise", "start", "create", "generate"}
  /\ package \in Packages
  /\ unit \in {"off", "generating", "writing", "starting"}
  /\ node \in 0 .. Identities
  /\ generated \in 0 .. Identities
  /\ kept \in SUBSET (1 .. Identities)
  /\ copyFailed \in BOOLEAN
  /\ genconf \in {"ok", "failed", "recovered"}
  /\ disturbed \in BOOLEAN

\* A machine with a configured package, or one that never had it.
Init ==
  /\ manager \in {"systemd", "openrc", "freebsd", "launchd"}
  /\ \/ conf = Holding(1) /\ generated = 1 /\ kept = {1}
     \/ conf = Absent /\ generated = 0 /\ kept = {}
  /\ backup = [p \in Packages |-> Absent]
  /\ runs = [p \in Packages |-> 0]
  /\ script = "idle"
  /\ package \in Packages
  /\ unit = "off"
  /\ node = NoKey
  /\ copyFailed = FALSE
  /\ genconf = "ok"
  /\ disturbed = FALSE

-----------------------------------------------------------------------------
(* The daemon as a program that reads a configuration.                      *)

Fresh == generated + 1

\* readConfig: a file that does not parse ends in a panic; one without a key
\* gets the fresh key of the generated defaults it is laid over.  Whether the
\* hjson library accepts an empty file is left open.
Readable(c) == c.exists /\ c.parses
\* Mutant: the generated defaults are laid over the file.
DefaultsWin(c) == Fresh

KeyRead(c) == IF c.key = NoKey THEN Fresh ELSE c.key
MayFail(c) == ~Readable(c) \/ IsEmpty(c)
MayRead(c) == Readable(c) /\ KeyRead(c) <= Identities
Uses(k) == generated' = IF k = Fresh THEN Fresh ELSE generated

\* Mutant: the configuration is printed without its key.
WritesKeyless(k) ==
  /\ conf' = Holding(NoKey)
  /\ kept' = kept \cup {NoKey}
  /\ Uses(k)

\* A program that prints a configuration with this key to the file.
Writes(k) ==
  /\ conf' = Holding(k)
  /\ kept' = kept \cup {k}
  /\ Uses(k)

-----------------------------------------------------------------------------
(* The package scripts.                                                     *)

\* prerm of Debian stops the service; postinst looks whether there is a file.
Upgrade(p) ==
  /\ script = "idle"
  /\ \/ manager = "systemd" /\ unit = "off" /\ node' = NoKey
     \/ manager = "launchd" /\ UNCHANGED node
  /\ runs[p] < RunsPerPackage
  /\ runs' = [runs EXCEPT ![p] = @ + 1]
  /\ package' = p
  /\ script' = IF conf.exists THEN "backup" ELSE "create"
  /\ disturbed' = (disturbed \/ unit # "off" \/ (conf.exists /\ MayFail(conf)))
  /\ UNCHANGED <<manager, files, unit, copyFailed, genconf>>

\* Mutant: the configuration is opened for writing before the backup is made.
BackupOpensLate ==
  /\ script = "backup"
  /\ backup' = [backup EXCEPT ![package] = Empty]
  /\ conf' = Empty
  /\ script' = "copy"
  /\ UNCHANGED <<manager, runs, package, unit, node, generated, kept, history>>

\* cp creates or truncates the backup of that name, then fills it.
BackupOpens ==
  /\ script = "backup"
  /\ backup' = [backup EXCEPT ![package] = Empty]
  /\ script' = "copy"
  /\ UNCHANGED <<manager, conf, runs, package, unit, node, generated, kept, history>>

\* The script goes on when cp has failed.
BackupCopies ==
  /\ script = "copy"
  /\ \/ backup' = [backup EXCEPT ![package] = conf] /\ UNCHANGED copyFailed
     \/ copyFailed' = TRUE /\ UNCHANGED backup
  /\ script' = "open"
  /\ UNCHANGED <<manager, conf, runs, package, unit, node, generated, kept, genconf, disturbed>>

\* The shell truncates the configuration before it runs the program.
NormaliseOpens ==
  /\ script = "open"
  /\ conf' = Empty
  /\ script' = "normalise"
  /\ UNCHANGED <<manager, backup, runs, package, unit, node, generated, kept, history>>

\* The script does not look at the exit status: a panic leaves the file empty.
Normalise ==
  /\ script = "normalise"
  /\ \/ MayRead(backup[package]) /\ Writes(KeyRead(backup[package]))
     \/ MayFail(backup[package]) /\ UNCHANGED <<conf, kept, generated>>
  /\ script' = "start"
  /\ UNCHANGED <<manager, backup, runs, package, unit, node, history>>

\* Mutant: an empty file is a file.
UnitForMissing(c) ==
  IF manager # "launchd" /\ ~c.exists THEN "generating" ELSE "starting"

\* What a start does first: the condition of yggdrasil-default-config.service,
\* which the daemon wants, or the test -f of the other scripts.
UnitFor(c) ==
  IF manager # "launchd" /\ (~c.exists \/ (manager = "systemd" /\ IsEmpty(c)))
  THEN "generating" ELSE "starting"

\* systemctl start; launchctl unload and load.
PostinstStarts ==
  /\ script = "start"
  /\ unit' = UnitFor(conf) /\ node' = NoKey
  /\ script' = "idle"
  /\ UNCHANGED <<manager, files, runs, package, history>>

\* Without a file: `-genconf > file`.
CreateOpens ==
  /\ script = "create"
  /\ conf' = Empty
  /\ script' = "generate"
  /\ UNCHANGED <<manager, backup, runs, package, unit, node, generated, kept, history>>

GenconfWorks ==
  /\ Fresh <= Identities
  /\ Writes(Fresh)
  /\ genconf' = IF genconf = "ok" THEN "ok" ELSE "recovered"
GenconfFails == genconf' = "failed" /\ UNCHANGED <<conf, kept, generated>>

\* Debian does not start the service then; the exit status is not looked at.
CreateGenerates ==
  /\ script = "generate"
  /\ GenconfWorks \/ GenconfFails
  /\ script' = IF manager = "launchd" THEN "start" ELSE "idle"
  /\ UNCHANGED <<manager, backup, runs, package, unit, node, copyFailed, disturbed>>

Postinst ==
  \/ BackupOpens \/ BackupCopies \/ NormaliseOpens \/ Normalise
  \/ PostinstStarts \/ CreateOpens \/ CreateGenerates

-----------------------------------------------------------------------------
(* The service.                                                             *)

\* At boot, by hand, by Restart=always or KeepAlive.
Start ==
  /\ script = "idle" \/ manager = "launchd"
  /\ unit = "off" /\ node = NoKey
  /\ unit' = UnitFor(conf)
  /\ disturbed' = (disturbed \/ script # "idle")
  /\ UNCHANGED <<manager, files, runs, script, package, node, copyFailed, genconf>>

\* `-genconf > file`, or StandardOutput=file: of the unit.
GenerateOpens ==
  /\ unit = "generating"
  /\ conf' = Empty
  /\ unit' = "writing"
  /\ UNCHANGED <<manager, backup, runs, script, package, node, generated, kept, history>>

\* systemd goes on when it fails (Wants=), freebsd does not look; openrc, busybox
\* and docker give up.
GenerateDefault ==
  /\ unit = "writing"
  /\ \/ GenconfWorks /\ unit' = "starting"
     \/ GenconfFails /\ unit' = IF manager = "openrc" THEN "off" ELSE "starting"
  /\ UNCHANGED <<manager, backup, runs, script, package, node, copyFailed, disturbed>>

DaemonReads ==
  /\ unit = "starting"
  /\ unit' = "off"
  /\ \/ MayRead(conf) /\ node' = KeyRead(conf) /\ Uses(node')
     \/ MayFail(conf) /\ UNCHANGED <<node, generated>>
  /\ UNCHANGED <<manager, conf, backup, runs, script, package, kept, history>>

\* A signal, a stop command or a panic.
DaemonEnds ==
  /\ node # NoKey
  /\ node' = NoKey
  /\ UNCHANGED <<manager, files, runs, script, package, unit, history>>

-----------------------------------------------------------------------------
(* The world: power cuts, and an administrator whose editing breaks the      *)
(* file's syntax and repairs it, but never drops the key.                   *)

PowerCut ==
  /\ script' = "idle" /\ unit' = "off" /\ node' = NoKey
  /\ disturbed' = (disturbed \/ script # "idle")
  /\ genconf' = IF unit = "writing" \/ script = "generate" THEN "failed" ELSE genconf
  /\ UNCHANGED <<manager, files, runs, package, copyFailed>>

Edit ==
  /\ script = "idle" /\ unit = "off"
  /\ conf.key # NoKey
  /\ conf' = [conf EXCEPT !.parses = ~@]
  /\ UNCHANGED <<manager, backup, runs, script, package, unit, node, generated, kept, history>>

Next ==
  \/ \E p \in Packages : Upgrade(p)
  \/ Postinst
  \/ Start \/ GenerateOpens \/ GenerateDefault \/ DaemonReads \/ DaemonEnds
  \/ PowerCut \/ Edit

Spec == Init /\ [][Next]_vars

-----------------------------------------------------------------------------
(* Properties.                                                              *)

\* "Backing up configuration file" (generate.sh:83): an identity that the file
\* has held is still in it or in a backup, through power cuts at any point,
\* broken files and the units that generate new ones, as long as the disk had
\* room for the backups.
NoIdentityLost ==
  ~copyFailed => \A k \in kept : conf.key = k \/ \E p \in Packages : backup[p].key = k

\* A node that has an identity keeps it through any number of upgrades and
\* restarts: the daemon only ever runs with the first one, as long as no upgrade
\* was disturbed or could not make its backup, and no generation failed.
IdentityKept ==
  ~disturbed /\ ~copyFailed /\ genconf = "ok" => node \in {NoKey, 1}

\* The daemon runs with the identity that the file will give it the next time.
\* A file left empty (openrc/yggdrasil:18) means a new one at every start.  Only a
\* daemon started after a -genconf that failed can meet one, and on systemd,
\* whose condition looks for it, only until one succeeds; on launchd also one
\* after a disturbed upgrade.
RunsWithSavedIdentity ==
  script = "idle" /\ node # NoKey /\ conf.key # node =>
    genconf = "failed" \/ (manager = "launchd" /\ (disturbed \/ copyFailed))
=============================================================================
