# A formal model of Popura

Popura is an alternative client for the Yggdrasil network: a daemon, a control
program, key generators and packaging around the `yggdrasil-go` libraries. This
directory holds TLA+ modules translated from its source, configurations that
model-check them with TLC, and proofs about them that TLAPS checks. Paths below
are relative to the repository; `map` in `PROJECT.json` gives the source lines
of every definition, and `hazards` lists what is hard to test and where.

## 1. The system and its parts

| Part | State it keeps | Operations | Hard behaviour |
|---|---|---|---|
| autopeering loop, `src/autopeering/module.go` | `hadPeers`, `checkPeerTimer`, `enabled`; a goroutine or a pending timer | `Start`, `Stop`, `checkPeerLoop` re-arming itself with `time.AfterFunc` | `Stop` runs without a lock beside the loop; a call is made by a goroutine of its own, later than the scan of the peers it follows from; time |
| public peer probe, `src/autopeering/{peers,main}.go` | results on an unbuffered channel | `testPeers`, `testPeer`, `GetClosestPeers`, `RandomPick` | fan-out over a channel, results in any order, unstable sort |
| daemon life cycle, `cmd/yggdrasil/main.go` | the `node` struct, the signal context | `run` (bring up, wait, bring down), `main` (signals) | failing constructors, signals at any time, the loop running on during shutdown |
| start-up modes and reading of the configuration, same file | how far `run` is with its configuration | `getArgs`, `readConfig`, `doGenconf`, the one-shot modes | one program is daemon and filter; a standard input that does not end; a file laid over generated defaults |
| control program, `cmd/yggdrasilctl` | endpoint, connection | `run`, `parseFlagsAndArgs`, `setEndpoint` | a daemon that is absent, stops, refuses or answers nonsense; panics that are recovered |
| key generator, `cmd/genkeys` | each thread's best key, a channel, `currentBest` | `doKeys`, `isBetter`, `main` | threads competing for a bounded channel |
| brute-force searchers, `contrib/yggdrasil-brute-simple` (C) | three parallel tables, a wrapping counter | `find_where`, `insert_32`, `insert_64`, the main loops | tables that must stay in step, overflow |
| package scripts and units, `contrib/deb`, `contrib/systemd`, `contrib/macos` | the configuration file and its backups | `postinst`, `prerm`, `postinstall`, the default-config and daemon units | crashes between steps, failing steps, repetition, a daemon restarted meanwhile |
| service scripts, `contrib/{openrc,busybox-init,freebsd,docker}` | the same file | generate it, start, stop | a generation that failed leaves an empty file |
| mobile binding, `contrib/mobile` | core, multicast, iprwc of one object | `StartJSON`, `Stop`, `Send`, `Recv`, getters | calls from several threads without a lock, calls that fail halfway |
| ansible key generator, `contrib/ansible` | an array of key sets, two files per host | `bubbleUpTo`, `sortKeySetArray`, `main` | partial bubble sort; files written one after the other, over older ones |
| key utilities, package builds, CI | none of their own | | straight-line scripts and pure functions |

How they interact. The daemon gives its core to every module it starts. The
autopeering loop calls the core (`GetPeers`, `CallPeer`) from its own goroutine
and calls the probe, which fans out, and waits for it; the daemon's main
goroutine calls `Start` and `Stop` of the loop. The control program talks to the
daemon's admin socket, whose handlers belong to the modules. The packaging runs
the daemon binary as a filter over the configuration file, which the daemon and
the control program read later. The mobile app holds the binding's object and
calls it from several threads; the binding owns a core, a multicast module and a
packet reader. The key searchers and generators stand alone.

What makes each part correct:

- *loop*: it stays alive; a node without Internet peers probes within a bounded
  time; public peers are not probed or called more often than promised; `Stop`
  ends it except in a known race;
- *probe*: it hears every peer exactly once and returns; what it keeps are the
  fastest online peers, and one of them is picked;
- *daemon*: everything that uses the core is down before it, but for what the
  loop has left over; the admin socket closes before the modules whose commands it
  serves; a signal ends the process in an orderly way; flags that ask for an answer
  start no node;
- *mobile binding*: an app that was told its node is up has a node, reads it and
  writes to it; one that was told it is down has nothing left running;
- *control program*: what it reports is what the daemon has done;
- *key generators*: no better key is dropped, the last key printed is the best of
  all, a printed row is one consistent key, printed keys are unrelated; no two
  hosts get one key, and none that the writing has got past two halves of
  different ones;
- *packaging*: the node's identity, its private key, survives, and the one in use
  is the one in the file.

## 2. Modules

| Module | Models | Composed with |
|---|---|---|
| `AutoPeering` | the loop, its timer, `Stop`'s two steps, the core's peers, time | implements `ProbePacing`; used by `Node` |
| `ProbePacing` | abstract: probes are more than a gap apart, at most one call each | |
| `PeerProbe` | one probe: the goroutines, the channel, the selection | implements `OneProbe` |
| `OneProbe` | abstract: a probe hears everybody once, then chooses one of the closest or nobody | the step `FinishProbe` of `AutoPeering` is its `Choose` |
| `Node` | `run`, its modes, and `main`'s signals | `AP == INSTANCE AutoPeering`, step by step |
| `KeySearch` | `genkeys` | |
| `BruteKeys` | both brute-force searchers, one loop | |
| `AdminClient` | `yggdrasilctl` and the daemons it may reach | its names are prefixed: `NodeProofs` extends it and `Node` |
| `ConfigUpgrade` | the package and service scripts acting on the configuration file | |
| `Mobile` | the mobile binding and the threads of an app | |
| `AnsibleKeys` | the ansible generator and the files it writes | |
| `MC*` | model values for the instances of `AutoPeering`, `Node`, `KeySearch` | extend their module |
| `*Proofs` | theorems and proofs | extend their module and `TLAPS` |

Definitions marked *Mutant* in a module are plausible bugs in the operation that
follows them; they occur in no specification, and `mutants` in `PROJECT.json`
says which property each of them breaks when it takes that operation's place.

### AutoPeering

A goroutine step that another goroutine can observe is an action: the scan of
the core's peers (`ScanPeers`, module.go:60-65), the decision (`SawPeers`,
`TooEarly`, `StartProbe`, 67-72), the end of the probe and the `go` statement
(`FinishProbe`, 71-82), the call that the goroutine makes when it is scheduled
(`CallPeer`, 76-80) and the return of that call (`CallReturns`), `time.AfterFunc` and, separately, the assignment of its
result to the field (`ArmTimer`, `PublishTimer`, 84-86). `Stop` reads the field
and then stops what it read (`StopReads`, `StopStopsTimer`, 48-53). The field is
abstracted to whether it refers to no timer, to the latest, or to an earlier
one, which is all that `Stop` can tell apart.

Time is kept as ages and countdowns. An age saturates at
`AutopeerTimeout + PeerCheckTimeout + 1`: neither the code nor a property
compares it with anything larger, so the state space is finite although
behaviours are not cut off. `Spec` lets every goroutine and timer be arbitrarily
late, with one bound: a timer just created does not run out before the next
instruction of its creator. On a machine where `prompt` holds time does not pass
while something is `Due`; the initial state leaves open which machine it is. The
properties that bound a delay in seconds can only hold on one that keeps up and
say so; all the others hold on both.

A goroutine that has been started and has not called yet is in `pending`, one
inside `CallPeer` in `calls`; either may stay there for ever. The core is external.
Its peers come and go freely, and a call succeeds or fails at any time.

### PeerProbe

`testPeers` spawns one goroutine per peer and then receives as many results as
it spawned; the unbuffered channel makes a send and a receive one step. The
scheme test, the dial and its timeout give a peer one of two outcomes.
`sort.Slice` is not stable, so the result of `GetClosestPeers` is a *set* of
sequences, any arrangement in which no result comes before a faster one;
`RandomPick` likewise.

`OneProbe` is what is left of this for the check loop: peers have their say one
by one, then one of the closest that answered is chosen, or nobody. A peer is one
of the closest when fewer than `Limit` are faster. Which of them is taken is left
open, by `OneProbe` and by the properties of `PeerProbe`: the code always takes the
first, its comment says a random one (section 6), and a `RandomPick` that did what
the comment says would satisfy both as well. `PeerProbe` implements `OneProbe`, the
end included. `FinishProbe` of `AutoPeering` is `Choose` seen from the loop: a
goroutine for one public peer or for none. Which one was fastest is nothing the loop can tell apart, so the two are checked one at a time and not as
one state space.

### Node

`config` says how far `run` is with its configuration: the switch over the modes
(main.go:231-273, first flag wins), the reading of a file or of the standard
input, and the second switch for `-address` and `-subnet` (275-299). A mode that
answers ends with nothing to do; `oneShot` states independently of that order
which command lines ask for an answer. Reading the standard input is a separate,
unfair step: nobody need ever close it.

`line` is a place in `run`'s program text from the `node` struct on: six starts,
the wait for the context, six stops (main.go:301-420). A constructor may fail (a
panic, which ends the process wherever it is) or return nil without an error;
handlers are registered only for modules that exist, on an admin socket that
exists. `AP!Start`, `AP!StopReads` and `AP!StopStopsTimer` happen inside `run`;
the loop, the goroutines of its calls, the core and the clock run beside it
(`Background`) until the process is gone, on a core that has been stopped too.
`lateScan` and `lateCalls` record what asked a stopped core for something, and
`leftover` the goroutines that had yet to call when autopeering's `Stop` began.

`handlers` are the modules whose commands the admin socket serves. Stopping the
admin module leaves them as they are: that the library closes the connections it
has accepted, or waits for a handler that runs, is nothing this code shows, so
`SocketClosesFirst` speaks of the socket alone.

### KeySearch, BruteKeys

In `KeySearch` a thread, its send and main's receive are actions; a `keySet` is
represented by its public key, and keys are short strings of small bytes so that
`isBetter` is the comparison of the code. In `BruteKeys` a secret is a seed and
a number of increments, a hash is an arbitrary number, and the three tables, the
batch counter and the wrapping `runs` are the program's.

### AdminClient

The client's steps follow `run`. A reply is a success, an error, something that
is no reply at all, or one whose response is not of the promised type, which only
the commands that lay out a table, and only without `-json`, stumble over. The
deferred function that recovers is a step,
since what it returns is the point. The daemon may come and go on any endpoint,
lose the connection before or after it has applied the request.

### ConfigUpgrade

The configuration file and each backup are files that exist or not, are empty or
hold a key, parse or not. `cp` and the redirection `>` are split at the moment
the target is truncated. The scripts do not look at exit statuses and go on. The
backup's name carries the date the *package* was built: the here-document that
writes `postinst` is unquoted, so `` `date` `` runs in `generate.sh`. Power cuts
come between any two steps; an administrator may break and repair the syntax of
the file, but leaves the key alone.

The service manager of the machine is one of four that differ in what they do
before a start: systemd generates a configuration when it is missing *or empty*;
the openrc, busybox and docker scripts when it is missing, and give up if that
fails; the FreeBSD script when it is missing, and goes on; launchd never does.
Debian's scripts stop the service first; the macOS `postinstall` runs beside a
daemon that launchd may restart at any of its steps.

### Mobile

A node is numbered by the `core.New` call that made it, and the fields of the
object hold such numbers, so the model can tell a multicast module or a packet
reader of an earlier node from the present one's. What `multicast.New` returns beside
an error is external: nil or a module that does not run. `StartJSON` and `Stop` are
split at every assignment and every error return. One thread starts and stops,
one reads, one writes, one calls getters; `Recv` and `Send` test the field and
read it again, which are two steps. Between the assignment of `m.iprwc`
and the return of `StartJSON` nothing orders the object's initialisation before
the pointer, so another thread's use of it then may crash (`UseIprwc`). `up` is
what the app has been told: the last `StartJSON` returned nil and no `Stop` has.

### AnsibleKeys

A key set is represented by its place in the order of `isBetter`. `Fill`, `Sort`
and `Try` are one turn of a loop each, `BubbleUpTo` is what the loop of
`bubbleUpTo` does to the array. Creating a file truncates it and writing it is a
later step that may fail without notice; the files of an earlier run may be
there, and the program may be killed anywhere.

## 3. What the runs show

| Run | Checked | States |
|---|---|---|
| `autopeering` | types; `Stop` leaves the loop alive only if a check was under way or the timer fired during it; refinement of `ProbePacing`; under fairness a lonely node probes again and again; on a machine that keeps up, a node lonely for longer than `AutopeerTimeout + PeerCheckTimeout` has probed within that time, and a probe runs on a scan no older than its dials | 553,044 |
| `probe` | every peer is heard once and no goroutine is left behind; those kept are the fastest; one of them is picked iff one answered; refinement of `OneProbe`, in which nobody is chosen before all have answered or timed out, and the choice comes | 4,825 |
| `node` | users of the core stop before it; a stopped core is used only by a check that raced with `Stop` or a goroutine that was on its way when `Stop` began; the admin socket closes before the modules it serves; one-shot modes start nothing; a signal ends the process gracefully | 1,877,184 |
| `keysearch` | no thread's best key is lost; the last key printed is the best of all threads once all have arrived; every key found is matched by a printed one in the end | 6,299 |
| `brute` | a row is one key; no better key is dropped; only filled rows are printed, counter overflow included; rows come from different seeds | 95,288 |
| `client` | a result means applied; exit code 1 means refused and not applied; the program ends | 21,492 |
| `upgrade` | no identity lost, the first one kept, a running daemon's identity saved unless a generation failed; each package configured once | 19,880 |
| `mobile` | up means served, down means stopped, a steady sender loses nothing, a reader reaches the present node, no call crashes a node in service | 8,124 |
| `ansible` | the best key is given to a host, keys are not shared, the two files of a host match | 173,284 |
| `client_exit`, `upgrade_again`, `ansible_best` | the three disagreements of section 6, each a counterexample | |

### Bounds, and why they are enough

- `AutoPeering`: one public peer, one Internet neighbour and one link-local
  neighbour are one of each kind the code distinguishes, and the peers of a kind
  are interchangeable in every guard. The timeouts 6, 2 and 1 keep the order and
  roughly the proportions of 30, 10 and 3 seconds: several checks fit between two
  probes and the dials fit between two checks. The proofs cover all other values.
- `Node` has no neighbours and all timeouts are 1: its properties are about the
  order of shutdown, the race with the loop and the calls left over, and any one
  peer gives the loop something to do. A check can still come too early for a
  probe, and calls of several probes can be on their way at once.
- `Mobile`: three nodes (`MaxCores`): a start on top of a running node and one
  more after it, each with or without multicast.
- `AnsibleKeys`: up to three hosts (`MaxHosts`) and five tries (`MaxTries`), five
  keys: the array has four places, so a key can stop short of its place between
  better and worse ones, and there are tries left over that replace keys.
- `PeerProbe`: four peers, one of them with a scheme that is not dialled, two
  latencies and a limit of two give ties, fewer and more online peers than the
  limit, and offline peers.
- `KeySearch`: three threads, a channel of three, keys of two bits: the channel
  fills while a thread waits, and keys tie in the first byte.
- `BruteKeys`: three rows, three hashes, batches of two and eight tests
  (`MaxTests`); the counter wraps at 5, so it wraps within a run and falls below
  `NUMKEYS` again.
- `AdminClient`: the default endpoint, another one, one written without a scheme,
  and an unsupported scheme.
- `ConfigUpgrade`: two packages (an upgrade of an upgrade) or one package
  configured twice; `Identities` bounds the keys that are generated, and the proofs
  do without any of these bounds but one run per package.

### Deadlock

Where a specification ends by design (the process exits, the client exits, a
search is cut short by `MaxTests`, an app has used up its `MaxCores`) the
configuration says so and turns the
deadlock check off. It is on for the loop, the probe, the key generator and the
upgrade.

### Fairness, and why the code justifies it

- Go schedules every runnable goroutine in the end and timers fire after their
  time: `WF(CheckPeerLoop)`, `WF(Tester)`, `WF(Caller)`, `WF(Run)`, `WF(Client)`.
- Time passes: `WF(Tick)`. A dial ends by its timeout of three seconds at the
  latest, which is what lets `Tester` and `FinishProbe` be fair.
- `Run` of `Node` also assumes that the libraries' `Stop` calls return.
- Goroutines blocked on a Go channel are served in turn, so each sender of
  `KeySearch` has its own `WF(Send(t))`: whenever there is room again the oldest
  waiter gets it. That a better key is ever *generated* is luck and not assumed.
- A daemon that keeps the connection open answers: `WF(Answer)`. Without it the
  client, which sets no deadline, can wait for ever.
- The app's reading thread of `Mobile` calls `Recv` again and again, and a read
  of a stopped core returns with an error. No packet need ever come, and no start,
  stop or send need ever be called.
- Nothing makes anybody close the standard input: `StdinEnds` of `Node` is not fair.
- `KeepsProbing` assumes nothing of the core; it speaks of a node that *stays*
  without Internet peers.

## 4. What is proved

For every value of the constants that satisfies the named assumptions
(`PeersAssumption` and `TimeAssumption`, where the one relation the proofs need
is that a dial times out no later than `AutopeerTimeout`; `SearchAssumption`;
`BruteAssumption`, where the counter is wider than the table;
`UpgradeAssumption`; `EndpointAssumption`, that the default endpoint is one the
client can dial; `MaxCoresAssumption`, that there is at least one start;
`NodeAssumption`, which is what `AutoPeering` assumes of the same constants;
`ProbeAssumption`, that only peers of the list are dialled, latencies are natural
numbers and at least one peer is to be kept; `AnsibleAssumption`, that a file with
a key, one of an earlier run, one cut short and none are told apart). Of
the theorems listed in `PROJECT.json`:

- **AutoPeeringProofs.** `AutoPeeringTypes`. `StopMissesOnlyByRaceHolds` needs
  `StopInv`, because the property speaks of what is true after `Stop` while the
  reason lies in which timer the field referred to before: a loop asleep sleeps
  on the published timer, a loop at work holds no armed one.
  `AutoPeeringIsPaced` is the refinement; its invariant `PacingInv`
  (`hadPeers <= sinceProbe`) says why a guard on one clock bounds another.
  `LonelyNodeAlwaysProbes` and `StaleScanAlwaysBounded`, which are about a machine
  that keeps up, rest on `PromptInv`,
  which ties the three clocks to the program counter: how
  old `hadPeers` is at each stage and how long the timer still has (`FreshInv`),
  what can have refreshed it while there are no peers (`LonelyInv`), how old the
  scan under a probe is (`StaleInv`).
- **KeySearchProofs.** `SearchTypes` and `SearchLosesNoKey`: `NoKeyLost` is
  inductive with the types. `SearchSettlesOnBest` needs the other direction too,
  that whatever is in the channel or was printed last is no better than what some
  thread has (`HeldInv`), and that `isBetter` is a strict total order on keys of any
  length (`BetterIrreflexive`, `BetterTransitive`, `BetterTotal`).
- **BruteKeysProofs.** One invariant, `TableInv` (rows ascend by hash, the three
  tables agree, no better key was dropped, no row has a seed still to be drawn,
  each test so far has filled a row while there were empty ones, the counter does
  not run ahead of the tests), and from it the types and the four properties, for any size of the table and any
  width of the counter larger than it. `TablesAreSound` is the invariant itself.
- **ConfigUpgradeProofs.** `UpgradeTypes`; `IdentityIsKept` from `FirstKeyInv`,
  which says where the identity is at each step (it leaves the file only while
  the backup has it); `NoIdentityIsLost` from `LossInv` (the backup is written
  only while it has no key, the file only while it has none or the backup has the
  same), for any number of packages under the hypothesis `RunsPerPackage = 1`.
  Without that hypothesis it is false: that is the run `upgrade_again`.
  `IdentityIsSaved` rests on three invariants: what a service that is about to
  start can find in the file (`PhaseInv`), that it starts on a key or after a
  failure (`StartsOnKey`), and that a running daemon's key is in the file or one
  of the excuses holds (`SavedInv`). It holds for all four service managers and
  any number of packages and runs.
- **NodeProofs.** The node is composed with `AutoPeering` by `INSTANCE`, and so are
  the proofs: `SameModule` says that the two instances define the same formulas,
  `ModuleStep` that a step of the node is one of the module's or leaves it alone,
  and `ModuleHolds` brings `TypeOK` and `StopInv` into the node. `DaemonTypes`.
  `OneShotsNeverStart` from `ModeInv`: a mode that answers is known by its flags
  until they are used, then by the place of `run`. `UsersAlwaysStopBeforeCore`
  and `SocketAlwaysClosesFirst` from `OrderInv`, which says what each
  handle can be at each place of `Program`; `Calls` gives the place of each call.
  `LateUseIsAlwaysExplained` from `LateInv`: past its Stop call the module is
  "done", or there never was a core; and, without a race, the goroutines that have
  yet to call are among those that were on their way when `Stop` began.
  `AfterStopBegan` is why: with `StopInv`, a loop that is not asleep after that has
  raced, so without a race no probe ends and nothing is added.
  `DaemonRunsAutoPeering` is the composition as a theorem: every behaviour of the
  daemon is one of the module's, so `DaemonIsPaced`: `ProbePacing` holds of the
  daemon as a whole.

  The same module proves what the daemon's control program reports of it:
  `ClientTypes` and `ReportIsAlwaysTrue`, the latter from `ExchangeInv`: what
  reply can exist before and after the request is applied, and which reply each
  output and exit code stands for. No endpoint need be finite in number.
- **PeerProbeProofs.** `ProbeTypes`. `CollectInv` (the results received are those
  of different peers, each what its goroutine, now gone, sent) is what makes a
  count of results mean that everybody was heard: `AllHeard` shows that an
  injection of the list into itself is a bijection, and `EveryPeerIsHeardOnce`
  follows. For `ClosestAreAlwaysBest` nothing is computed: `ClosestPeers` says
  that the list returned is the beginning of *some* order in which the sort may put
  the online results, `OrderIsOfOnlinePeers` that such an order is a bijection onto
  the online peers, and `SelectIsBest` that the beginning of any such order is
  closest and as long as it can be, with `KeptAreClosest`: a peer that is kept has
  fewer faster ones than are kept, which is what `Choose` asks; the property is about `outcome`, so
  `ReturnedStays` is needed too: nothing moves any more when the probe has returned.
  `ProbeIsOneProbe` is the refinement: the end of a dial is `HasItsSay`
  (`DialEnds`), the selection is `Choose` (`SelectChooses`), every other step a
  stutter. For any list of peers, any latencies and any number of peers kept; this
  is where the number must not be 0, as otherwise nobody is chosen although
  somebody answered.
- **AnsibleKeysProofs.** `MovesStops` says where the loop of `bubbleUpTo` ends, which
  takes the least of a set of places (`LeastNatural`); `BubbleRearranges` that no
  key is lost or doubled; `BubbleKeepsBest` that a best key stays, or comes, among
  those that go to the hosts. `IInv` has a part for the types, one for what the
  places hold at each stage (`KeysInv`), one for where the best key is (`BestInv`:
  anywhere up to the first pass of the sort, and never at place 0 from then on,
  which is why overwriting that place loses no best key although nothing is ever
  sorted) and one for the files (`FilesInv`: a key in a file of a host is the key at
  that host's place). From them `AnsibleTypes`, `BestKeyIsAlwaysTaken` and
  `HostsAlwaysHaveOwnPairs`, for any numbers of hosts, tries and keys and the files
  of any earlier run.
- **MobileProofs.** `MobileTypes` needs `FieldInv` (between check and use a field is
  set). `UpAlwaysMeansServed` and `NoCallCrashesInService` from `ServedInv` (while
  the app counts its node as up, `iprwc` is the running core, in the middle of a
  restart too); `DownAlwaysMeansStopped` from `DownInv` (as long as no start has
  replaced a running core, whatever runs is what the fields refer to), for any
  number of starts.

Only model-checked: the liveness properties (`KeepsProbing`, the end of `ImplementsOneProbe`,
`GracefulExit`, `FoundKeyIsPrinted`, `ClientEnds`, `ReaderReachesNode`), since the
prover does not reach fairness, and the disagreements, which are counterexamples.
Every invariant that a passing run checks is a theorem. No module declares a
recursive operator; the selection in `PeerProbe` is stated as the set of results
a filter, a sort and a permutation may give, with bijections onto the places of
the online results, because the prover can unfold a bijection and not `SelectSeq`.

## 5. What is not modelled, and why

- `yggdrasil-go` (core, admin, multicast, tun, ipv6rwc) is another repository:
  its effects on this code are the definitions marked external.
- Layout, logging (the logger's set-up, `setLogLevel`, `MobileLogger`) and the
  tables `yggdrasilctl` prints; the addresses of printed
  keys; the curve arithmetic.
- `src/popura/utils.go`: pure functions that nothing calls.
- `GenerateConfigJSON` and `GetVersion` of the mobile binding return a text and
  change nothing; its `config` field is read by `StartJSON` alone.
- The Popura section of the configuration: `run` only ever uses the generated
  default and the flags, so there is no behaviour of it to model.
- Group, file modes, process files and the TUN set-up of the service scripts.
- Package builds and CI: straight-line scripts that keep no state.
- `UpdateConfig`, `SetupAdminHandlers` and `IsStarted` of the autopeering and
  meshname modules are empty or constant; there is nothing to model.

## 6. Where code and text disagree

- `client_exit`: the deferred function of `yggdrasilctl` returns 1 after a panic,
  but a deferred function's result is discarded and the exit code is 0; the
  comment says that this returns an error code.
- `upgrade_again`: configuring one package twice writes the same backup twice;
  after an upgrade cut short by a power cut, the second run copies the empty file
  over the only copy of the key.

- `ansible_best`: `bubbleUpTo` gives up at the first pair in order and always
  starts at place 0, so `sortKeySetArray` does not sort and a key better than one
  that is given to a host may be overwritten; the flag speaks of "taking the best
  keys". What does hold is that the very best one is taken (`BestKeyTaken`).

Disagreements seen while modelling that no run is spent on:

- `RandomPick` permutes the first `n` places, not the list (`peers.go:66`), so with
  `n = 1` it always returns the first of the closest peers; its comment
  (`peers.go:58`) says "Pick n random peers from a list". The model picks as the
  code does, and the properties hold of either behaviour.
- The service files offer a reload by `SIGHUP`, which the daemon does not catch: it
  dies by it, without shutting down (`GracefulExit` admits that end).
- "Catch interrupts from the operating system to exit gracefully" (`main.go:426`):
  while `-useconf` waits for a standard input that does not end, a caught signal
  ends nothing (`GracefulExit` exempts that state).
- `Recv` promises "a fully formed IPv6 packet" (`mobile.go:119`) and returns an
  empty one without an error when its core has been stopped; `Send` never reports
  a failure.
- A second `StartJSON` leaves the first node running, out of the reach of `Stop`
  (`DownMeansStopped` exempts it).
- `README.md:12` speaks of sections of the configuration file for Popura's
  modules, which are never read from it.

Seen, where no text says otherwise: an endpoint that is no URL makes
`yggdrasilctl` panic before it dials; an `-endpoint` equal to the default counts
as none; a first argument that begins with `-` is dropped and an empty command is
sent; the ed25519 searcher prints the hash of the seed in the column headed
"seed"; the package script truncates the configuration after a `cp` that failed; a
check that `Stop` raced with, and a goroutine on its way to `CallPeer`, use the core
after it has been stopped (`LateUseIsExplained`: nothing else does); the ansible
generator leaves the halves of two keys with the host at which it is stopped
(`HostsHaveOwnPairs` exempts that host).

## 7. Plan

Done, in this order: `AutoPeering` with `ProbePacing`, `Node` over it,
`PeerProbe`, `KeySearch`, `AdminClient`, `ConfigUpgrade`, `BruteKeys`, `Mobile`,
`AnsibleKeys`, the service managers of `ConfigUpgrade`, the start-up modes of
`Node`, `OneProbe`, and the proofs of section 4.

Next theorems: the safety part of the liveness properties, that is, that a step
which brings the promised end nearer stays possible (no state of the loop, the
probe or the shutdown is stuck), as far as it can be said without ENABLED; and
more of the composition of `Node` and `AutoPeering`.
