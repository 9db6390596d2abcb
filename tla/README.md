# A verification project for gdev

gdev (`fastcat.org/go/gdev`) is a toolkit from which a team builds its own
command for a development environment: a *stack* of services that are started and
stopped together, a *bootstrap* plan that prepares a machine, a *build* that goes
over the repositories, and addons for containers, clusters, databases and tools.
An app is a main program that configures addons and then runs one command per process.
The program's own logic, which this project models, is where several actors or several calls meet:
the process manager, the Go build cache, the bootstrap and what it does to a machine, starting and
stopping the stack, and the configuration of an app.

`PROJECT.json` lists the components, the runs of TLC, the source lines every
definition stands for, the hazards the properties are for, and the theorems.

## 1. Inventory

| Component | State | Operations | What is hard | What makes it correct |
|---|---|---|---|---|
| **Process manager, child** (`addons/pm/server/child.go`) | status published to readers; current exec and process; kill and restart timers; health ticker; three channels | commands start, stop, delete, ping; timers; exits; health checks | a select loop with timers that nothing disarms, exits that do not say whose they are | one process at most; shown state and process agree; a stop ends; a crash is retried, or never when so defined |
| **Process manager, daemon and server** (`daemon.go`, `http.go`) | map of children under a mutex; one manager goroutine each; the HTTP server's phase | list, get, put, start, stop, delete, terminate; shutdown | handlers read a status and act on it later; a blocking send under a mutex; shutdown with requests in flight | requests are answered; what a put or a start says is so; what is left at exit is accounted for |
| **Process manager, stack resource** (`addons/pm/resource`) | none of its own | Start, Stop, Ready: loops of calls to the daemon | other clients and crashes between two calls | a Start or Stop that returns replaced or removed the child it met |
| **Go cache, storage** (`addons/gocache/storage-fronend.go`, `disk-storage-backend.go`, `layered-backend.go`, `sftp`, `http`, `gcs`, `s3`) | directories or buckets of entries and outputs, temporary files | get, put, read-through, write-through | several processes over one directory, failures, crashes, uploads in parts, five ways to rename | a hit is what was put for that action, with its bytes on disk |
| **Go cache, server loop** (`server.go`, `protocol*.go`) | requests under way, one writer of answers, contexts, a channel | read, serve, respond, close; signals | groups of goroutines that wait for one another | every request is answered once; a close is answered last; the process ends |
| **Bootstrap plan** (`addons/bootstrap/plan.go`, `step.go`, `addon.go`, `cmd.go`) | ordered and pending steps | add, fill in defaults, order, run, simulate, derive, diagnose | ordering is repeated while steps are still added; a search that marks what it visited | the order keeps every constraint; failures are explained |
| **Bootstrap on a host** (`addons/bootstrap/apt`, `input`, `textedit`, `context.go`, the steps of docker, gcloud, asdf, uv, tailscale, github, examples) | apt sources, packages, groups, files; the context of a run | steps, each with its dry run; failures and reruns | a run that was killed is run again with an empty context | a completed run has done all; the next one changes nothing |
| **Stack** (`addons/stack`), services and modes (`service/`), resources (`resource/`) | registered services, the mode of each, the resources started | start, stop, hooks | order, failure part way, parallel stop, two commands at once | started in order, stopped in reverse, nothing that another still needs |
| **Services of the addons** (k8s, k3s, docker, postgres, mariadb, valkey, gcs, examples) | Kubernetes' and docker's | Start, Stop, Ready of every kind of resource | what is asked for comes about later; a wait for what a later entry provides never ends | a start succeeds with everything in place |
| **Addons** (`addons/*.go`, `internal/lockdown.go`) | what is registered, pending and initialized | Configure, initialize, lock | two phases, initializers that configure others | a sound program starts, an unsound one does not |
| **Build** (`addons/build`, `golang`, `nodejs`) | registered strategies | order of strategies, detection, builders, build before start | ordering by what supersedes what; directories and repositories | what is started from source was built from it |
| **Configuration** (`lib/config`, `service/mode-config.go`) | the configuration file | load, change, save | several processes, one temporary name, power failures | what is saved is loaded, and whole |
| **k3s on the host** (`addons/k3s`) | the binary, the server's data and certificates, the user's kubeconfig | install, set up, merge, uninstall | several processes, a daemon that restarts, a file written in place | after a set-up, starts reach the cluster |
| Process manager client, autostart, tasks, CLI, diagnostics; containerd; github; libraries; template and generated sample | | calls of external programs, formatting | | |

Interactions: the `gdev` command loads the configuration, starts the stack (after a build, when services run
from source); a stack's service contributes
resources, among them the process manager's, whose client talks HTTP over a Unix
socket to the daemon, which runs in a process of its own and keeps, for one, the k3s server. The Go command starts one
cache process per invocation; all of them share the cache directory and, in layers,
a remote one. Bootstrap runs in the command's own process, sequentially.

## 2. Modules

| Module | Models | Rests on |
|---|---|---|
| `PMStates` | the states of a child and what each event leads to, as operators | |
| `PMLifecycle` | what the process manager promises of one child | `PMStates` |
| `PMChild` | the manager goroutine of one child in full | `PMStates`; implements `PMLifecycle` |
| `PMChildProofs` | theorems about `PMChild` | `PMChild` |
| `PMDaemon` | the daemon's handlers over many children, Terminate, shutdown | `PMStates`; a child takes the steps of `PMLifecycle` |
| `PMResource` | the clients' loops | `PMDaemon` |
| `PMDaemonProofs` | theorems about `PMDaemon` and `PMResource` | `PMResource` |
| `GoCacheMap` | what the cache promises: a lossy map with files | |
| `GoCacheStore` | front end, disk and layered backends and the four kinds of remote, call by call | implements `GoCacheMap` |
| `GoCacheStoreProofs` | theorems about `GoCacheStore` | `GoCacheStore`, `GoCacheMap` |
| `GoCacheServer` | the reader, the goroutines of requests, the writer, close, signals | |
| `GoCacheServerProofs` | theorems about `GoCacheServer` | `GoCacheServer` |
| `BootstrapPlan` | the plan's methods | |
| `BootstrapPlanProofs` | theorems about `BootstrapPlan` | `BootstrapPlan` |
| `TextEdit` | the three editors line by line, and three ways to replace a file | |
| `BootstrapHost` | runs and dry runs of a plan over a machine | `TextEdit` |
| `BootstrapHostProofs` | theorems about `BootstrapHost` and the edits of `TextEdit` | `BootstrapHost` |
| `BootstrapAddons` | the steps the addons add, as records | |
| `Resources` | each kind of resource: what Start and Stop may make of it, when it is ready | |
| `Stack` | the commands start and stop, with modes and anti-resources | `Resources` |
| `StackProofs` | theorems about `Stack` | `Stack` |
| `StackServices` | the services of the addons and examples as lists of resources | |
| `Addons` | every Configure call as the sequence of what it does to the registries | `BootstrapAddons` |
| `Build` | the order of strategies, detection, what builders do with directories | |
| `Settings` | the configuration file and those that change it, a specification by itself | |
| `K3s` | installation, set-up, kubeconfig and removal of the cluster, a specification by itself | |
| `App` | an app's start-up to the lock, then its commands | `Addons`, `Build`; implements `Settings` and `K3s` |
| `AppProofs` | theorems about `App`, `Settings` and `K3s` | `App` |
| `MC*` | definitions, setups, programs and catalogs the runs use | |

Definitions whose comment begins with "Mutant of" are what a plausible mistake would
make of the definition that follows; `PROJECT.json` pairs each with a property that it breaks.

### 2.1 `PMChild`: one child

The variables are the locals and fields of `run()`: `state` and `exec` are the published
status (`exec` holds `status.Init` and, last, `status.Main`), `curExec` and `curProc` the
locals of those names, `killArmed`/`restartArmed` say that a timer is set and was not received
from, `exited` and `results` are the two channels of capacity 1, `os` has each
process with the goroutine that waits for it. Each case of the select is one action, and
includes the end every case has (set the ticker, publish): `CmdStart`, `CmdStopIdle`,
`CmdStopActive`, `CmdDelete`, `CmdIgnored`; `KillFires`, `RestartFires`; `ExitStopping`,
`ExitInitOk`, `ExitInitFailed`, `ExitMain`, `ExitUnexpected`; `HealthTick`,
`HealthResult`. The rest of the actions belong to other goroutines and the kernel: `ProbeReturns`,
`ProcExits`, `WaiterSends`.

Time is abstracted: an armed timer may fire at any moment, which covers every
interval. Commands are not ruled out by the state they find, as the daemon decides on
a status it read earlier. Pids are reused only when the process was reaped and its
waiter has reported. Logging, log files, environment, annotations and the units that
isolate a process (a systemd scope or a process group: `group` says that one is recorded) are
abstracted.

`doubled` is history: a restart fired while a process was being run. The code
lets that happen (section 6), and it is what the strongest invariants have to except.

### 2.2 `PMDaemon`: the daemon

A handler is a thread with a pc: it takes the mutex and finds the child ("lock"), reads its status
("check"), sends ("send", "ping"), looks ("look"; a stop that sees its child stopped reads the status once more for its answer, "show"),
waits ("wait"). Between any two the
child and the map may change. `mu` names the `PutChild` that keeps the mutex over its send;
all other critical sections are one action. A send on the unbuffered channel
(`Offer`) is possible when the manager is at its select, and the manager handles what it received in
a later step, `Handle`: the sender goes on in between. `Reap` is the goroutine of `PutChild` that
removes whatever is under the child's name when its manager has ended. `Snapshot`
and `TermStop` ... `TermWait` are `Terminate` and its goroutine per child, and `Signal`,
`Drained`, `DrainTimeout`, `Exit` are `HTTP.Run`, whose own last `Terminate` is the thread `Main`.
A child is the state of `PMLifecycle`, with the command it received.

### 2.3 `PMResource`: the clients

Two clients run `PM.Start` and `PM.Stop` as sequences of calls, on the connections of `PMDaemon`.
A step of `script` is the call whose answer is awaited; `StartLooks`, `StartMoves` and
`StopMoves` are the decisions on answers. `kept` stands for `LimitRestarts` together with the
comparison of definitions, `met` is history: the child that was there at the beginning.

### 2.4 `GoCacheStore`: the storage

The steps are calls of the file system, or of what stands for one: `Stat`, `Open` (create or truncate the temporary file), `Write`
(one piece; an output has two, an entry one), `Sync`, `Unlink` (sftp only), `Rename`, `Remove`. A
descriptor stays with the file it opened, also when that is renamed or unlinked
(`holds`). The remote layer has the same format, and each `remote` its own way of getting a file in place: sftp unlinks
and renames, http puts the bytes to a server that renames, gcs and s3 write an object that appears when the upload is
closed and is then copied and deleted, or, in a bucket that has `RenameObject`, moved. `Crash` is a machine that
stops: of files not flushed, any may be empty afterwards. `Quit` is the end of a process when its
client closes the connection. `failing` says in which layers an operation may fail.
`raced` and `lost` are history: names two writers held one temporary file of, and outputs the sftp
rename removed and did not replace.

### 2.5 `GoCacheServer`: the server loop

`input` is what the go command wrote, in its order; `reader`, `task[i]` and `writer` are the program counters of `Run`'s
goroutines, `respCh` and `closed` the channel between them, `interrupted` and `eg2Ctx` the two contexts (the signal's and
that of the errgroup of requests), `storage` the front end, which waits at Close for calls that are still in it. What a
request does with the storage takes one step of unbounded length here, and is `GoCacheStore`'s business.

### 2.6 `BootstrapPlan`: the plan

`pending` and `ordered` are the fields; `pc` is the method under way. `AddStep`, `Derive`, `CallFill` and
`CallReady` are calls, in any order; a method that loops takes one action per turn: `Fill`/`Filled`
(`AddDefaultSteps`), `Resolve`/`Resolved` (`tryResolveAll`, then `prepare`), `RunStep`/`RunEnds`
(`Run` and `Sim`), `SearchFrom`/`SearchNext`/`SearchBack`/`Diagnosed` (`debugCircularDeps`: `path` is the stack, `left`
what the ranges still have). Where the code ranges over a Go map, any order is possible. The catalog says what the
step of each name is; a factory makes the step of its own name, and
constraints do not change once a step is made.

### 2.7 `BootstrapHost`, `TextEdit`, `BootstrapAddons`: what the steps do

The *machine* outlives a run (packages, apt's sources, keys and lists, groups and tools in `made`, git's configuration, the
file); the *context* does not (`queued` packages, `dirty` sources, `reboot`, `info`). A step is one action by its kind
(source, update, install, packages, command, edit, ask, ...), its dry run an action of its own; `Stop` (a failure, or the end of the process) may leave any part of
the work at hand done. An edit is fed one line per action, so that it may be killed between any two, and ends in
the way its file is replaced. A line is its text and the white space around it, which is all the editors compare.
`WorldMoves` is what others do to the machine in between; `Distros` is what the distribution may come to offer; `PowerFails` loses what was not flushed.

The steps themselves are `BootstrapAddons`'s records: name, kind, arguments, order, and the reasons to skip. `Turn` is the place of the
first of those left that does not have to wait for another, which is the order `BootstrapPlan` has of them. A plan that cannot be ordered is not
run (`PlansAssumption`). `Tidy`, `OneEdit`, `PlainEdits`, `Ordered` and `Supplied` are what the plans of the addons keep to, so that a completed run has done all of
them; `PlansKeepToRules` of the MC module has TLC see that they do, but for the example, which edits one file twice, and the editor with two lines to find above its own.

### 2.8 `Stack`, `Resources`, `StackServices`: start and stop

`Parts` is what is registered, in order: a resource, the service and the stage it belongs to, and the mode it is for.
`cmd` has each command's locals: the stage it is at, what is `left` of the loop it is in, and, of a stop, the
goroutines whose Stop runs (`busy`) or that have an error to send (`sending`), the channel `errCh` (`chan`) and the errors received
(`errs`). `failed` and `disturbed` are history. A start goes through `StartGather`, `StartNext` (once per resource) and
`StartedAll` per stage, and `Look` per resource waited for; a stop through `StopGather`, `Launch`, `StopReturns`,
`Send`, `Receive` and `StoppedAll`. `Run` is the beginning of a command with the hooks, which may fail; `Exit` its return, or its death at any point.

`world` is what has become of each resource: "down", "coming" or "up". `Resources` has a record per type: what Start and Stop may make of each
state, in which states Ready says yes, and whether it may fail once it is up. The types are those of the code: the accessors of
Kubernetes' objects, the containers and volumes of docker, the child of the process manager, waiters and the databases
made inside a server. A thing comes about when what it needs is there (`Appear`), loses that (`Fade`) and falls (`Fall`). Kubernetes
deletes in the background, so that an object is gone when Delete returns.

`StackServices` has every service of the addons with its options as the list of resources it makes, in order, and what each needs of the others.

### 2.9 `App`, `Addons`, `Build`, `Settings`, `K3s`: the app

`Addons` writes the Configure of every addon, with its options, as the operations on the registries it performs in order
(`Check`, `Register`, `Add`, `Need`, `Once`, ...). `App` runs such a program: `todo` is what is left of it, and an operation is one action
(`CheckNotInitialized`, `RegisterIfNeeded`, `AddTo`, `Demand`, ...), up to the lock or to a panic. Every process of an app does the
same up to there, so it is done once. After that, `run` has each process's commands and where the first is: `SetMode`
and the steps of `Settings`, the hooks and directories of a build, the context of a start or stop (its entries in any order, as the
code ranges over a map), and the steps of `K3s`.

`Settings` tells names from what they name (`file`, `tmp` against `inode`, `disk`, `was`), since all processes share one temporary
name. `K3s` has the machine's binary, data, k3s.yaml and server in `kube`; certificates are numbered, so that "the credentials are
those of the server there is" can be said. Each is a specification of any processes that call its steps in any order
(`SettingsSpec`, `ClusterSpec`); `App` takes its steps as parts of its own. `Build` is pure: the order of strategies is the depth-first search of the code, as a
recursive function, and `DetectStrategy` and the builders are operators over a repository's record.

## 3. Runs

| Run | Module | Question | Bounds |
|---|---|---|---|
| `child` | `MCPMChild` | Do the manager's view of its process, timers and states stay consistent, does it implement `PMLifecycle`, and does a stop end, a crash get retried, a check come again? | every combination of flags with up to 1 init, never restarted with 2; 2 processes; 1 health check in flight |
| `child_panic` | `MCPMChild` | Is the panic at child.go:145 reached? It is. | as above, no health checks |
| `daemon_live` | `MCPMDaemon` | Are requests answered, and does a daemon told to end do so? | 2 requests, 1 child: put or terminate against any of the rest; children that restart and ones that do not |
| `resource` | `MCPMResource` | Do Start and Stop get rid of the child they met, is a put answered with its child there and a start only when handled, what is left at exit? | 2 clients of the resource or with put, start, delete and terminate of their own, 2 children of one name; the server may be closed over what they are at |
| `gocache` | `MCGoCacheStore` | Do entries lead to outputs, is it the map of `GoCacheMap`? | 2 callers on one disk or reading through; 1 caller writing through to each kind of remote; failures, crashes |
| `gocache_s3` | `MCGoCacheStore` | Does a put to a bucket that can move objects succeed when nothing fails? It does not. | 1 caller |
| `server` | `MCGoCacheServer` | Are answers in order and complete, and does the process end? | all inputs of 3 requests of 7 kinds; a channel of 1; signal and end of the client at any moment |
| `plan` | `MCBootstrapPlan` | Is the order right whatever is called, are failures explained, does every call return? | 3 steps, all plans of up to 3 dependencies, factories for all or none |
| `host` | `MCBootstrapHost` | Has a completed run done all it was to do, does the next change nothing, do editors do as told? | five plans of the addons and each editor alone over all texts of up to 3 of 5 lines; 3 runs |
| `stack` | `MCStack` | Does a command end with what it was asked for, are all errors reported, is the order of stopping kept? | one start (2 kinds) and one stop (3 kinds), repeated, overlapping, killed; 4 resources, 2 may fail, 1 crashes |
| `services` | `MCStackServices` | Do the services the addons register start, in the order they list their resources? | all addons' services with two examples, 2 modes, start and stop in turn, nothing fails |
| `app` | `MCApp` | Which programs start, and do their commands leave the modes, builds and credentials that were asked for? | all pairs of 28 calls, all 512 ways three strategies may supersede one another, 2 examples; 2 processes, 4 inodes, 2 certificates |

Why the bounds are enough for what can go wrong:

* `child`: two processes are what a stale restart needs: the second runs over the first. A third adds only
  longer queues for the exit channel, of capacity 1, which two already fill. Two inits tell "the next"
  from "the last", which no restart is needed for. One health check in flight fills the result channel.
* `daemon_live`, `resource`: two requests make every race between a check and a send, and a request against Terminate or shutdown;
  two children of one name make a successor that is put while its predecessor ends, which is
  where `Reap` removes the wrong entry. `Symmetric` is used in runs without liveness only, and so is `Essence`, a view that forgets
  what a thread or a client that is at rest remembers of its last call, which nothing reads again.
* `gocache`: two pieces per output tell a truncated file from a whole one and let a descriptor's offset pass the end of
  a file that was truncated under it. Two callers are the least that race; the interesting name is one, with the empty output, which is special, beside it.
* `server`: three requests fill the channel of one while a third waits, and put a close before, between and after others.
* `plan`: three steps with three dependencies make every circle of one, two or three, one that hangs off another,
  and a default that asks for a default. Circles that meet need the same three nodes.
* `host`: three runs are one that is cut off, one that completes and one that is to change nothing; three lines hold every match and a line
  around it.
* `stack`: two resources per stage tell the order within one and fill the channel of one with a second error; two stages are all there
  are. Two processes that repeat their commands reach every state of the world that failures, crashes and killed commands leave behind.
* `app`: what one addon asks of another is a matter of two calls and their order; strategies are ordered by pairs, and three of them make
  a circle that a search enters from outside. Two processes make every race for the file and the kubeconfig. Two certificates tell the old from the new.

No run needs a state constraint: bounds are in guards (`Spare` on puts, `MaxProbes` on health checks, `MaxRuns`, `MaxCerts`, the free
ones of `Inodes`;
`checks` saturating at `SlowAfter` + 1, as beyond it only "greater" is looked at). `CHECK_DEADLOCK FALSE` is said
where the system really may stop: a deleted child whose processes are gone, an exited daemon, a plan that panicked,
an app that has run the commands it was given, a command that nothing follows.

## 4. Properties

Each is stated in a comment before its definition. The ones worth arguing about:

* `SingleProcess`: until a restart fires over a running process, an exit in the channel is that of
  the current process. The exit channel does not say whose exit it carries, so the
  whole manager depends on it.
* `InitsBeforeMain`: in any interleaving of commands, stale timers and exits.
* `ExitLeavesNothing`: what is left when the daemon exits is a child whose entry the end of its namesake removed, or, after a forced close
  only, one put after the last Terminate looked, or one that a Terminate request took and still waits for: real paths of the code.
* `PutIsThere`: that `PutChild` keeps the mutex over its send is what keeps others from the child until it is answered.
* `StartIsSynced`: the ping after a start is enough to show the started status.
* `Replaced`: across two clients' loops of calls.
* `DrainEnds`: a daemon told to end does so, but for a forced close and for a Terminate that comes between the end of a delete and the
  removal of its entry (daemon.go:97): it waits for a child whose manager is gone.
* `EntryResolves`, `MapSpec`: over failures, crashes and processes that end at any point of a put.
* `AnswersInOrder`, `RequestsBeforeClose`, `RequestsAnswered`, `ServerEnds`: over all orders in which three groups of goroutines and two
  contexts end.
* `OrderRespects`, `RunRespects`, `FailureExplained`, `DefaultsAsWanted`: over any sequence of calls of a plan.
* `AllAsAsked`, `ReadyWhenReached`, `RerunChangesNothing`: they relate a machine that earlier runs left half done to what a later run, whose
  context is empty, makes of it.
* `EditedAsTold`: a reference definition over the whole text, against editors that see one line at a time. `Misleads` says of which texts
  the editor with lines to find above its own is wrong: those where a match begins inside an attempt that failed.
* `StopReportsAll`: over all orders in which goroutines end and send.
* `EndsAsAsked`, `DependentsFirst`: they relate the world, with other commands and failures in it, to what a
  command was asked for, and say which disturbance makes the code promise less. `MayFade` is
  the one case in which a start that waits, undisturbed, may still leave something "coming": a service listed before the workload behind it.
* `StartSucceeds`: the order in which a service lists its resources is all that stands between a start and a failure that no call gave cause for.
  `AllInOrder` has the rules of that order.
* `CommandsEnd` (of `Stack`): `Futile` spells out the starts that wait for ever, which the code does not rule out.
* `StartupComplete`: if and only if, over every program of two calls; what makes a program sound is stated apart from how calls do it.
* `ModesAsSet`, `SetUpSuffices`, `BuiltBeforeStart`: over two processes, killed at any step, and power failures.

### Fairness

`PMChild`: weak fairness of each kind of event the select loop receives (a select picks at random among ready
cases), of timers that are armed, of the waiters' sends, of the return of a health check, which has a timeout, and of
the death of a process sent SIGKILL. Nothing is assumed of commands nor of a process not killed: it may ignore SIGTERM and
run for ever.

`PMDaemon`: strong fairness of steps that wait for the mutex or for a manager to receive, since the runtime serves
both first come first served while other requests keep the manager busy; weak fairness of the rest. Nothing is assumed of clients.
`child.Wait` is assumed to end only for a child that never had two processes.

`BootstrapPlan`: a method that was called goes on (`WF_vars(Method)`): it is sequential code.

`GoCacheServer`: weak fairness of the reader, the writer and each request's goroutine while the process runs: goroutines run, and
a call of the storage comes to an end. Nothing is assumed of the go command nor of signals.

`Stack`: a command goes on, and a resource that was started gets ready some time (`Comes`), without which no start need end; cancellation and
failing calls of Ready (`LookFails`) are not fair, as they would end every wait.

`GoCacheStore`, `PMResource`, `BootstrapHost` and `App` state safety only: a network call, a child, a package manager or a user may take for ever.

## 5. Proofs

`tlapm` proves the following for every value of the constants that meets the named assumptions, which TLC evaluates on every run. Every
safety property of the runs is stated by a theorem, but for those named at the end of this section.

**`PMChildProofs`** (any set of definitions, any number of processes; `DefsAssumption`, `ProcsAssumption`, `ProbesAssumption`).
`StatusInv` is `TypeOK`, `ActiveMeansProcess`, `StatusShowsProcess`, `InitsBeforeMain` and `CurrentExec`, which
says that a process or a pending restart is about an exec that exists; none of the four is inductive without the others:
an exit advances `curExec` and indexes the table with it. `StatusInv` is closed under every step by itself, in
particular under a restart that fires over a running process. `ProcessInv` adds `SingleProcess` and
`NeverRestartsNeverDoubles`; it is what the panic depends on. From the two follow the theorems
`TypeCorrect`, `ActiveMeansProcessCorrect`, `StatusShowsProcessCorrect`, `InitsBeforeMainCorrect`, `SingleProcessCorrect`,
`NeverRestartsNeverDoublesCorrect`, `NeverRestartsNeverPanics`, `NoRestartStaysDownCorrect`, and with one more induction each
`StopHasDeadlineCorrect` and `CrashHasRetryCorrect`. `LifecycleImplemented` shows every step of `PMChild` to be
a step of `PMLifecycle` or to leave its variables alone: this is what lets `PMDaemon` keep one life cycle per child.
What is proved of every instance is not repeated by a run, except for what the mutants are to break.

**`PMDaemonProofs`** (any number of children, names, definitions and requests; the assumptions of `PMDaemon` and `PMResource`).
`ExitLeavesNothing` speaks of the end of a process, so its invariant has to follow everything that can leave a child behind:
where a handler can be by its operation (`HandlersInv`); that the manager of every child is in the map, or a Terminate took the child
out, or the end of a namesake did (`MapInv`); that a Terminate waits for what it took (`TakenInv`); and that after a close with no request in flight
nothing is put any more, so that the last Terminate finds all there is (`CloseInv`). `StartsInv`, by which a start that is not yet
handled has a request that still has to ping, gives `StartIsSynced`. `FreshInv` says of a put that has the mutex that its child is
under its name, stopped, with the ping at most to take, and that no other request and no Terminate has it: whoever wants it has to wait for the mutex (`PutIsThere`). The clients need `CInv`: while the child a client met is there, it is what the map has under its name, no
namesake of it is alive, and the answers the client got so far are those this child gives; `ReplacedCorrect` follows.

**`GoCacheServerProofs`** (any input, any number of requests, a channel of any size; `MaxRequestsAssumption`, `BufferAssumption`).
`AnswersInOrder` is about the output only. The invariant follows an answer on its way, from the goroutine through the channel and the writer
to the output: it is at one place at most, and there because it was sent (`WayInv`), what was sent stays while the process runs, and behind
the answer to a close there is none (`LastInv`), since it is sent only when no goroutine is left (`ReaderInv`, `TaskInv`).

**`GoCacheStoreProofs`** (any actions and outputs, setups and threads; `SetupsAssumption`, `ActionsAssumption`).
`EntryResolves` is far from inductive: an entry resolves because its writer was let in only when the output was stored, which
its writer stored because of what it had written piece by piece. `TheirsAlone` and `TempInv` say that a name that was not raced for has one
writer past opening the temporary file at most, and that the file has what this writer has written; `FilesWhole` that a file with a final name
is whole and flushed; `EntriesInv` that an entry names an output offered for its action; `ResolveInv` that an entry, there or about to be, has
its output, with the exceptions of raced names and of what sftp removed; `CallInv` and `WaitInv` what a call knows at each pc. The
actions are brought to three summaries (`WriteStep` of a writer, `CallStep` of a call, `AbandonStep` of a crash or an end), and every conjunct is proved
once for each. With the invariant, `MapImplemented` shows that every step is one of `GoCacheMap` or leaves its variables alone.

**`BootstrapPlanProofs`** (any names, any set of catalogs; `CatalogsAssumption`). `OrderRespects` is inductive given `TypeOK` (the
lists are disjoint and without repeats) and `RunInv` (Run is under way only with nothing pending). The step that matters is
`ResolveInv`: a step put in order has everything that is to precede it in order, because no pending step is to; and
`InsertInv`: a step added later has no "before" once anything is in order. `RunRespectsCorrect` follows.
`FailureExplained` needs to know that a search which finds nothing has missed nothing. `SearchInv`: the path goes from each name to one it
waits for; of what a name on the path waits for, all is left, done, or next on the path; and as long as none was found, no name that is done is in a
circle. A name is done only when all it waits for is, so that a circle through it would have had to close on the path before.
`DefaultsAsWanted` has `FillInv`: every default added is wanted by a step there, and every step passed by the loop has its defaults.

**`BootstrapHostProofs`** (any lines, texts, editors, sources, plans and machines; `EditorsAssumption`, `FilesAssumption`, `StepsAssumption`, `PlansAssumption`). `ReadingInv` says of each editor, at each line,
that it either still looks, and then has given the text unchanged and none of its places is among the lines read, or has found, and then
what it gave with the rest of the text is the whole it was told to make. The editor with previous lines counts matches, and
`Matches` of the lines read is equivalent to its count for the texts that do not mislead it only. `FileWhole` needs `WayInv`: a temporary file is flushed before it is renamed.
`RebootTold` and `AllAsAsked` speak of the end of a run, and their invariants of every step before it. `PlanInv`: what is done did not wait for
what is left; that there is a first place whose turn it is follows from the order of the numbers being well-founded (`FirstIn`).
`PackagesInv`: what is pending, installed or removed is of the plan. `ToldInv`: until now, the reboot is called for exactly when something changed, where a file
being edited counts as what it was (`Base`). Without `Tidy` it fails: a package one step installs and another removes
leaves no change behind and a reboot that was called for. `DoneInv`: what a step that is done is there for is so or noted (`Achieved`), and of what is noted the step that
does it is left, since it waits for whoever notes it (`Ordered`); of `if available`, that no later update changes what there is; of an edit, that its editor would leave the
file as it is, for which `ToldTwice` shows that what an editor was told to make of a text it makes of the result again.
`RerunChangesNothing` takes that over the end of the run. `KnownInv`: after an update, and until a source is written, apt knows what there is, so that a step that asked
what there is (`if available`, `first available`) would ask the same again. `QuietInv`: after a run that was completed and until others touch the machine, every step has
nothing left to do (`Stands`), what is pending is there already, and no edit comes to replace the file. Each step of a later run, killed or not, is then
one that changes nothing (`Calm`), which in turn keeps `QuietInv`. Both fail for a plan that asks before it updates: the rerun then finds a package the first run could not.
`ReadyWhenReached` needs what supplies a step to come before it (`Supplied`). That is more than to be waited for: which step has its turn is a matter of the
places in the plan too, and the login that "Verify gcloud auth" looks for comes first though nobody says so, since a default step is the last of those
that may run. `ComesFirst` asks for it over all sets of steps that may be left (`Stages`), and `StageInv` says that the steps left are one of them. `ListsInv`: only
the plan's sources are there, so that the step that writes one, whole again, is before the update that reads it; `OfferedInv`: after an update apt knows what the sources
written before it offer; `NotedInv`: what is pending is wanted by a step that is done, or was known when no update was left; `InstalledInv`: what was
pending at an install is there.
The hypotheses of the four theorems are these rules, of the plan at hand (`Rules` is all but `Supplied`); nothing is assumed of the machine, of earlier runs or of others,
and `MCBootstrapHost` assumes, so that TLC checks, which of its plans keep to them: all but two, that edit a file twice or look for two lines above.

**`StackProofs`** (any services, resources, parts, options and number of commands; `KindAssumption`, `PartsAssumption`,
`ClusterAssumption`, `OptionsAssumption`). `Good` is of one command's record: its type, the capacity of the channel, and `Accounted`, by which every failure of a stop
is received, in the channel or about to be sent. `StopReportsAll` is not inductive without it: it speaks of the end only.
Each step of a command keeps its own record good (`OneGood`), the others' are changed by `Disturb` at most.
`DependentsFirst` and `EndsAsAsked` relate records to the world. `Overlap` says that commands under way at once know of each other, so that
a command that is not disturbed may count on nobody else; `StopInv`, that what a stop is done with in this stage, and all of the stage before, is gone, and that
without goroutines in parallel it goes from the end to the front; `StartInv`, that what a start is done with is as all the parts of the
resource want it (`AsWanted`) and what was looked at is up (`Seen`), through everything that appears, fades or falls by itself meanwhile. The proof of `Seen`
does not go through for a service whose workload is looked at after it, and TLC shows the state: this is `MayFade`.
`StartSucceeds` is proved of services that keep to the rules of `AllInOrder`, by which a start waits for kubernetes before it asks anything of it and for a server before
it makes databases in it, starts before it waits, looks at a service's workloads before the service, comes back to nothing it waited for, and does not want what another part does not. TLC evaluates them on the lists of the addons and the
examples (`ServicesKeepToOrder`). `HoldInv` then says that all a start waited for is up: what it rests on was waited for before it (`ObtainedRests`), so that it does not
fade by itself, and no later part touches it (`HoldNext`); hence no call finds its server gone (`CallsWork`) and no look an error (`LooksFine`).

**`AppProofs`** (any number of processes, any services and programs; `InodesAssumption`, `SameProcesses`, `ScenariosAssumption`).
`ModesAsSet` is proved of `Settings` and `SetUpSuffices` of `K3s`, each for any processes that take its steps in any order: one process saves at
most, unless they came `together`, what it has loaded is what was set, and the file and the one it may be again after a power failure are
flushed (`OneSaves`, `LoadedAsSet`, `SavedSoFar`, `FileAsSet`); the server's data, k3s.yaml and what was read from it agree, and a removal has the
cluster to itself (`SameCerts`, `RemovedAlone`, `RestKept`, `MergedStays`). `AppImplements` shows that an app, with all its
commands, takes no other step on their variables, so that both hold of it. `BuiltBeforeStart` is proved of any services, repositories and
strategies as long as the strategies are in the order they are to be in (`StrategiesInOrder`, the part of `StartupComplete` that says what `Resolve` is to find):
the first that says something is then the right one (`RightFound`), what its builder does not refuse covers what it was asked for, but for the
directories npm and pnpm pass over (`HookCovers`, `ServicesCovers`, `PassedOver`), and a start that builds has built, of what is to run from its source, all that is not left to be built (`BuiltBy`).

Only model-checked: liveness (`StopCompletes`, `CrashIsRetried`, `HealthKeepsBeingChecked`, `RequestsEnd`, `DrainEnds`,
`RequestsAnswered`, `ServerEnds`, `CallsEnd`, `CommandsEnd`), which is beyond the prover; and `StartupComplete` of `App`, which
is about the programs' own calls and not true of any program, and says of the order of strategies (`Resolve`) what a recursive function computes, of
which the prover cannot do inductions.

## 6. What the models show of the code

Two runs end in a violation, of what a line of the repository says:

* `child_panic`: a stop or a start does not cancel a pending restart, which then fires in any state. Over a running process it makes two
  processes with one `curProc`, and the second exit reaches the panic that takes down the daemon.
* `gocache_s3`: a move that succeeded is followed by the copy that is meant for buckets that cannot move: its source is gone, and the put fails.

Met on the way, and followed by the models without a run of their own, each an exception some property spells out or a case
the setups leave out by name:

* Process manager. The kill timer of a stop that ended early is not disarmed, and may kill the process of a later start (`KillFires`).
  A health check that comes back late is taken for the current run (`HealthResult`).
  `DeleteChild` lets a child in error or init-error pass its check, but the manager ignores the delete there: the
  request then waits until something else ends the child.
  `StopChild` waits for "stopped" only, and `Terminate` does not wait for "init-error": each may poll for ever.
  `Start` of a one-shot that is done is refused.
  `Reap` removes whatever is under its child's name: after a Terminate, a successor may be removed from the map and run on.
  A Terminate request takes the children out of the map before it stops them; when one takes longer than the five seconds of
  `Shutdown`, the daemon's own Terminate finds nothing and the process exits; a put that was waiting may make a child after that (`ExitLeavesNothing`).
* Go cache. Writers of one output share a temporary file that each of them truncates, though protocol.go:26 rules out that a file that was
  answered loses its bytes (`MapSpec` excepts `raced`). The sftp rename removes its target first (`lost`). After a failed rename of an output `os.Remove` is given a path
  outside of the cache's directory. The output without bytes is put but never hit. An upload to s3 whose service fails waits for the pipe
  (writer.go:95). In which order remotes are configured decides which of them is used.
* Bootstrap. `debugCircularDeps` does not "find them all": circles through nodes another search visited are missed. That one is
  found whenever there is any is `FailureExplained`. `debugMissingDeps` also names steps that are there and pending.
  A prompt whose valid value is in the context already is saved again, which panics (prompt.go:247, against :28). Whether sudoers is installed is
  decided by a comparison with the binary's path (k3s/install.go:126), and what it allows is the default path only.
  With two or more previous lines the editor of replace-line.go misses a match that begins in another (`Misleads`; replace-line.go:10 speaks of any).
* Stack. `gdev stop --exclude` is said to match resources by suffix (cmd.go:61) and compares names of services (`InScope`).
  A start undoes nothing when it fails; a docker container it leaves is in the way of the next start (`Started`).
  A start removes the container of a service that runs in another mode, and then waits until the container is not ready; its Ready is
  true whatever became of it, so that `start` never returns: `examples/stack` is such a stack (`Futile`).
  Two starts in different modes at once, or a resource that two modes list, may keep a start waiting for ever (`CommandsEnd`).
  A stop while the cluster is down fails on every Kubernetes resource.
  A start looks at each resource once, in order: a service it found ready may have lost its endpoint when the start ends, because the deployment
  behind it is looked at later and may fail until then (`MayFade`).
  `WithWaitReady` without a node port never gets ready, nor does valkey under another name, which as infrastructure nobody waits for. mariadb's init-dbs takes any HY000 error for "already exists".
  `EditFileUnsafe`, which nothing in the repository calls, panics on a file that is not there (edit-file.go:106, against :95); this is left out.
* App. `gdev config mode` warns of an unknown service and then asks it for its modes (cmd.go:142), a nil dereference (`ModeRefused`).
  An addon that is configured by another's initializer is enabled and never initialized (pending.go:15).
  Valkey registers services and does not configure the stack that starts them. Who could not load the configuration saves the defaults over it; two who
  save at once share the temporary file. The kubeconfig is truncated in place. Uninstalling does not tell the daemon, which
  starts the server again. The entries of a context are made in the order of a map.
  `root2idx` is never filled, and the hook's `Contains("")` is never true: a service at the root of its repository
  is built as a directory of it. `pnpm-workspace.yaml` is read as JSON; a directory that is no workspace is passed over, by pnpm
  always and by npm as long as another one is a workspace, and the build succeeds: the service there is started unbuilt (`BuiltBeforeStart` says so). mage does not look at directories.

## 7. Not modelled, and the plan

Of what is only model-checked, what `StartupComplete` says of initialization could still be proved under rules of the app like those `AllInOrder` has of its services.

Left out, and why: the process manager's client, autostart and tasks, the command line, diagnostics and progress display (plumbing and formatting, with no
state that outlives a call); URIs, credentials and flags of the cache's remotes; containerd, images and the github client (calls of external services);
the libraries under `lib` but for `config` (wrappers); the template, and the generated sample program of the full-stack example.
Within the modelled components: logging and wording; permissions and checksums of files; versions of packages, images and releases; the text of
apt's stanzas; service accounts and temporary logins of gcloud; what hooks of addons other than build do; the mounts and links k3s leaves.
