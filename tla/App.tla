--------------------------------- MODULE App ---------------------------------
(***************************************************************************)
(* An app made with gdev, from its main program on: what it configures,    *)
(* the initialization of the addons, the lock, and then its commands, each *)
(* a process: modes, builds, starts and stops of the stack, and the set-up *)
(* and removal of the cluster.                                             *)
(*                                                                         *)
(* Every process of an app does the same until the lock, so that this is   *)
(* shown once.  What a start or stop does to the resources is in Stack.    *)
(***************************************************************************)
EXTENDS Addons, Build, Settings, K3s

CONSTANT
  Scenarios   \* programs, with what they meet and the commands they are given

ASSUME SameProcesses == Clients = Procs

\* The commands a process may be given; other names than those of services are free.
Commands ==
  [is : {"config mode"}, service : Services, mode : Modes]
  \cup [is : {"start"}] \cup [is : {"stop"}, infra : BOOLEAN]
  \cup [is : {"build"}, services : SUBSET STRING]
  \cup [is : {"build"}, services : {{}}, root : STRING, strategy : STRING]
  \cup [is : {"bootstrap k3s"}, does : {"install", "setup", "uninstall"}]

ASSUME ScenariosAssumption ==
  \A s \in Scenarios : s.content \in Contents /\ s.asks \in [Procs -> Seq(SUBSET Commands)]

VARIABLES
  scenario,      \* the program, whether it is sound, and what is there
  todo,          \* what is left to be done before the lock
  phase,         \* "starting", "locked" or "panicked"
  enabled,       \* the names of the addons, in the order they were registered
  pending,       \* those to be initialized
  initialized,   \* those that have been
  onces,         \* the once-functions that have been called
  added,         \* what has been added to the registries
  order,         \* the order of strategies
  given,         \* for each process, its command, and those left
  run            \* for each process, where it is in its command

startup == <<todo, phase, enabled, pending, initialized, onces, added, order>>
vars == <<scenario, startup, given, run, settings, cluster>>
Machine == UNCHANGED <<scenario, given, run, settings, cluster>>

NoCommand  == [is |-> "none"]
NotRunning == [at |-> "off", entries |-> {}, dirs |-> <<>>, built |-> {}]

\* cmd.Main, and what the packages add by themselves as the program is loaded.
Main == << <<"initialize">> >>
PackagesInit == <<AddCommands("addons"), AddCommands("config")>>

Init ==
  /\ scenario \in Scenarios
  /\ todo = PackagesInit \o scenario.program \o Main
  /\ phase = "starting" /\ enabled = <<>> /\ pending = <<>> /\ initialized = {}
  /\ onces = {} /\ added = <<>> /\ order = <<>>
  /\ given = [p \in Procs |-> [command |-> NoCommand, left |-> scenario.asks[p]]]
  /\ run = [p \in Procs |-> NotRunning]
  /\ SettingsInit(scenario.content) /\ ClusterInit

(***************************************************************************)
(* Up to the lock.                                                         *)
(***************************************************************************)
Next1(what) == phase = "starting" /\ todo # <<>> /\ Head(todo)[1] = what
Done(t) == todo' = t \o Tail(todo) /\ UNCHANGED phase
Proceed == Done(<<>>)
Panic == todo' = <<>> /\ phase' = "panicked"
ProceedIf(c) == IF c THEN Proceed ELSE Panic

CheckNotInitialized ==
  /\ Next1("check")
  /\ ProceedIf(Head(todo)[2] \notin initialized)
  /\ UNCHANGED <<enabled, pending, initialized, onces, added, order>> /\ Machine

RegisterIfNeeded ==
  LET a == Head(todo)[2] IN
  /\ Next1("register") /\ Proceed
  /\ IF a \in ToSet(enabled) THEN UNCHANGED <<enabled, pending>>
     ELSE enabled' = Append(enabled, a) /\ pending' = Append(pending, a)
  /\ UNCHANGED <<initialized, onces, added, order>> /\ Machine

CallOnce ==
  /\ Next1("once")
  /\ Done(IF Head(todo)[2] \in onces THEN <<>> ELSE Head(todo)[3])
  /\ onces' = onces \cup {Head(todo)[2]}
  /\ UNCHANGED <<enabled, pending, initialized, added, order>> /\ Machine

Registered(kind) == {e[2] : e \in {x \in ToSet(added) : x[1] = kind}}
AllServices == Registered("infra") \cup Registered("service")

\* What a registry refuses.
Clashes(kind, x) ==
  \/ kind \in {"entry", "step"} /\ x \in Registered(kind)
  \/ kind \in {"provider", "collector"} /\ Registered(kind) # {}
  \/ kind = "strategy" /\ x.name \in Names(Registered(kind))
  \/ kind \in {"infra", "service"} /\ x.name \in Names(AllServices)

AddTo ==
  LET kind == Head(todo)[2]  x == Head(todo)[3] IN
  /\ Next1("add") /\ ProceedIf(~Clashes(kind, x))
  /\ added' = IF Clashes(kind, x) THEN added ELSE Append(added, <<kind, x>>)
  /\ UNCHANGED <<enabled, pending, initialized, onces, order>> /\ Machine

Demand ==
  LET kind == Head(todo)[2] IN
  /\ \/ Next1("need") /\ ProceedIf(Head(todo)[3] \in Registered(kind))
     \/ Next1("need not") /\ ProceedIf(Head(todo)[3] \notin Registered(kind))
     \/ Next1("need any") /\ ProceedIf(Registered(kind) # {})
  /\ UNCHANGED <<enabled, pending, initialized, onces, added, order>> /\ Machine

\* Initialize goes through the addons there are when it begins.
Initialize ==
  /\ Next1("initialize")
  /\ Done(Each(LAMBDA a : <<"addon", a>>, pending) \o << <<"all initialized">> >>)
  /\ UNCHANGED <<enabled, pending, initialized, onces, added, order>> /\ Machine

InitializeAddon ==
  LET a == Head(todo)[2] IN
  /\ Next1("addon")
  /\ Done(IF a \in initialized THEN <<>>
          ELSE InitializeOf(a, added) \o << <<"addon initialized", a>> >>)
  /\ UNCHANGED <<enabled, pending, initialized, onces, added, order>> /\ Machine

AddonInitialized ==
  /\ Next1("addon initialized") /\ Proceed
  /\ initialized' = initialized \cup {Head(todo)[2]}
  /\ UNCHANGED <<enabled, pending, onces, added, order>> /\ Machine

AllInitialized ==
  /\ Next1("all initialized") /\ Proceed /\ pending' = <<>>
  /\ UNCHANGED <<enabled, initialized, onces, added, order>> /\ Machine

Strategies == Registered("strategy")

resolveStrategyOrder ==
  LET found == Resolve(Strategies) IN
  /\ Next1("resolve") /\ ProceedIf(~found.cycle)
  /\ order' = found.order
  /\ UNCHANGED <<enabled, pending, initialized, onces, added>> /\ Machine

LockCustomizations ==
  /\ phase = "starting" /\ todo = <<>> /\ phase' = "locked"
  /\ UNCHANGED <<todo, enabled, pending, initialized, onces, added, order>> /\ Machine

(***************************************************************************)
(* A process and its command.                                              *)
(***************************************************************************)
At(p, at)  == run[p].at = at
Go(p, at)  == run' = [run EXCEPT ![p].at = at]
Frozen     == UNCHANGED <<scenario, startup, given>>
OnlyRun    == Frozen /\ UNCHANGED <<settings, cluster>>
OnlySettings == Frozen /\ UNCHANGED cluster
OnlyCluster  == Frozen /\ UNCHANGED settings

\* The context entries that look at anything; the others only make a client.
Entries == Registered("entry") \cap {"kubeconfig", "k8s client"}

Begins == [ c \in {"config mode", "start", "stop", "build", "bootstrap k3s"} |->
  CASE c = "config mode" -> "mode" [] c = "start" -> "context" [] c = "stop" -> "context"
    [] c = "build" -> "command" [] OTHER -> "cluster" ]

\* config.Initialize comes first, whatever the command.
Begin(p) ==
  /\ phase = "locked" /\ At(p, "off") /\ given[p].left # <<>>
  /\ \E c \in Head(given[p].left) :
       /\ c.is \in Registered("command")
       /\ given' = [given EXCEPT ![p] = [command |-> c, left |-> Tail(given[p].left)]]
       /\ run' = [run EXCEPT ![p].at = Begins[c.is], ![p].entries = Entries]
  /\ Load(p)
  /\ UNCHANGED <<scenario, startup, cluster>>

Arg(p)    == given[p].command
Is(p, is) == At(p, Begins[is]) /\ Arg(p).is = is

\* The process ends: its command has, or it is killed.
Exit(p) ==
  /\ ~At(p, "off")
  /\ given' = [given EXCEPT ![p].command = NoCommand]
  /\ run' = [run EXCEPT ![p] = NotRunning]
  /\ Abandon(p) /\ LeaveCluster(p)
  /\ UNCHANGED <<scenario, startup>>

PowerFails ==
  /\ phase = "locked" /\ \E p \in Procs : ~At(p, "off") \/ given[p].left # <<>>
  /\ given' = [p \in Procs |-> [given[p] EXCEPT !.command = NoCommand]]
  /\ run' = [p \in Procs |-> NotRunning]
  /\ LosePower /\ ClusterLosesPower
  /\ UNCHANGED <<scenario, startup>>

(***************************************************************************)
(* "config mode <service> <mode>".                                         *)
(***************************************************************************)
Plain(m) == m \notin {"debug", "disabled"}
Named(name) == {s \in AllServices : s.name = name}
HasModal(name, m) == \E s \in Named(name) : m \in s.modal

\* A service that is not known is warned about, and looked into.
ModeRefused(p) ==
  LET c == Arg(p) IN
  /\ Is(p, "config mode") /\ Plain(c.mode) /\ ~HasModal(c.service, c.mode)
  /\ Go(p, IF Named(c.service) = {} THEN "panicked" ELSE "failed")
  /\ OnlyRun

ModeIs(p) ==
  LET c == Arg(p) IN
  /\ Is(p, "config mode") /\ (Plain(c.mode) => HasModal(c.service, c.mode))
  /\ conf[p].modes[c.service] = c.mode /\ Go(p, "ended")
  /\ OnlyRun

SetMode(p) ==
  LET c == Arg(p) IN
  /\ Is(p, "config mode") /\ (Plain(c.mode) => HasModal(c.service, c.mode))
  /\ Create(p, c.service, c.mode) /\ Go(p, "saving")
  /\ OnlySettings

SaveWrites(p) == At(p, "saving") /\ Write(p) /\ UNCHANGED run /\ OnlySettings
SaveSyncs(p)  == At(p, "saving") /\ Sync(p)  /\ UNCHANGED run /\ OnlySettings
SaveRenames(p) ==
  /\ At(p, "saving")
  /\ \/ Rename(p) /\ Go(p, "ended")
     \/ RenameFails(p) /\ Go(p, "failed")
  /\ OnlySettings

(***************************************************************************)
(* "start" and "stop": the context, in any order of its entries.           *)
(***************************************************************************)
InContext(p, e) == At(p, "context") /\ e \in run[p].entries
Got(p, e) == run' = [run EXCEPT ![p].entries = @ \ {e}]

K8sClient(p) ==
  /\ InContext(p, "k8s client") /\ MergeAt(p, "no")
  /\ ReadUser(p)
  /\ IF user.app # 0 THEN Got(p, "k8s client") ELSE Go(p, "failed")
  /\ OnlyCluster

NoKubeConfig(p) ==
  /\ InContext(p, "kubeconfig") /\ NoYaml(p) /\ Go(p, "failed")
  /\ OnlyRun

Merges(p) == InContext(p, "kubeconfig") \/ At(p, "merge")
MergeReads(p)     == Merges(p) /\ ReadConfigs(p)    /\ UNCHANGED run /\ OnlyCluster
MergeTruncates(p) == Merges(p) /\ TruncateConfig(p) /\ UNCHANGED run /\ OnlyCluster
MergeWrites(p)    == Merges(p) /\ WriteConfig(p)    /\ UNCHANGED run /\ OnlyCluster

KubeConfig(p) ==
  /\ InContext(p, "kubeconfig") /\ Merged(p) /\ Got(p, "kubeconfig")
  /\ OnlyCluster

HasContext(p, is) == Is(p, is) /\ run[p].entries = {}
HasCluster == "k3s" \in Names(AllServices)

StopStack(p) ==
  /\ HasContext(p, "stop") /\ Go(p, "ended")
  /\ IF Arg(p).infra /\ HasCluster THEN StopServer(p) ELSE UNCHANGED cluster
  /\ OnlyCluster

(***************************************************************************)
(* The hooks of a start: what is to be built for it.                       *)
(***************************************************************************)
Repos == scenario.repos
There(s) ==
  /\ s.root \in DOMAIN Repos
  /\ s.dir = "." \/ s.dir \in Repos[s.root].dirs
LocalServices(p) ==
  {s \in Registered("service") : conf[p].modes[s.name] = "local" /\ s.root # NoSource /\ There(s)}
Hooked == "build-before-start" \in Registered("hook")

Gather(p) ==
  /\ HasContext(p, "start")
  /\ run' = [run EXCEPT ![p].at = "build", ![p].dirs =
       [r \in {s.root : s \in {t \in LocalServices(p) : Hooked}} |->
          {s.dir : s \in {t \in LocalServices(p) : t.root = r}}]]
  /\ OnlyRun

Made(root, b, ds) == [root |-> root, tool |-> b.tool, dirs |-> ds]
Buildable(b) == b \notin {NoBuilder, Error}

\* The tool may fail as well.
BuildRoot(p) ==
  /\ At(p, "build")
  /\ \E r \in DOMAIN run[p].dirs :
       LET b  == DetectStrategy(order, Repos[r])
           ds == HookBuild(b, run[p].dirs[r]) IN
       \/ Go(p, "failed")
       \/ /\ Buildable(b) /\ ds # Refused
          /\ run' = [run EXCEPT ![p].built = @ \cup {Made(r, b, ds)},
                                ![p].dirs = [q \in DOMAIN @ \ {r} |-> @[q]]]
  /\ OnlyRun

StartInfra(p) ==
  /\ At(p, "build") /\ run[p].dirs = <<>>
  /\ IF HasCluster THEN KeepServer(p) ELSE UNCHANGED cluster
  /\ Go(p, "infra")
  /\ OnlyCluster

StartServices(p) ==
  /\ At(p, "infra") /\ (HasCluster => kube.server # 0)
  /\ Go(p, "ended")
  /\ OnlyRun

(***************************************************************************)
(* "build services <names>" and "build <directory>".                       *)
(***************************************************************************)
RootRepo(r) == IF r \in DOMAIN Repos THEN Repos[r] ELSE scenario.nowhere

BuildServices(p) ==
  LET names == Arg(p).services
      svcs  == UNION {Named(n) : n \in names}
      b(s)  == DetectStrategy(order, RootRepo(s.root))
      ds(s) == ServicesBuild(b(s), {s.dir}) IN
  /\ Is(p, "build") /\ names # {}
  /\ \/ Go(p, "failed")
     \/ /\ \A n \in names : Named(n) # {}
        /\ \A s \in svcs : s.root # NoSource /\ Buildable(b(s)) /\ ds(s) # Refused
        /\ run' = [run EXCEPT ![p].at = "ended",
                              ![p].built = {Made(s.root, b(s), ds(s)) : s \in svcs}]
  /\ OnlyRun

BuildDirectory(p) ==
  LET c == Arg(p)
      b == IF c.strategy = "" THEN DetectStrategy(order, RootRepo(c.root))
           ELSE TryStrategy(Strategies, c.strategy, RootRepo(c.root)) IN
  /\ Is(p, "build") /\ c.services = {}
  /\ \/ Go(p, "failed")
     \/ /\ Buildable(b)
        /\ run' = [run EXCEPT ![p].at = "ended", ![p].built = {Made(c.root, b, BuildAll(b))}]
  /\ OnlyRun

(***************************************************************************)
(* "bootstrap k3s install", "... setup" and "... uninstall".               *)
(***************************************************************************)
OnCluster(p, does) == Is(p, "bootstrap k3s") /\ Arg(p).does = does

Install(p) == OnCluster(p, "install") /\ InstallBinary(p) /\ Go(p, "sudoers") /\ OnlyCluster
AllowSudo(p) == At(p, "sudoers") /\ InstallSudoers(p) /\ Go(p, "ended") /\ OnlyCluster

SetUpStarts(p) == OnCluster(p, "setup") /\ KeepServer(p) /\ Go(p, "up") /\ OnlyCluster
SetUpWaited(p) == At(p, "up") /\ kube.server # 0 /\ Go(p, "merge") /\ OnlyRun
SetUpTimesOut(p) == At(p, "merge") /\ NoYaml(p) /\ Go(p, "failed") /\ OnlyRun
SetUpEnds(p) == At(p, "merge") /\ SetUpDone(p) /\ Go(p, "ended") /\ OnlyCluster

Uninstall(p) ==
  /\ OnCluster(p, "uninstall") /\ KillServer(p) /\ Go(p, "removing")
  /\ OnlyCluster
RemoveCluster(p) ==
  /\ At(p, "removing")
  /\ \/ (RemoveYaml(p) \/ RemoveData(p)) /\ UNCHANGED run
     \/ RemoveBinary(p) /\ Go(p, "ended")
  /\ OnlyCluster

\* The server, by itself.
Server == (ServerStarts \/ ServerWrites \/ ServerEnds) /\ UNCHANGED run /\ OnlyCluster

-----------------------------------------------------------------------------
Startup ==
  \/ CheckNotInitialized \/ RegisterIfNeeded \/ CallOnce \/ AddTo \/ Demand
  \/ Initialize \/ InitializeAddon \/ AddonInitialized \/ AllInitialized
  \/ resolveStrategyOrder \/ LockCustomizations

Process(p) ==
  \/ Begin(p) \/ Exit(p)
  \/ ModeRefused(p) \/ ModeIs(p) \/ SetMode(p)
  \/ SaveWrites(p) \/ SaveSyncs(p) \/ SaveRenames(p)
  \/ K8sClient(p) \/ NoKubeConfig(p) \/ KubeConfig(p)
  \/ MergeReads(p) \/ MergeTruncates(p) \/ MergeWrites(p)
  \/ StopStack(p) \/ Gather(p) \/ BuildRoot(p) \/ StartInfra(p) \/ StartServices(p)
  \/ BuildServices(p) \/ BuildDirectory(p)
  \/ Install(p) \/ AllowSudo(p) \/ SetUpStarts(p) \/ SetUpWaited(p) \/ SetUpTimesOut(p)
  \/ SetUpEnds(p) \/ Uninstall(p) \/ RemoveCluster(p)

Next ==
  \/ Startup
  \/ \E p \in Procs : Process(p)
  \/ PowerFails
  \/ Server

Spec == Init /\ [][Next]_vars

-----------------------------------------------------------------------------
\* Where something comes in what was added of a kind.
Place(kind, name) == CHOOSE i \in DOMAIN added : added[i][1] = kind /\ added[i][2].name = name
Before(a, b) ==
  \E i, j \in DOMAIN enabled : enabled[i] = a /\ enabled[j] = b /\ i < j

\* The addons that bring infrastructure that runs in the cluster, and its name.
InCluster == { <<"postgres", "postgres-17">>, <<"mariadb", "mariadb-11.8">>,
               <<"valkey", "valkey">>, <<"gcs", "fake-gcs-server">> }

\* Once the addons are initialized, strategies are tried before those they supersede.
StrategiesInOrder == phase = "locked" => InOrder(order, Strategies)

\* However a program orders and repeats its calls: it starts if and only if it asks for
\* nothing that clashes or is missing; then all addons are initialized, nothing is there
\* twice, strategies are tried before those they supersede, the cluster is started
\* before what runs in it if it was configured before, and there are commands for what
\* is to be started, unless nobody configured the stack (which valkey does not).
StartupComplete ==
  /\ phase = "panicked" => ~scenario.sound
  /\ phase = "locked" =>
       /\ scenario.sound
       /\ pending = <<>> /\ initialized = ToSet(enabled)
       /\ \A i, j \in DOMAIN added :
            added[i] = added[j] /\ i # j => added[i][1] \in {"factory", "option", "region", "source"}
       /\ StrategiesInOrder
       /\ \A x \in InCluster :
            x[2] \in Names(Registered("infra")) /\ Before("k3s", x[1]) =>
              Place("infra", "k3s") < Place("infra", x[2])
       /\ Names(Registered("infra")) \ {"valkey"} # {} /\ ~Has(added, "option", "no commands") =>
            {"start", "stop", "config mode"} \subseteq Registered("command")

\* The strategy to build a repository with: it has one of its own, and no other that
\* supersedes it does.
Right(tool, repo) ==
  \E n \in Names(Strategies) :
    /\ Detector(n, repo) # NoBuilder /\ Detector(n, repo).tool = tool
    /\ \A s \in SupersededBy(Strategies, n) : Detector(s, repo) = NoBuilder

Covers(x, s) ==
  /\ x.root = s.root /\ Right(x.tool, Repos[s.root])
  /\ \/ s.dir \in x.dirs
     \/ s.dir = "." /\ Repos[s.root].dirs \subseteq x.dirs
     \/ x.tool \in {"npm", "pnpm"} /\ s.dir \notin Workspaces(x.tool, Repos[s.root])

\* When the stack is brought up, every service that is to run from its source there has
\* been built from it, with the strategy for it, by this start; a build of services
\* that succeeds has built those it was asked for.  (But a directory that is no workspace
\* is passed over, by npm if another one is a workspace, by pnpm always: its service is
\* started as it is.  mage does not ask for the directory.)
BuiltBeforeStart ==
  \A p \in Procs :
    /\ At(p, "infra") /\ Hooked =>
         \A s \in LocalServices(p) : \E x \in run[p].built : Covers(x, s)
    /\ At(p, "ended") /\ Arg(p).is = "build" =>
         \A n \in Arg(p).services : \A s \in Named(n) :
           There(s) => \E x \in run[p].built : Covers(x, s)
=============================================================================
