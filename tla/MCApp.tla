-------------------------------- MODULE MCApp --------------------------------
(* The programs and scenarios the run of App is checked for. *)
EXTENDS App

MCAlphabetical == <<"a", "b", "c", "go-build", "mage", "npm", "rush">>

\* A repository with some files at its root, and the directories "x" and "y".
Repo(files) == [files |-> files, broken |-> {}, workspaces |-> {}, packages |-> {},
                projects |-> {}, dirs |-> {"x", "y"}]
Nowhere == [Repo({}) EXCEPT !.dirs = {}]
Alone   == [root \in {} |-> Nowhere]

Asks(p, q) == [n \in Procs |-> IF n = "p" THEN p ELSE q]
Scenario(program, sound, content, repos, asks) ==
  [program |-> program, sound |-> sound, content |-> content, repos |-> repos,
   nowhere |-> Nowhere, asks |-> asks]
Starting(program, sound) == Scenario(program, sound, Nothing, Alone, Asks(<<>>, <<>>))

-----------------------------------------------------------------------------
\* Programs of two calls, and of all the calls of an example.
Odd == AddService(Svc("svc1", NoSource, ".", {"default"}))
Calls == [
  stack |-> stack(<<>>), quiet |-> stack(WithoutDefaultCommands),
  golang |-> golang(<<>>), nodejs |-> nodejs(<<>>), docker |-> docker(<<>>),
  containerd |-> containerd(<<>>), bare |-> k3s(<<>>, dockerK3SProvider),
  k3s |-> k3s(WithProvider(dockerK3SProvider), dockerK3SProvider),
  k3sc |-> k3s(WithProvider(containerdK3SProvider), containerdK3SProvider),
  postgres |-> postgres(WithService("postgres")), mariadb |-> mariadb(WithService("mariadb")),
  valkey |-> valkey(WithService("valkey")), gcs |-> gcs(WithK8SService),
  client |-> gcs(<<>>), gcloud |-> gcloud(<<>>), skip |-> gcloud(WithSkipDefaultLogin),
  tailscale |-> tailscale(<<>>), asdf |-> asdf(<<>>), uv |-> uv(<<>>),
  gocache |-> gocache(<<>>), defaults |-> gocache(WithDefaultRemotes("s3")),
  http |-> gocacheHTTP(<<>>), s3 |-> gocacheS3(<<>>), region |-> gocacheS3(WithRegion),
  diags |-> diags(<<>>), sources |-> diags(WithSources), collector |-> diags(WithCollector),
  service |-> <<Odd>>, npm |-> build(WithStrategy("npm", {})), init |-> Main ]

\* What two calls have to be for the program to be sound.
SoundCalls(a, b) ==
  /\ "bare" \notin {a, b} \/ a \in {"k3s", "k3sc"}
  /\ ~({a, b} \subseteq {"k3s", "k3sc"})
  /\ "gocache" \in {a, b} => {a, b} \cap {"http", "s3", "region"} # {}
  /\ "defaults" \in {a, b} => a \in {"s3", "region"}
  /\ "s3" \in {a, b} => "region" \in {a, b}
  /\ {a, b} \cap {"diags", "sources", "collector"} # {} => {a, b} = {"sources", "collector"}
  /\ ~(a = b /\ a \in {"service", "npm", "gcs"})
  /\ ~({a, b} = {"npm", "nodejs"})
  /\ ~(a = "gcloud" /\ b = "skip") /\ ~(a = "skip" /\ b = "skip")

Pairs == {Starting(Calls[a] \o Calls[b], SoundCalls(a, b)) :
            a \in DOMAIN Calls \ {"init"}, b \in DOMAIN Calls \ {"init"}}
Twice == { Starting(Calls.docker \o Main \o Calls.postgres, FALSE),
           Starting(Calls.docker \o Main \o Calls.docker, FALSE),
           Starting(Calls.docker \o Main \o Calls.uv, FALSE),
           Starting(Calls.docker \o Main \o Calls.golang, TRUE) }
Examples == { Starting(CustomCommands, TRUE), Starting(Gdev, TRUE) }

\* Every way three strategies may supersede one another.
Supersedes(s) ==
  build(WithStrategy("b", s["b"]) \o WithStrategy("a", s["a"]) \o WithStrategy("c", s["c"]))
Triples == [{"a", "b", "c"} -> SUBSET {"a", "b", "c"}]
AsStrategies(s) == {Strategy(n, s[n]) : n \in {"a", "b", "c"}}
Orders == {Starting(Supersedes(s), ~Circle(AsStrategies(s))) : s \in Triples}

-----------------------------------------------------------------------------
\* Modes, by two processes.
Two == <<AddService(svc1), AddService(svc2)>>
Mode(s, m) == [is |-> "config mode", service |-> s, mode |-> m]
Start      == [is |-> "start"]
Stop(infra) == [is |-> "stop", infra |-> infra]

Set(s) == [AllDefault EXCEPT ![s] = "local"]
ModeScenarios ==
  { Scenario(stack(<<>>) \o Two, TRUE, c, Alone,
      Asks(<< {Mode("svc1", "local"), Mode("svc1", "disabled")},
              {Mode("svc1", "default"), Mode("svc2", "local"), Mode("nosuch", "local"),
               Mode("svc2", "debug")} >>,
           << {Mode("svc2", "local"), Mode("svc1", "default"), Mode("nosuch", "disabled")} >>))
    : c \in {Nothing, Foreign, Holds(Set("svc2"))} }

\* Builds, of two services of one repository or of two.
Files == { {"go.mod"}, {"go.mod", "magefile.go"}, {"magefiles", "package.json"},
           {"package.json"}, {"package.json", "rush.json"}, {} }
Pnpm == [Repo({"package.json", "pnpm-lock.yaml", "pnpm-workspace.yaml"}) EXCEPT
           !.packages = {"x"}]
KindsOfRepo ==
  {Repo(f) : f \in Files}
  \cup {[Repo({"package.json"}) EXCEPT !.workspaces = w] : w \in {{"x"}, {"x", "y"}, {"unmatched"}}}
  \cup {[Repo({"rush.json"}) EXCEPT !.projects = j] : j \in {{"x"}, {"x", "y"}}}
  \cup { [Repo({f}) EXCEPT !.broken = {f}] : f \in {"package.json", "rush.json"} }
  \cup { Pnpm, [Pnpm EXCEPT !.packages = {"x", "y"}], [Pnpm EXCEPT !.workspaces = {"x"}],
         [Pnpm EXCEPT !.files = @ \ {"pnpm-workspace.yaml"}],
         [Pnpm EXCEPT !.broken = {"pnpm-workspace.yaml"}],
         [Pnpm EXCEPT !.packages = {"unmatched"}] }

Build(r, s)   == [is |-> "build", services |-> {}, root |-> r, strategy |-> s]
Services1(ns) == [is |-> "build", services |-> ns]

BuildPrograms(d1, d2) ==
  golang(<<>>) \o nodejs(<<>>)
  \o << AddService(Svc("svc1", "gdev", d1, {"default", "local"})),
        AddService(Svc("svc2", "gdev", d2, {"default", "local"})) >>

BuildScenarios ==
  { Scenario(BuildPrograms(ds[1], ds[2]), TRUE, Holds(m), "gdev" :> r,
      Asks(<< {Start, Services1({"svc1", "svc2"}), Services1({"svc2"}), Build("gdev", ""),
               Build("gdev", "npm"), Build("elsewhere", ""), Services1({"nosuch"})} >>, <<>>))
    : r \in KindsOfRepo, ds \in {<<"x", "y">>, <<".", "x">>, <<"x", "gone">>},
      m \in {Set("svc1"), [AllDefault EXCEPT !["svc1"] = "local", !["svc2"] = "local"]} }
  \cup
  { Scenario(Sdev, TRUE, Holds([AllDefault EXCEPT !["svc1"] = "local", !["svc2"] = m]),
      ("gdev" :> [Repo({"go.mod", "magefile.go"}) EXCEPT !.dirs = {"svc1"}])
      @@ ("svc2" :> [Repo({"rush.json"}) EXCEPT !.dirs = {"app"}, !.projects = {"app"}]),
      Asks(<<{Start}>>, <<>>))
    : m \in {"local", "debug"} }

\* The cluster, by two processes.
Cluster(does) == [is |-> "bootstrap k3s", does |-> does]
ClusterScenarios ==
  { Scenario(EbDev, TRUE, Nothing, Alone,
      Asks(<< {Cluster("install")}, {Cluster("setup")}, {Cluster("uninstall"), Start},
              {Cluster("install")}, {Cluster("setup")} >>,
           << {Cluster("setup"), Cluster("uninstall"), Start, Stop(TRUE)} >>)) }

MCScenarios ==
  Pairs \cup Twice \cup Examples \cup Orders \cup ModeScenarios \cup BuildScenarios
  \cup ClusterScenarios
=============================================================================
