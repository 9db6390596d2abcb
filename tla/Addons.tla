------------------------------- MODULE Addons -------------------------------
(***************************************************************************)
(* What an app's main program asks for before it starts: the calls of the  *)
(* addons' Configure with their options, and what each addon brings as it  *)
(* is initialized.  A call is the sequence of what it does to the          *)
(* registries; App has the registries, and does it.                        *)
(***************************************************************************)
EXTENDS BootstrapAddons

Check(a)      == <<"check", a>>        \* CheckNotInitialized
Register(a)   == <<"register", a>>     \* RegisterIfNeeded
Add(kind, x)  == <<"add", kind, x>>    \* x is added to the registry of its kind
Need(kind, x) == <<"need", kind, x>>   \* a panic, or an error, unless it is there ...
NeedNot(kind, x) == <<"need not", kind, x>>
NeedAny(kind) == <<"need any", kind>>
Once(name, body) == <<"once", name, body>>   \* sync.OnceFunc
ResolveOrder  == <<"resolve">>         \* build's order of strategies

Each(op(_), xs) == [i \in DOMAIN xs |-> op(xs[i])]

\* A service by its name, the directory of its source in its repository (no repository:
\* it has none), and the modes there are resources for.
Svc(name, root, dir, modal) == [name |-> name, root |-> root, dir |-> dir, modal |-> modal]
NoSource == "no source"
InfraSvc(name) == Svc(name, NoSource, ".", {"default"})
AddInfrastructure(name) == Add("infra", InfraSvc(name))
AddService(svc) == Add("service", svc)

AddCommands(name) == Add("command", name)
AddContextEntry(type) == Add("entry", type)

-----------------------------------------------------------------------------
\* Every addon's Configure(opts...), and what its initialize does.
bootstrap(opts) == <<Check("bootstrap")>> \o opts \o <<Register("bootstrap")>>
bootstrapInit   == <<AddCommands("bootstrap")>>

WithSteps(steps)   == Each(LAMBDA s : Add("step", s.name), steps)
WithChildCmd(name) == <<AddCommands(name)>>
Bootstraps(a, opts) == Once(a, bootstrap(opts))

WithoutDefaultCommands == <<Add("option", "no commands")>>
stack(opts) == <<Check("stack")>> \o opts \o <<Register("stack")>>
stackInit   == <<AddCommands("start"), AddCommands("stop"), AddCommands("config mode")>>

WithStrategy(name, supersedes) ==
  <<Add("strategy", [name |-> name, supersedes |-> supersedes])>>
build(opts) == <<Check("build")>> \o opts \o stack(<<>>) \o <<Register("build")>>
buildInit   == <<ResolveOrder, AddCommands("build"), Add("hook", "build-before-start")>>

golangBuild  == build(WithStrategy("go-build", {}) \o WithStrategy("mage", {"go-build"}))
golang(opts) == <<Check("golang")>> \o opts \o <<Once("golang", golangBuild), Register("golang")>>

nodejsBuild  == build(WithStrategy("npm", {}) \o WithStrategy("rush", {}))
nodejs(opts) == <<Check("nodejs")>> \o opts \o <<Once("nodejs", nodejsBuild), Register("nodejs")>>

pm(opts) == <<Check("pm")>> \o opts \o <<Register("pm")>>
pmInit   == <<AddCommands("pm"), AddContextEntry("pm client")>>

k8s(opts) == <<Check("k8s")>> \o opts \o <<Register("k8s")>>
k8sInit   == <<Check("k8s"), AddContextEntry("k8s client"), AddContextEntry("namespace")>>

docker(opts) ==
  <<Check("docker")>> \o opts \o
  <<Bootstraps("docker", WithSteps(DockerSteps)), Register("docker")>>
dockerInit == <<AddContextEntry("docker client")>>

\* No address is the one thing to be wrong with an option.
containerd(opts) ==
  <<Check("containerd")>> \o opts \o <<NeedNot("option", "no address"), Register("containerd")>>
containerdInit == <<AddContextEntry("containerd client")>>

\* A provider is made before the call it is an option of, and does its part in it.
dockerK3SProvider     == [is |-> "docker", configure |-> docker(<<>>)]
containerdK3SProvider == [is |-> "containerd", configure |-> containerd(<<>>)]
WithProvider(provider) == <<Add("provider", provider.is)>>

k3sBootstrap == Bootstraps("k3s",
  <<Add("step", "Install k3s"), Add("step", "Install sudoers to run k3s")>>
  \o WithChildCmd("bootstrap k3s"))
k3s(opts, provider) ==
  <<Check("k3s")>> \o opts \o <<NeedAny("provider")>> \o stack(<<>>)
  \o <<Once("k3s pm", pm(<<>>))>> \o k8s(<<>>) \o <<k3sBootstrap>>
  \o provider.configure \o <<Register("k3s")>>
k3sInit == <<AddContextEntry("kubeconfig"), AddInfrastructure("k3s")>>

WithService(a) == <<Add("option", a)>>
Has(added, kind, x) == \E i \in DOMAIN added : added[i] = <<kind, x>>
IfService(a, infra, added) ==
  IF Has(added, "option", a) THEN <<AddInfrastructure(infra)>> ELSE <<>>
Client(a) == Bootstraps(a, <<Add("step", a)>>)

postgres(opts) ==
  <<Check("postgres")>> \o opts \o stack(<<>>) \o <<Client("postgres"), Register("postgres")>>
postgresInit(added) == IfService("postgres", "postgres-17", added)

mariadb(opts) ==
  <<Check("mariadb")>> \o opts \o stack(<<>>) \o <<Client("mariadb"), Register("mariadb")>>
mariadbInit(added) == IfService("mariadb", "mariadb-11.8", added)

\* Unlike the others it does not configure the stack it is to be part of.
valkey(opts) == <<Check("valkey")>> \o opts \o <<Client("valkey"), Register("valkey")>>
valkeyInit(added) == IfService("valkey", "valkey", added)

\* Each hook, for docker or for kubernetes, makes the service; with one there is a stack.
WithK8SService == <<Add("gcs hook", "k8s")>>
gcs(opts) ==
  <<Check("gcs")>> \o opts
  \o (IF opts = <<>> THEN <<>> ELSE stack(<<>>)) \o <<Register("gcs")>>
gcsInit(added) ==
  [i \in DOMAIN SelectSeq(added, LAMBDA e : e[1] = "gcs hook") |->
     AddInfrastructure("fake-gcs-server")]
  \o <<AddContextEntry("gcs client")>>

tailscale(opts) ==
  <<Check("tailscale")>> \o opts
  \o <<Bootstraps("tailscale", WithSteps(TailscaleSteps)), Register("tailscale")>>
asdf(opts) ==
  <<Check("asdf")>> \o opts \o <<Bootstraps("asdf", WithSteps(AsdfSteps)), Register("asdf")>>
uv(opts) ==
  <<Check("uv")>> \o opts \o <<Bootstraps("uv", WithSteps(UvSteps)), Register("uv")>>

\* Options that change its steps come too late when these have been made.
WithSkipDefaultLogin == <<NeedNot("made", "gcloud")>>
gcloud(opts) ==
  <<Check("gcloud")>> \o opts
  \o <<Once("gcloud", bootstrap(WithSteps(GcloudSteps)) \o <<Add("made", "gcloud")>>),
       Register("gcloud")>>

\* gocache, and its remotes: each adds a factory whenever it is configured.
WithDefaultRemotes(factory) == <<Need("factory", factory)>>
gocache(opts) == <<Check("gocache")>> \o opts \o <<Register("gocache")>>
gocacheInit   == <<NeedAny("factory"), AddCommands("gocache")>>

gocacheHTTP(opts) ==
  <<Check("gocache-http")>> \o opts \o <<Register("gocache-http")>>
  \o gocache(<<Add("factory", "http")>>)
gocacheGCS  == <<Check("gocache-gcs"), Register("gocache-gcs")>> \o gocache(<<Add("factory", "gcs")>>)
gocacheSFTP == <<Check("gocache-sftp"), Register("gocache-sftp")>> \o gocache(<<Add("factory", "sftp")>>)

WithRegion == <<Add("region", "s3")>>
gocacheS3(opts) ==
  <<Check("gocache-s3")>> \o opts \o <<Register("gocache-s3")>> \o gocache(<<Add("factory", "s3")>>)
gocacheS3Init == <<NeedAny("region")>>

WithSources   == <<Add("source", "app info")>>
WithCollector == <<Add("collector", "file")>>
diags(opts) == <<Check("diags")>> \o opts \o <<Register("diags")>>
diagsInit   == <<NeedAny("source"), NeedAny("collector"), AddCommands("diags")>>

docs(opts) == <<Check("docs")>> \o opts \o <<Register("docs")>>
docsInit   == <<AddCommands("docs")>>

\* What an addon's initialize does, with what has been added so far.
InitializeOf(a, added) ==
  CASE a = "bootstrap"  -> bootstrapInit
    [] a = "stack"      -> IF Has(added, "option", "no commands") THEN <<>> ELSE stackInit
    [] a = "build"      -> buildInit
    [] a = "pm"         -> pmInit
    [] a = "k8s"        -> k8sInit
    [] a = "docker"     -> dockerInit
    [] a = "containerd" -> containerdInit
    [] a = "k3s"        -> k3sInit
    [] a = "postgres"   -> postgresInit(added)
    [] a = "mariadb"    -> mariadbInit(added)
    [] a = "valkey"     -> valkeyInit(added)
    [] a = "gcs"        -> gcsInit(added)
    [] a = "gocache"    -> gocacheInit
    [] a = "gocache-s3" -> gocacheS3Init
    [] a = "diags"      -> diagsInit
    [] a = "docs"       -> docsInit
    [] OTHER            -> <<>>

-----------------------------------------------------------------------------
\* The main programs of the examples, up to cmd.Main.
CustomCommands == <<AddCommands("custom")>>

svc1 == Svc("svc1", "gdev", "svc1", {"default", "local"})
svc2 == Svc("svc2", "svc2", "app", {"default", "local"})
Sdev == pm(<<>>) \o docker(<<>>) \o build(<<>>) \o golang(<<>>) \o nodejs(<<>>)
        \o <<AddService(svc1), AddService(svc2)>>

entBlog == Svc("ent-blog", "gdev", "ent-blog", {"default", "local"})
EbDev == pm(<<>>) \o k3s(WithProvider(dockerK3SProvider), dockerK3SProvider)
         \o build(<<>>) \o golang(<<>>) \o postgres(WithService("postgres"))
         \o <<AddService(entBlog)>>

\* Of its own steps those that others might have too.
Gdev == bootstrap(WithSteps(ExampleSteps) \o <<Add("step", "google-cloud-sdk")>>)
        \o pm(<<>>) \o k8s(<<>>) \o containerd(<<>>) \o docker(<<>>)
        \o k3s(WithProvider(dockerK3SProvider), dockerK3SProvider)
        \o postgres(WithService("postgres")) \o valkey(WithService("valkey"))
        \o build(<<>>) \o nodejs(<<>>) \o golang(<<>>)
        \o gocacheSFTP \o gocacheGCS \o gocacheHTTP(<<>>) \o gocacheS3(WithRegion)
        \o gocache(WithDefaultRemotes("gcs") \o WithDefaultRemotes("s3"))
        \o gcs(WithK8SService) \o diags(WithCollector \o WithSources) \o docs(<<>>)
=============================================================================
