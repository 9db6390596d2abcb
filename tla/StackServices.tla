---------------------------- MODULE StackServices ----------------------------
(***************************************************************************)
(* The services the addons and the examples register, as the resources     *)
(* each lists, in order, with what these need of one another.              *)
(***************************************************************************)
EXTENDS Integers, Sequences

\* A resource of a service: its name, kind and needs, and the mode it is for.
Entry(svc, name, kind, needs) ==
  << [svc |-> svc, res |-> <<svc, name>>, kind |-> kind, needs |-> needs, mode |-> "any"] >>

WithModalResources(mode, entries) == [i \in DOMAIN entries |-> [entries[i] EXCEPT !.mode = mode]]
If(c, entries) == IF c THEN entries ELSE <<>>

-----------------------------------------------------------------------------
(***************************************************************************)
(* Kubernetes, which k3s serves.                                           *)
(***************************************************************************)

API   == <<"kubernetes", "api">>
Nodes == <<"kubernetes", "nodes">>

PersistentVolumeClaim(svc)  == Entry(svc, "data", "claim", {API})
ConfigMap(svc)              == Entry(svc, "configmap", "configmap", {API})
Secret(svc)                 == Entry(svc, "credentials", "secret", {API})
Deployment(svc, needs)      == Entry(svc, "deployment", "deployment", {API, Nodes} \cup needs)
Service(svc, name)          == Entry(svc, name, "service", {API, <<svc, "deployment">>})
accReadyWaiter(svc, target) == Entry(svc, "wait for " \o target, "waiter", {<<svc, target>>})

APIReadyWaiter  == Entry("k3s", "k8s-api-ready", "waiter", {API})
NodeReadyWaiter == Entry("k3s", "k8s-node-ready", "waiter", {Nodes})

\* The child k3s, which is waited for in its Start, and the waiters, if any.
k3s(waiters) ==
  Entry("k3s", "server", "process", {}) \o
  If(waiters, accReadyWaiter("k3s", "server") \o APIReadyWaiter \o NodeReadyWaiter)

-----------------------------------------------------------------------------
(***************************************************************************)
(* The addons' servers: a name and what was asked for besides the server,  *)
(* a node port, a wait and databases to be made.                           *)
(***************************************************************************)

NoOptions           == [name |-> "", major |-> "", asked |-> {}]
WithName(name, c)   == [c EXCEPT !.name = name]
WithMajor(major, c) == [c EXCEPT !.major = major]
WithNodePort(c)     == [c EXCEPT !.asked = @ \cup {"node port"}]
WithWaitReady(c)    == [c EXCEPT !.asked = @ \cup {"wait"}]
WithInitDBs(c)      == [c EXCEPT !.asked = @ \cup {"wait", "databases"}]

\* Without a name it is that of the software and its major version, if there is one.
Named(software, major, c) ==
  IF c.name # "" THEN c.name
  ELSE IF c.major # "" THEN software \o "-" \o c.major
  ELSE IF major # "" THEN software \o "-" \o major ELSE software

credentialsSecret(svc) == Secret(svc)
clusterService(svc)    == Service(svc, "service")
nodePortService(svc)   == Service(svc, "node")

\* The waiters name the node port whether there is one or not.
Waiters(svc) ==
  accReadyWaiter(svc, "deployment") \o accReadyWaiter(svc, "service") \o
  accReadyWaiter(svc, "node")

initDBs(svc) == Entry(svc, "init-dbs", "databases", {<<svc, "node">>})

\* What postgres and mariadb have in common, behind their deployment.
Server(svc, asked) ==
  clusterService(svc) \o credentialsSecret(svc) \o
  If("node port" \in asked, nodePortService(svc)) \o
  If("wait" \in asked, Waiters(svc)) \o
  If("databases" \in asked, initDBs(svc))

PostgresClaim(svc)      == PersistentVolumeClaim(svc)
PostgresDeployment(svc) == Deployment(svc, {<<svc, "data">>})
Postgres(c) ==
  LET svc == Named("postgres", "17", c) IN
  PostgresClaim(svc) \o PostgresDeployment(svc) \o Server(svc, c.asked)

\* Mutant of PostgresCredentials: by the name without the version.
PostgresCredentialsUnversioned(c) == <<Named("postgres", "", c), "credentials">>

\* Where the user and the password of the one server of the stack are to be found.
PostgresCredentials(c) == <<Named("postgres", "17", c), "credentials">>

MariaDBClaim(svc)      == PersistentVolumeClaim(svc)
MariaDBInitMap(svc)    == ConfigMap(svc)
MariaDBDeployment(svc) == Deployment(svc, {<<svc, "data">>, <<svc, "configmap">>})
MariaDB(c) ==
  LET svc == Named("mariadb", "12", c) IN
  MariaDBClaim(svc) \o MariaDBInitMap(svc) \o MariaDBDeployment(svc) \o Server(svc, c.asked)

\* Under another name, too, the deployment mounts the map "valkey".
ValkeyDeployment(svc) == Deployment(svc, {<<"valkey", "configmap">>})
Valkey(c) ==
  LET svc == Named("valkey", "", c) IN
  ConfigMap(svc) \o ValkeyDeployment(svc) \o Service(svc, "service")

\* The fake server of gcs; its service is there before its deployment.
setupK8SService ==
  PersistentVolumeClaim("gcs") \o Service("gcs", "service") \o
  Deployment("gcs", {<<"gcs", "data">>})

-----------------------------------------------------------------------------
(***************************************************************************)
(* The examples' services.                                                 *)
(***************************************************************************)

\* That of the full-stack example; its deployment migrates the database first.
svcDefaultResources(c) ==
  LET postgres == Named("postgres", "17", c) IN
  Deployment("ent-blog", {PostgresCredentials(c), <<postgres, "service">>,
                          <<postgres, "init-dbs">>}) \o Service("ent-blog", "service")
svcLocalResources(c) ==
  LET postgres == Named("postgres", "17", c) IN
  Entry("ent-blog", "go run", "process", {<<postgres, "node">>, <<postgres, "init-dbs">>})
EntBlog(c) ==
  WithModalResources("default", svcDefaultResources(c)) \o
  WithModalResources("local", svcLocalResources(c))

\* Those of the stack example run in a container or from their source.
myGoService(name) ==
  WithModalResources("default", Entry(name, "container", "container", {})) \o
  WithModalResources("local", Entry(name, "local", "process", {}))

-----------------------------------------------------------------------------
(***************************************************************************)
(* The stack.                                                              *)
(***************************************************************************)

\* What AllInfrastructure and AllServices list, one after the other.
OfStage(stage, entries) ==
  [i \in DOMAIN entries |-> [svc |-> entries[i].svc, res |-> entries[i].res,
                             mode |-> entries[i].mode, stage |-> stage]]
Register(infrastructure, stack) == OfStage("infrastructure", infrastructure) \o OfStage("stack", stack)

\* The kinds and needs of what was registered; of what was not, the parts of
\* kubernetes, and services that are looked for in vain.
KindIn(entries, r) ==
  IF r = API THEN "api" ELSE IF r = Nodes THEN "node"
  ELSE IF \E e \in entries : e.res = r THEN (CHOOSE e \in entries : e.res = r).kind
  ELSE "service"
NeedsIn(entries, r) ==
  IF r \in {API, Nodes} THEN {<<"k3s", "server">>}
  ELSE IF \E e \in entries : e.res = r THEN (CHOOSE e \in entries : e.res = r).needs
  ELSE {API}
=============================================================================
