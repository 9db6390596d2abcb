--------------------------- MODULE MCStackServices ---------------------------
(* The full-stack example with the other services of the addons, and a process that *)
(* starts and stops it, in whatever modes.                                         *)
EXTENDS Stack, StackServices

Range(s)  == {s[i] : i \in DOMAIN s}
Kinds_(s) == [r \in {e.res : e \in Range(s)} \cup UNION {e.needs : e \in Range(s)} |->
               KindIn(Range(s), r)]
Needs_(s) == [r \in DOMAIN Kinds_(s) |-> NeedsIn(Range(s), r)]

Start(svcs, m, w) == [op |-> "start", wait |-> w,
                      modes |-> [s \in svcs |-> IF s = "ent-blog" THEN m ELSE "default"]]
Stop(x, f) == [op |-> "stop", exclude |-> x, full |-> f, parallel |-> FALSE]
Options_(svcs) ==
  [p \in {"gdev"} |-> {Start(svcs, m, TRUE) : m \in {"default", "local"}} \cup {Stop({}, TRUE)}]

Blog == WithInitDBs(WithNodePort(NoOptions))

Infrastructure ==
  k3s(TRUE) \o Postgres(Blog) \o setupK8SService \o Valkey(NoOptions)
  \o MariaDB(WithName("other", WithWaitReady(WithNodePort(NoOptions))))
Applications == EntBlog(Blog) \o myGoService("svc1")
All      == Infrastructure \o Applications
AllParts == Register(Infrastructure, Applications)
AllServices == {e.svc : e \in Range(All)}
AllKinds    == Kinds_(All)
AllNeeds    == Needs_(All)
AllOptions  == Options_(AllServices)

\* What a cfg refers to: TLC keeps the value of a definition, but not of what replaces
\* a constant.
MCParts     == AllParts
MCServices  == AllServices
MCResources == DOMAIN AllKinds
MCKind      == AllKinds
MCNeeds     == AllNeeds
MCOptions   == AllOptions

\* Its services list their resources in an order that suits every start.
ASSUME ServicesKeepToOrder == AllInOrder
=============================================================================
