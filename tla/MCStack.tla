------------------------------- MODULE MCStack -------------------------------
(* The stacks and the commands the runs of Stack are checked for. *)
EXTENDS Stack

Services_ == {"gcs", "db", "svc"}

\* Infrastructure of a volume and a database, and a service whose resource depends on
\* its mode.
Kinds_ == [data |-> "volume", db |-> "process", web |-> "process", local |-> "process"]
Part(s, stage, mode, r) == [svc |-> s, stage |-> stage, mode |-> mode, res |-> r]
Needs_ == [r \in DOMAIN Kinds_ |-> {}]
Parts_ == <<Part("gcs", "infrastructure", "any", "data"), Part("db", "infrastructure", "any", "db"),
             Part("svc", "stack", "default", "web"), Part("svc", "stack", "local", "local")>>

Modes_(gcs, svc) == [s \in Services_ |-> IF s = "gcs" THEN gcs ELSE IF s = "svc" THEN svc
                                                                 ELSE "default"]
Start(m, w) == [op |-> "start", modes |-> m, wait |-> w]
Starts == {Start(Modes_("default", "default"), TRUE), Start(Modes_("disabled", "local"), FALSE)}
Stop(x, f, p) == [op |-> "stop", exclude |-> x, full |-> f, parallel |-> p]
Stops  == {Stop({}, TRUE, TRUE), Stop({}, FALSE, TRUE), Stop({"svc"}, TRUE, FALSE)}
Options_ == [start |-> Starts, stop |-> Stops]

\* What the cfg refers to: TLC keeps the value of a definition, but not of what replaces
\* a constant.
MCServices == Services_
MCKind     == Kinds_
MCNeeds    == Needs_
MCParts    == Parts_
MCOptions  == Options_
=============================================================================
