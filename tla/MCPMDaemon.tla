---------------------------- MODULE MCPMDaemon ----------------------------
(* Definitions the runs of PMDaemon are checked for. *)
EXTENDS PMDaemon

Plain(r) == [inits |-> 0, oneShot |-> FALSE, noRestart |-> r, health |-> FALSE]

\* A service, restarted when it exits.
Service == {Plain(FALSE)}

\* One that is never restarted, and both.
Lasting == {Plain(TRUE)}
Mixed   == Service \cup Lasting

\* The first client creates and ends, the second does the rest.
MCOps == [t \in Requests |-> IF t = CHOOSE u \in Requests : TRUE THEN {"put", "terminate"}
                             ELSE {"child", "start", "stop", "delete"}]
=============================================================================
