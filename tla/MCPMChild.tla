----------------------------- MODULE MCPMChild -----------------------------
(* Definitions the runs of PMChild are checked for. *)
EXTENDS PMChild

ChildDef(n, o, r, h) == [inits |-> n, oneShot |-> o, noRestart |-> r, health |-> h]

\* Every combination of flags, with up to one init exec and no health check.
FlagDefs == {ChildDef(n, o, r, FALSE) : n \in 0 .. 1, o, r \in BOOLEAN}

\* A service and a one-shot whose Main is health-checked.
HealthDefs == {ChildDef(0, o, FALSE, TRUE) : o \in BOOLEAN}

\* With two inits besides, to tell "the next" from "the last", and no restarts.
AllDefs == FlagDefs \cup HealthDefs \cup {ChildDef(2, o, TRUE, FALSE) : o \in BOOLEAN}
=============================================================================
