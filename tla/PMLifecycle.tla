----------------------------- MODULE PMLifecycle -----------------------------
(***************************************************************************)
(* What the process manager promises of one child, seen through its API:   *)
(* the state, whether a restart is pending and whether a stop's deadline   *)
(* is, with no process or channel.  PMChild implements it; PMDaemon runs    *)
(* one per child it keeps.                                                 *)
(***************************************************************************)
EXTENDS PMStates

CONSTANTS Defs
VARIABLES
  def,      \* the definition
  mgr,      \* "running", "deleted" or "panicked"
  state,    \* the state shown
  armed,    \* a restart is pending
  killing,  \* the deadline of a stop is pending
  doubled   \* history: a restart happened to an active child

vars == <<def, mgr, state, armed, killing, doubled>>

Init == def \in Defs /\ mgr = "running" /\ state = "stopped" /\ armed = FALSE
        /\ killing = FALSE /\ doubled = FALSE

Start ==
  /\ mgr = "running" /\ state \in Idle
  /\ state' \in Launched(def, 0)
  /\ UNCHANGED <<def, mgr, armed, killing, doubled>>

Stop ==
  /\ mgr = "running"
  /\ state' = StopOutcome(state)
  /\ killing' = (killing \/ state \in Active)
  /\ UNCHANGED <<def, mgr, armed, doubled>>

Delete ==
  /\ mgr = "running" /\ state \in {"stopped", "done"}
  /\ mgr' = "deleted"
  /\ UNCHANGED <<def, state, armed, killing, doubled>>

\* The deadline of some stop passes: perhaps not of the run it now ends.
Kill ==
  /\ mgr = "running" /\ killing
  /\ killing' = FALSE
  /\ state' = IF state \in Active THEN "stopping" ELSE state
  /\ UNCHANGED <<def, mgr, armed, doubled>>

\* A pending restart happens in any state it finds.
Restart ==
  /\ mgr = "running" /\ armed
  /\ armed' = FALSE
  /\ state' \in LaunchedAny(def)
  /\ doubled' = (doubled \/ state \in Active)
  /\ UNCHANGED <<def, mgr, killing>>

Exited ==
  /\ mgr = "running" /\ state \in Active
  /\ state' \in ChildStates
  /\ \E arms \in BOOLEAN :
       ExitLeads(def, state, state', arms) /\ armed' = (armed \/ arms)
  /\ UNCHANGED <<def, mgr, killing, doubled>>

\* Only a restart of an active child can take the manager down.
Panic ==
  /\ mgr = "running" /\ doubled
  /\ mgr' = "panicked"
  /\ UNCHANGED <<def, state, armed, killing, doubled>>

Next == Start \/ Stop \/ Delete \/ Kill \/ Restart \/ Exited \/ Panic

Spec == Init /\ [][Next]_vars
=============================================================================
