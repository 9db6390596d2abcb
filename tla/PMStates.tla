------------------------------ MODULE PMStates ------------------------------
(***************************************************************************)
(* The life cycle the process manager's API shows of a child               *)
(* (addons/pm/api/child.go), as pure operators: the states, and for each   *)
(* event the manager goroutine handles the states it can leave the child   *)
(* in, with whether the handler arms the restart timer.  PMLifecycle turns *)
(* them into a specification that PMChild implements; PMDaemon runs one    *)
(* such life cycle per child it keeps.                                     *)
(***************************************************************************)
EXTENDS Integers

Idle   == {"stopped", "error", "init-error", "done"}
Active == {"init-running", "running", "stopping"}
ChildStates == Idle \cup Active

\* What the manager reads of a definition (api.Child): how many Init execs
\* precede Main, the two flags, and whether there is a health check.
ChildDefs(MaxInits) ==
  [inits : 0 .. MaxInits, oneShot : BOOLEAN, noRestart : BOOLEAN,
   health : BOOLEAN]

\* No handler of this definition ever arms the restart timer.
NeverRestarts(d) == d.noRestart \/ (d.oneShot /\ d.inits = 0)

\* What starting exec i leaves the child in: i is an init exec or Main.
RunningState(d, i) == IF i < d.inits THEN "init-running" ELSE "running"
ErrorState(d, i)   == IF i < d.inits THEN "init-error" ELSE "error"

Launched(d, i)  == {RunningState(d, i), ErrorState(d, i)}
LaunchedAny(d)  == UNION {Launched(d, i) : i \in 0 .. d.inits}

\* childStop: an error is forgotten, an active child is asked to stop.
StopOutcome(s) ==
  CASE s \in {"error", "init-error"} -> "stopped"
    [] s \in {"stopped", "done"}     -> s
    [] s \in Active                  -> "stopping"

\* What the exit of Main leaves the child in: a one-shot is done or failed;
\* anything else is in error, save the clean exit of a child not to be restarted.
MainExit(d, ok) ==
  CASE d.oneShot /\ ok                   -> "done"
    [] ~d.oneShot /\ ok /\ d.noRestart   -> "stopped"
    [] OTHER                             -> "error"

\* The exit of Main arms the restart timer.
RestartsMain(d) == ~d.oneShot /\ ~d.noRestart

\* The exit of a process can take the child it is taken for from state s to t;
\* arms says whether the restart timer is armed with it.
ExitLeads(d, s, t, arms) ==
  \/ s = "stopping" /\ t = "stopped" /\ ~arms
  \/ s = "init-running" /\ t \in LaunchedAny(d) /\ ~arms
  \/ s = "init-running" /\ t = "init-error" /\ (arms <=> ~d.noRestart)
  \/ s = "running" /\ (\E ok \in BOOLEAN : t = MainExit(d, ok))
       /\ (arms <=> RestartsMain(d))
=============================================================================
