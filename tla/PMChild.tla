------------------------------- MODULE PMChild -------------------------------
(***************************************************************************)
(* One child of the process manager (addons/pm/server/child.go): the       *)
(* manager goroutine run(), the processes it starts, the goroutines that   *)
(* wait for them, its kill and restart timers and its health checks.       *)
(*                                                                         *)
(* The manager is a select loop, so each of its cases is one atomic action *)
(* here; every case ends by setting the health ticker and publishing a     *)
(* status.  Commands come from the daemon, at any time and in any order:   *)
(* the daemon decides on a status it read earlier, so no command is ruled  *)
(* out by the state it finds.  A timer may fire at any time once armed.    *)
(***************************************************************************)
EXTENDS PMStates

CONSTANTS
  Defs,        \* the definitions a child may be created with
  MaxInits,    \* bound on the number of init execs of a definition
  Procs,       \* process ids the kernel hands out; also bounds those in use
  NoProc,      \* the nil *os.Process, and pid 0
  MaxProbes    \* bound on the health checks under way at once

ASSUME DefsAssumption   == MaxInits \in Nat /\ Defs \subseteq ChildDefs(MaxInits)
ASSUME ProcsAssumption  == NoProc \notin Procs
ASSUME ProbesAssumption == MaxProbes \in Nat

VARIABLES
  def,           \* c.def, fixed by newChild
  mgr,           \* run(): "running", "deleted" (returned) or "panicked"
  state,         \* status.State
  exec,          \* status.Init and, at index def.inits, status.Main
  curExec,       \* curExec; -1 before the first start
  curProc,       \* curProc
  killArmed,     \* kill is a timer that has not been received from
  restartArmed,  \* restart is a timer that has not been received from
  exited,        \* procExited, a channel of capacity 1: "empty", "ok" or "fail"
  os,            \* each process with the goroutine that waits for it
  ticker,        \* healthCheck: "off", "initial" or "slow" interval
  checks,        \* healthChecks, saturating at SlowAfter + 1
  probes,        \* health checks under way
  results,       \* healthResults, of capacity 1: "empty", "healthy", "unhealthy"
  healthy,       \* status.Health.Healthy
  doubled        \* history: a restart fired while a process was being run

procVars   == <<exited, os>>
healthVars == <<probes, results, healthy>>
tickVars   == <<ticker, checks>>
vars == <<def, mgr, state, exec, curExec, curProc, killArmed, restartArmed,
          exited, os, ticker, checks, probes, results, healthy, doubled>>

\* A process is free to be started, alive, sent SIGKILL, or reaped, with its
\* waiter yet to report the exit code it had: zero or not.
Codes     == {"ok", "fail"}
OsStates  == {"free", "alive", "killed"} \cup Codes
SlowAfter == 5

ExecStatus(s, p, g, e, f) ==
  [state |-> s, pid |-> p, group |-> g, startErr |-> e, failed |-> f]
NotStarted == ExecStatus("not-started", NoProc, FALSE, FALSE, FALSE)
StartError == ExecStatus("not-started", NoProc, FALSE, TRUE, FALSE)

Execs == 0 .. def.inits

Init ==
  /\ def \in Defs
  /\ mgr = "running" /\ state = "stopped"
  /\ exec = [i \in Execs |-> NotStarted]
  /\ curExec = -1 /\ curProc = NoProc
  /\ killArmed = FALSE /\ restartArmed = FALSE
  /\ exited = "empty" /\ os = [p \in Procs |-> "free"]
  /\ ticker = "off" /\ checks = -1
  /\ probes = 0 /\ results = "empty" /\ healthy = FALSE
  /\ doubled = FALSE

-----------------------------------------------------------------------------
(***************************************************************************)
(* Steps shared by the handlers.                                           *)
(***************************************************************************)

\* The end of every case: the ticker runs exactly while Main does, and starts
\* over at the initial interval.  t and n are what the case left of it.
SetTicker(t, n) ==
  IF state' = "running" /\ def.health
  THEN /\ ticker' = (IF n < 0 THEN "initial" ELSE t)
       /\ checks' = (IF n < 0 THEN 0 ELSE n)
  ELSE ticker' = "off" /\ checks' = -1

\* start(i): a process of exec i with a goroutine waiting for it, isolated in
\* a group or not; or no process, when the log file or the command cannot be
\* opened.  table is status as the case left it so far.
StartExec(i, table) ==
  \/ \E p \in {q \in Procs \ {curProc} : os[q] = "free"}, g \in BOOLEAN :
       /\ os' = [os EXCEPT ![p] = "alive"]
       /\ curProc' = p
       /\ exec' = [table EXCEPT ![i] = ExecStatus("running", p, g, FALSE, FALSE)]
       /\ state' = RunningState(def, i)
  \/ /\ curProc' = NoProc
     /\ exec' = [table EXCEPT ![i] = StartError]
     /\ state' = ErrorState(def, i)
     /\ UNCHANGED os

\* The current exec's process is being stopped.
MarkStopping == exec' = [exec EXCEPT ![curExec].state = "stopping"]

-----------------------------------------------------------------------------
(***************************************************************************)
(* Commands: case cmd := <-c.cmds.                                         *)
(***************************************************************************)

\* Mutant of CmdStart: the state is not looked at.
CmdStartAnyState ==
  /\ mgr = "running"
  /\ curExec' = 0
  /\ StartExec(0, exec)
  /\ SetTicker(ticker, checks)
  /\ UNCHANGED <<def, mgr, killArmed, restartArmed, exited, healthVars, doubled>>

\* childStart, from any idle state: start over from the first exec.
CmdStart ==
  /\ mgr = "running" /\ state \in Idle
  /\ curExec' = 0
  /\ StartExec(0, exec)
  /\ SetTicker(ticker, checks)
  /\ UNCHANGED <<def, mgr, killArmed, restartArmed, exited, healthVars, doubled>>

\* childStop with no process: an error state is left for "stopped".
CmdStopIdle ==
  /\ mgr = "running" /\ curProc = NoProc /\ state \in {"error", "init-error"}
  /\ curExec' = 0
  /\ state' = "stopped"
  /\ SetTicker(ticker, checks)
  /\ UNCHANGED <<def, mgr, exec, curProc, killArmed, restartArmed, procVars,
                 healthVars, doubled>>

\* Mutant of CmdStopActive: no deadline is set.
CmdStopActiveNoKill ==
  /\ mgr = "running" /\ curProc # NoProc
  /\ MarkStopping
  /\ state' = "stopping"
  /\ SetTicker(ticker, checks)
  /\ UNCHANGED <<def, mgr, curExec, curProc, killArmed, restartArmed, procVars,
                 healthVars, doubled>>

\* childStop with a process: SIGTERM, which the process may ignore, and the
\* kill timer is (re)armed.
CmdStopActive ==
  /\ mgr = "running" /\ curProc # NoProc
  /\ MarkStopping
  /\ killArmed' = TRUE
  /\ state' = "stopping"
  /\ SetTicker(ticker, checks)
  /\ UNCHANGED <<def, mgr, curExec, curProc, restartArmed, procVars,
                 healthVars, doubled>>

\* Mutant of CmdDelete: the state is not looked at.
CmdDeleteAnyState ==
  /\ mgr = "running"
  /\ mgr' = "deleted"
  /\ ticker' = "off"
  /\ UNCHANGED <<def, state, exec, curExec, curProc, killArmed, restartArmed,
                 procVars, checks, healthVars, doubled>>

\* childDelete: honoured in two states only, and then the goroutine returns.
CmdDelete ==
  /\ mgr = "running" /\ state \in {"stopped", "done"}
  /\ mgr' = "deleted"
  /\ ticker' = "off"
  /\ UNCHANGED <<def, state, exec, curExec, curProc, killArmed, restartArmed,
                 procVars, checks, healthVars, doubled>>

\* childPing, and the commands that the state they find makes no-ops.
CmdIgnored ==
  /\ mgr = "running"
  /\ UNCHANGED state
  /\ SetTicker(ticker, checks)
  /\ UNCHANGED <<def, mgr, exec, curExec, curProc, killArmed, restartArmed,
                 procVars, healthVars, doubled>>

-----------------------------------------------------------------------------
(***************************************************************************)
(* Timers.  Neither is ever disarmed but by firing.                        *)
(***************************************************************************)

\* kill(): SIGKILL to the process's group; one already reaped is past it.
SendKill ==
  os' = [p \in Procs |-> IF p = curProc /\ os[p] = "alive" THEN "killed" ELSE os[p]]

\* Mutant of KillFires: the nil check is missing.
KillFiresUnchecked ==
  /\ mgr = "running" /\ killArmed
  /\ killArmed' = FALSE
  /\ SendKill
  /\ MarkStopping
  /\ state' = "stopping"
  /\ SetTicker(ticker, checks)
  /\ UNCHANGED <<def, mgr, curExec, curProc, restartArmed, exited, healthVars,
                 doubled>>

\* case <-kill: whatever process is current by now is sent SIGKILL.
KillFires ==
  /\ mgr = "running" /\ killArmed
  /\ killArmed' = FALSE
  /\ IF curProc = NoProc
     THEN UNCHANGED <<state, exec, os>>
     ELSE /\ SendKill
          /\ MarkStopping
          /\ state' = "stopping"
  /\ SetTicker(ticker, checks)
  /\ UNCHANGED <<def, mgr, curExec, curProc, restartArmed, exited, healthVars,
                 doubled>>

\* Mutant of RestartFires: only a failed Main is restarted.
RestartFiresInError ==
  /\ mgr = "running" /\ restartArmed /\ state = "error"
  /\ restartArmed' = FALSE
  /\ StartExec(curExec, exec)
  /\ doubled' = (doubled \/ curProc # NoProc)
  /\ SetTicker(ticker, checks)
  /\ UNCHANGED <<def, mgr, curExec, killArmed, exited, healthVars>>

\* case <-restart: starts the current exec, whatever the state.
RestartFires ==
  /\ mgr = "running" /\ restartArmed
  /\ restartArmed' = FALSE
  /\ StartExec(curExec, exec)
  /\ doubled' = (doubled \/ curProc # NoProc)
  /\ SetTicker(ticker, checks)
  /\ UNCHANGED <<def, mgr, curExec, killArmed, exited, healthVars>>

-----------------------------------------------------------------------------
(***************************************************************************)
(* Exits: case err := <-procExited.  The channel says how a process ended, *)
(* not which process.                                                      *)
(***************************************************************************)

\* The exit is received and, the manager running a process, taken for its.
TakeExit(code) ==
  /\ mgr = "running" /\ exited = code /\ curProc # NoProc
  /\ exited' = "empty"

\* The status once the current exec has ended; g says whether its group is still
\* recorded, that is, could not be cleaned up.
Ended(code, g) ==
  [exec EXCEPT ![curExec] = ExecStatus("ended", NoProc, g, FALSE, code = "fail")]
WithGroup(e, g) == ExecStatus(e.state, e.pid, g, e.startErr, e.failed)
KeptGroup == {FALSE, exec[curExec].group}

\* In "stopping": the stop is complete.  cleanupAll retries every group that is
\* still recorded; some may be kept.
ExitStopping ==
  \E code \in Codes, kept \in [Execs -> BOOLEAN] :
    /\ TakeExit(code) /\ state = "stopping"
    /\ curProc' = NoProc
    /\ \A i \in Execs : kept[i] => exec[i].group
    /\ exec' = [i \in Execs |-> WithGroup(Ended(code, kept[curExec])[i], kept[i])]
    /\ state' = "stopped"
    /\ curExec' = 0
    /\ SetTicker(ticker, checks)
    /\ UNCHANGED <<def, mgr, killArmed, restartArmed, os, healthVars, doubled>>

\* Mutant of ExitInitOk: the exit code is not looked at.
ExitInitAnyCode ==
  \E code \in Codes :
    /\ TakeExit(code) /\ state = "init-running"
    /\ curExec' = curExec + 1
    /\ \E g \in KeptGroup : StartExec(curExec + 1, Ended(code, g))
    /\ SetTicker(ticker, checks)
    /\ UNCHANGED <<def, mgr, killArmed, restartArmed, healthVars, doubled>>

\* An init exec succeeded: the next exec is started.
ExitInitOk ==
  /\ TakeExit("ok") /\ state = "init-running"
  /\ curExec' = curExec + 1
  /\ \E g \in KeptGroup : StartExec(curExec + 1, Ended("ok", g))
  /\ SetTicker(ticker, checks)
  /\ UNCHANGED <<def, mgr, killArmed, restartArmed, healthVars, doubled>>

\* An init exec failed, and the restart timer is armed or left as it was.
FailInit(armed) ==
  /\ TakeExit("fail") /\ state = "init-running"
  /\ curProc' = NoProc
  /\ \E g \in KeptGroup : exec' = Ended("fail", g)
  /\ state' = "init-error"
  /\ restartArmed' = armed
  /\ SetTicker(ticker, checks)
  /\ UNCHANGED <<def, mgr, curExec, killArmed, os, healthVars, doubled>>

\* It is to be retried, unless the child never is.
ExitInitFailed == FailInit(restartArmed \/ ~def.noRestart)

\* Main exited: see MainExit for what becomes of the child.
ExitMain ==
  \E code \in Codes :
    /\ TakeExit(code) /\ state = "running"
    /\ curProc' = NoProc
    /\ \E g \in KeptGroup : exec' = Ended(code, g)
    /\ state' = MainExit(def, code = "ok")
    /\ restartArmed' = (restartArmed \/ RestartsMain(def))
    /\ SetTicker(ticker, checks)
    /\ UNCHANGED <<def, mgr, curExec, killArmed, os, healthVars, doubled>>

\* An exit with no process to take it for: panic("unimplemented: wtf").
ExitUnexpected ==
  /\ mgr = "running" /\ exited # "empty" /\ curProc = NoProc
  /\ exited' = "empty"
  /\ mgr' = "panicked"
  /\ UNCHANGED <<def, state, exec, curExec, curProc, killArmed, restartArmed,
                 os, tickVars, healthVars, doubled>>

-----------------------------------------------------------------------------
(***************************************************************************)
(* Health checks.                                                          *)
(***************************************************************************)

\* Mutant of HealthTick: the ticker is stopped where it is to slow down.
HealthTickStopping ==
  LET n == IF checks > SlowAfter THEN checks ELSE checks + 1 IN
  /\ mgr = "running" /\ ticker # "off" /\ probes < MaxProbes
  /\ probes' = probes + 1
  /\ UNCHANGED state
  /\ SetTicker(IF n = SlowAfter THEN "off" ELSE ticker, n)
  /\ UNCHANGED <<def, mgr, exec, curExec, curProc, killArmed, restartArmed,
                 procVars, results, healthy, doubled>>

\* case <-healthCheck.C: one more check under way; after SlowAfter of them the
\* ticker slows down.
HealthTick ==
  LET n == IF checks > SlowAfter THEN checks ELSE checks + 1 IN
  /\ mgr = "running" /\ ticker # "off" /\ probes < MaxProbes
  /\ probes' = probes + 1
  /\ UNCHANGED state
  /\ SetTicker(IF n = SlowAfter THEN "slow" ELSE ticker, n)
  /\ UNCHANGED <<def, mgr, exec, curExec, curProc, killArmed, restartArmed,
                 procVars, results, healthy, doubled>>

\* A check comes back, and its goroutine leaves the verdict in the channel.
ProbeReturns ==
  /\ probes > 0 /\ results = "empty"
  /\ probes' = probes - 1
  /\ results' \in {"healthy", "unhealthy"}
  /\ UNCHANGED <<def, mgr, state, exec, curExec, curProc, killArmed,
                 restartArmed, procVars, tickVars, healthy, doubled>>

\* case healthy := <-healthResults, in whatever state the child is by now.
HealthResult ==
  /\ mgr = "running" /\ results # "empty"
  /\ results' = "empty"
  /\ healthy' = (results = "healthy")
  /\ UNCHANGED state
  /\ SetTicker(ticker, checks)
  /\ UNCHANGED <<def, mgr, exec, curExec, curProc, killArmed, restartArmed,
                 procVars, probes, doubled>>

-----------------------------------------------------------------------------
(***************************************************************************)
(* The processes and the goroutines that wait for them.                    *)
(***************************************************************************)

\* A process ends and is reaped: of itself or on SIGTERM with any exit code,
\* on SIGKILL with a failure.
ProcExits(p) ==
  /\ \/ os[p] = "alive" /\ \E code \in Codes : os' = [os EXCEPT ![p] = code]
     \/ os[p] = "killed" /\ os' = [os EXCEPT ![p] = "fail"]
  /\ UNCHANGED <<def, mgr, state, exec, curExec, curProc, killArmed,
                 restartArmed, exited, tickVars, healthVars, doubled>>

\* Its waiter reports it, once there is room in the channel.
WaiterSends(p) ==
  /\ os[p] \in Codes /\ exited = "empty" /\ mgr # "panicked"
  /\ exited' = os[p]
  /\ os' = [os EXCEPT ![p] = "free"]
  /\ UNCHANGED <<def, mgr, state, exec, curExec, curProc, killArmed,
                 restartArmed, tickVars, healthVars, doubled>>

Command == CmdStart \/ CmdStopIdle \/ CmdStopActive \/ CmdDelete \/ CmdIgnored
Timer   == KillFires \/ RestartFires
Exit    == ExitStopping \/ ExitInitOk \/ ExitInitFailed \/ ExitMain
             \/ ExitUnexpected
Health  == HealthTick \/ HealthResult \/ ProbeReturns

Next ==
  \/ Command
  \/ Timer
  \/ Exit
  \/ Health
  \/ \E p \in Procs : ProcExits(p) \/ WaiterSends(p)

Spec == Init /\ [][Next]_vars

\* The select loop takes a case that stays ready, a timer that stays armed
\* fires, the ticker ticks, SIGKILL ends a process, a health check comes back (it
\* has a timeout) and a goroutine with room in its channel sends.
\* Nothing is assumed of the daemon's commands, nor of a process not killed.
Fairness ==
  /\ WF_vars(Exit) /\ WF_vars(KillFires) /\ WF_vars(RestartFires)
  /\ \A p \in Procs : /\ WF_vars(os[p] = "killed" /\ ProcExits(p))
                      /\ WF_vars(WaiterSends(p))
  /\ WF_vars(HealthTick) /\ WF_vars(HealthResult) /\ WF_vars(ProbeReturns)

FairSpec == Spec /\ Fairness
-----------------------------------------------------------------------------
(***************************************************************************)
(* Properties.                                                             *)
(***************************************************************************)

ExecStatuses ==
  [state : {"not-started", "running", "stopping", "ended"},
   pid : Procs \cup {NoProc}, group : BOOLEAN, startErr : BOOLEAN,
   failed : BOOLEAN]

\* The values the variables of run() and the kernel take.
TypeOK ==
  /\ def \in Defs
  /\ mgr \in {"running", "deleted", "panicked"}
  /\ state \in ChildStates
  /\ exec \in [Execs -> ExecStatuses]
  /\ curExec \in -1 .. def.inits
  /\ curProc \in Procs \cup {NoProc}
  /\ killArmed \in BOOLEAN /\ restartArmed \in BOOLEAN
  /\ exited \in Codes \cup {"empty"}
  /\ os \in [Procs -> OsStates]
  /\ ticker \in {"off", "initial", "slow"}
  /\ checks \in -1 .. SlowAfter + 1
  /\ probes \in 0 .. MaxProbes
  /\ results \in {"empty", "healthy", "unhealthy"}
  /\ healthy \in BOOLEAN
  /\ doubled \in BOOLEAN

\* The manager runs a process exactly in the three active states, whatever
\* commands and stale timers did.  It is why the cases logged as "wtf" (an exit
\* in another state) and "weird" (a stop with no process) are never taken.
ActiveMeansProcess == (state \in Active) <=> (curProc # NoProc)

\* The status shows one live exec at most: the current one, under the pid the
\* manager signals, being stopped exactly when the child is.  Summary looks the
\* pid to report up in that table.
StatusShowsProcess ==
  \A i \in Execs :
    /\ exec[i].pid = IF i = curExec THEN curProc ELSE NoProc
    /\ exec[i].state \in {"running", "stopping"} <=> exec[i].pid # NoProc
    /\ exec[i].state = "stopping" => state = "stopping"

\* An exec is started only when every init before it has ended with code 0 in
\* this pass, be the pass begun by a command, a restart or a stale timer; Main
\* is current in the Main states and an init in the init states.
InitsBeforeMain ==
  /\ \A i \in Execs : i < curExec => exec[i].state = "ended" /\ ~exec[i].failed
  /\ state \in {"running", "error", "done"} => curExec = def.inits
  /\ state \in {"init-running", "init-error"} => curExec \in 0 .. def.inits - 1

\* A crash is never left without its retry: unless the definition rules restarts
\* out, a child in error after an exit has the restart timer armed.  (One in
\* error because its exec could not be started does not.)
CrashHasRetry ==
  /\ state = "init-error" /\ ~def.noRestart /\ ~exec[curExec].startErr
       => restartArmed
  /\ state = "error" /\ ~def.noRestart /\ ~def.oneShot /\ ~exec[curExec].startErr
       => restartArmed

\* A stop in progress has its deadline ahead of it, or the process it waits for
\* is past it: a child is never left stopping with nothing to end it.
StopHasDeadline ==
  state = "stopping" => killArmed \/ os[curProc] # "alive"

\* Unless a restart fired on top of a running process, the manager is the parent
\* of at most one process, that process is curProc, an exit in the channel is
\* curProc's, and an exit never finds the manager without a process (the panic).
\* When the child is idle, then, nothing of it is left running or unreported.
SingleProcess ==
  ~doubled =>
    /\ \A p \in Procs : os[p] # "free" => p = curProc /\ exited = "empty"
    /\ curProc # NoProc /\ exited = "empty" => os[curProc] # "free"
    /\ exited # "empty" => curProc # NoProc
    /\ mgr # "panicked"

\* A definition that is never restarted never has a second process.
NeverRestartsNeverDoubles ==
  NeverRestarts(def) => ~restartArmed /\ ~doubled

\* api.Child.NoRestart: a child "should not be automatically restarted if it
\* exits": it leaves an idle state on a start command only.
NoRestartStaysDown ==
  [][def.noRestart /\ state \in Idle /\ state' \in Active => CmdStart]_vars

\* The child's states, timers and panics are those of the life cycle.
Lifecycle == INSTANCE PMLifecycle WITH armed <- restartArmed, killing <- killArmed
LifecycleSpec == Lifecycle!Spec

\* A stop ends: the process gone, the child is stopped, unless a stale restart
\* has the manager start another one first.
StopCompletes ==
  /\ state = "stopping" ~> state # "stopping"
  /\ NeverRestarts(def) => (state = "stopping" ~> state = "stopped")

\* A child that crashed and is not left alone for good is running again, or
\* failed to be started, or was stopped, finished or deleted.
CrashIsRetried ==
  restartArmed ~> \/ state \in Active \/ state = "stopped" \/ mgr # "running"
                  \/ exec[curExec].startErr

\* The ticker runs exactly while a health-checked Main does, and is slow exactly
\* from the SlowAfter-th check of the run on: no stop, kill, crash or restart
\* leaves it running for a dead Main or at the interval of the last run.
TickerTracksMain ==
  /\ ticker # "off" <=> state = "running" /\ def.health
  /\ ticker = "slow" <=> checks >= SlowAfter
  /\ ticker = "off" <=> checks = -1

\* A Main that stays up keeps getting verdicts: neither the channel's single
\* slot nor the change of interval ever ends the checks.
HealthKeepsBeingChecked ==
  <>[](state = "running" /\ def.health) => []<>(results # "empty")

\* panic("unimplemented: wtf") (child.go:145) is not reached.
NeverPanics == mgr # "panicked"
=============================================================================
