---------------------------- MODULE PMChildProofs ----------------------------
(***************************************************************************)
(* Theorems about PMChild, for every set of definitions, any number of     *)
(* processes and any bound on health checks.                               *)
(***************************************************************************)
EXTENDS PMChild, TLAPS

\* The exec that a process or a pending restart is about exists.
CurrentExec == curProc # NoProc \/ restartArmed => curExec \in Execs

\* The part of the inductive invariant that speaks of the status: it is closed
\* under every step by itself.
StatusInv ==
  /\ TypeOK
  /\ CurrentExec
  /\ ActiveMeansProcess
  /\ StatusShowsProcess
  /\ InitsBeforeMain

\* What Defs may hold.
LEMMA DefType == ASSUME TypeOK
                 PROVE  /\ def.inits \in Nat
                        /\ def.oneShot \in BOOLEAN
                        /\ def.noRestart \in BOOLEAN
                        /\ def.health \in BOOLEAN
BY DefsAssumption DEF TypeOK, ChildDefs

\* Starting exec i from a well-formed status leaves a well-formed status in
\* which i is current, whether or not the process could be started.
LEMMA StartExecStatus ==
  ASSUME TypeOK, UNCHANGED def,
         NEW i \in Execs, NEW table \in [Execs -> ExecStatuses],
         StartExec(i, table), curExec' = i,
         \A j \in Execs \ {i} : table[j].pid = NoProc
                                  /\ table[j].state \in {"not-started", "ended"},
         \A j \in Execs : j < i => table[j].state = "ended" /\ ~table[j].failed
  PROVE  /\ exec' \in [Execs -> ExecStatuses]
         /\ curProc' \in Procs \cup {NoProc}
         /\ os' \in [Procs -> OsStates]
         /\ state' \in ChildStates
         /\ ActiveMeansProcess'
         /\ StatusShowsProcess'
         /\ InitsBeforeMain'
<1> USE DefType, ProcsAssumption DEF StartExec, ExecStatuses, ExecStatus, StartError,
      Execs, TypeOK
<1>1. CASE \E p \in {q \in Procs \ {curProc} : os[q] = "free"}, g \in BOOLEAN :
             /\ os' = [os EXCEPT ![p] = "alive"]
             /\ curProc' = p
             /\ exec' = [table EXCEPT ![i] = ExecStatus("running", p, g, FALSE, FALSE)]
             /\ state' = RunningState(def, i)
  <2>1. PICK p \in {q \in Procs \ {curProc} : os[q] = "free"}, g \in BOOLEAN :
             /\ os' = [os EXCEPT ![p] = "alive"]
             /\ curProc' = p
             /\ exec' = [table EXCEPT ![i] = ExecStatus("running", p, g, FALSE, FALSE)]
             /\ state' = RunningState(def, i)
    BY <1>1
  <2>2. /\ exec' \in [Execs -> ExecStatuses]
        /\ curProc' \in Procs \cup {NoProc}
        /\ os' \in [Procs -> OsStates]
        /\ state' \in {"init-running", "running"}
    BY <2>1 DEF OsStates, RunningState
  <2>3. ActiveMeansProcess'
    BY <2>1, <2>2 DEF ActiveMeansProcess, Active
  <2>4. StatusShowsProcess'
    BY <2>1, <2>2 DEF StatusShowsProcess
  <2>5. InitsBeforeMain'
    BY <2>1, <2>2 DEF InitsBeforeMain, RunningState
  <2> QED BY <2>2, <2>3, <2>4, <2>5 DEF ChildStates, Active
<1>2. CASE /\ curProc' = NoProc
           /\ exec' = [table EXCEPT ![i] = StartError]
           /\ state' = ErrorState(def, i)
           /\ UNCHANGED os
  <2>2. /\ exec' \in [Execs -> ExecStatuses]
        /\ curProc' \in Procs \cup {NoProc}
        /\ os' \in [Procs -> OsStates]
        /\ state' \in {"init-error", "error"}
    BY <1>2 DEF ErrorState
  <2>3. ActiveMeansProcess'
    BY <1>2, <2>2 DEF ActiveMeansProcess, Active
  <2>4. StatusShowsProcess'
    BY <1>2, <2>2 DEF StatusShowsProcess
  <2>5. InitsBeforeMain'
    BY <1>2, <2>2 DEF InitsBeforeMain, ErrorState
  <2> QED BY <2>2, <2>3, <2>4, <2>5 DEF ChildStates, Idle
<1> QED BY <1>1, <1>2

\* The status after the current exec has ended differs in that exec only.
LEMMA EndedStatus ==
  ASSUME TypeOK, curExec \in Execs, NEW code \in Codes, NEW g \in BOOLEAN
  PROVE  /\ Ended(code, g) \in [Execs -> ExecStatuses]
         /\ \A j \in Execs \ {curExec} : Ended(code, g)[j] = exec[j]
         /\ Ended(code, g)[curExec].state = "ended"
         /\ Ended(code, g)[curExec].pid = NoProc
         /\ Ended(code, g)[curExec].failed = (code = "fail")
         /\ Ended(code, g)[curExec].startErr = FALSE
<1> DEFINE e == ExecStatus("ended", NoProc, g, FALSE, code = "fail")
<1>1. e \in ExecStatuses
  BY DEF ExecStatus, ExecStatuses
<1>2. /\ e.state = "ended" /\ e.pid = NoProc /\ e.failed = (code = "fail")
      /\ e.startErr = FALSE
  BY DEF ExecStatus
<1>3. Ended(code, g) = [exec EXCEPT ![curExec] = e]
  BY DEF Ended
<1> HIDE DEF e
<1> QED BY <1>1, <1>2, <1>3 DEF TypeOK

\* Recording a group or forgetting it leaves the rest of an exec's status alone.
LEMMA GroupStatus ==
  ASSUME NEW e \in ExecStatuses, NEW b \in BOOLEAN
  PROVE  /\ WithGroup(e, b) \in ExecStatuses
         /\ WithGroup(e, b).pid = e.pid
         /\ WithGroup(e, b).state = e.state
BY DEF ExecStatuses, ExecStatus, WithGroup

\* The ticker takes its own values, whatever a handler passes on.
LEMMA SetTickerType ==
  ASSUME NEW t \in {"off", "initial", "slow"}, NEW n \in -1 .. SlowAfter + 1,
         SetTicker(t, n)
  PROVE  /\ ticker' \in {"off", "initial", "slow"}
         /\ checks' \in -1 .. SlowAfter + 1
BY DEF SetTicker, SlowAfter

\* A step that leaves the status, the current process and exec as they are keeps
\* all of StatusInv but the types of what it changes.
LEMMA StatusUnchanged ==
  ASSUME StatusInv, UNCHANGED <<def, state, exec, curExec, curProc>>,
         restartArmed' => restartArmed
  PROVE  /\ CurrentExec' /\ ActiveMeansProcess' /\ StatusShowsProcess'
         /\ InitsBeforeMain'
BY DEF StatusInv, CurrentExec, ActiveMeansProcess, StatusShowsProcess,
       InitsBeforeMain, Execs

\* StatusInv is inductive.
LEMMA StatusStep == StatusInv /\ [Next]_vars => StatusInv'
<1> SUFFICES ASSUME StatusInv, [Next]_vars PROVE StatusInv'
  OBVIOUS
<1>0. TypeOK
  BY DEF StatusInv
<1> USE DefType, <1>0
<1>1. CASE CmdStart
  <2>1. 0 \in Execs
    BY DEF Execs
  <2>2. \A j \in Execs : exec[j].pid = NoProc /\ exec[j].state \in {"not-started", "ended"}
    BY <1>1 DEF CmdStart, StatusInv, ActiveMeansProcess, StatusShowsProcess, Idle, Active,
                TypeOK, ExecStatuses
  <2>3. exec \in [Execs -> ExecStatuses] /\ StartExec(0, exec) /\ curExec' = 0 /\ UNCHANGED def
    BY <1>1 DEF CmdStart, TypeOK
  <2>4. /\ exec' \in [Execs -> ExecStatuses]
        /\ curProc' \in Procs \cup {NoProc}
        /\ os' \in [Procs -> OsStates]
        /\ state' \in ChildStates
        /\ ActiveMeansProcess' /\ StatusShowsProcess' /\ InitsBeforeMain'
    BY <2>1, <2>2, <2>3, StartExecStatus DEF Execs
  <2>5. TypeOK'
    BY <1>1, <2>4, SetTickerType DEF CmdStart, TypeOK, Execs, healthVars
  <2>6. CurrentExec'
    BY <1>1 DEF CmdStart, CurrentExec, Execs
  <2> QED BY <2>4, <2>5, <2>6 DEF StatusInv
<1>2. CASE CmdStopIdle
  <2>1. TypeOK'
    BY <1>2, SetTickerType DEF CmdStopIdle, TypeOK, Execs, healthVars, procVars, ChildStates, Idle
  <2>2. CurrentExec'
    BY <1>2 DEF CmdStopIdle, CurrentExec, Execs
  <2>3. ActiveMeansProcess'
    BY <1>2 DEF CmdStopIdle, ActiveMeansProcess, Active
  <2>4. StatusShowsProcess'
    BY <1>2 DEF StatusInv, CmdStopIdle, StatusShowsProcess, Execs
  <2>5. InitsBeforeMain'
    BY <1>2 DEF StatusInv, CmdStopIdle, InitsBeforeMain, Execs
  <2> QED BY <2>1, <2>2, <2>3, <2>4, <2>5 DEF StatusInv
<1>3. CASE CmdStopActive
  <2>1. curExec \in Execs /\ curProc \in Procs
    BY <1>3 DEF CmdStopActive, StatusInv, CurrentExec, TypeOK
  <2>2. TypeOK'
    BY ZenonT(60), <1>3, <2>1, SetTickerType
    DEF CmdStopActive, MarkStopping, TypeOK, Execs, ExecStatuses, healthVars, procVars,
        ChildStates, Active
  <2>3. CurrentExec'
    BY <1>3, <2>1 DEF CmdStopActive, CurrentExec, Execs
  <2>4. ActiveMeansProcess'
    BY <1>3 DEF CmdStopActive, ActiveMeansProcess, Active
  <2>5. StatusShowsProcess'
    BY <1>3, <2>1, ProcsAssumption
    DEF StatusInv, CmdStopActive, MarkStopping, StatusShowsProcess, Execs, TypeOK, ExecStatuses
  <2>6. InitsBeforeMain'
    BY <1>3, <2>1
    DEF StatusInv, CmdStopActive, MarkStopping, InitsBeforeMain, Execs, TypeOK, ExecStatuses
  <2> QED BY <2>2, <2>3, <2>4, <2>5, <2>6 DEF StatusInv
<1>4. CASE CmdDelete
  <2>1. TypeOK'
    BY <1>4 DEF CmdDelete, TypeOK, Execs, healthVars, procVars
  <2> QED BY <1>4, <2>1, StatusUnchanged DEF CmdDelete, StatusInv
<1>5. CASE CmdIgnored
  <2>1. TypeOK'
    BY <1>5, SetTickerType DEF CmdIgnored, TypeOK, Execs, healthVars, procVars
  <2> QED BY <1>5, <2>1, StatusUnchanged DEF CmdIgnored, StatusInv
<1>6. CASE KillFires
  <2>1. CASE curProc = NoProc
    <3>1. UNCHANGED <<def, state, exec, curExec, curProc, os, restartArmed>>
      BY <1>6, <2>1 DEF KillFires
    <3>2. TypeOK'
      BY <1>6, <3>1, SetTickerType DEF KillFires, TypeOK, Execs, healthVars
    <3> QED BY <3>1, <3>2, StatusUnchanged DEF StatusInv
  <2>2. CASE curProc # NoProc
    <3>1. curExec \in Execs /\ curProc \in Procs
      BY <2>2 DEF StatusInv, CurrentExec, TypeOK
    <3>2. /\ SendKill
          /\ MarkStopping /\ state' = "stopping"
          /\ UNCHANGED <<def, curExec, curProc, restartArmed>>
      BY <1>6, <2>2 DEF KillFires
    <3>3. TypeOK'
      BY ZenonT(60), <1>6, <3>1, <3>2, SetTickerType
      DEF KillFires, SendKill, MarkStopping, TypeOK, Execs, ExecStatuses, OsStates, Codes, healthVars,
          ChildStates, Active
    <3>4. CurrentExec'
      BY <3>1, <3>2 DEF CurrentExec, Execs
    <3>5. ActiveMeansProcess'
      BY <3>2, <2>2 DEF ActiveMeansProcess, Active
    <3>6. StatusShowsProcess'
      BY <2>2, <3>1, <3>2, ProcsAssumption
      DEF StatusInv, MarkStopping, StatusShowsProcess, Execs, TypeOK, ExecStatuses
    <3>7. InitsBeforeMain'
      BY <3>1, <3>2
      DEF StatusInv, MarkStopping, InitsBeforeMain, Execs, TypeOK, ExecStatuses
    <3> QED BY <3>3, <3>4, <3>5, <3>6, <3>7 DEF StatusInv
  <2> QED BY <2>1, <2>2
<1>7. CASE RestartFires
  <2>1. curExec \in Execs
    BY <1>7 DEF RestartFires, StatusInv, CurrentExec
  <2>2. \A j \in Execs \ {curExec} : exec[j].pid = NoProc
                                       /\ exec[j].state \in {"not-started", "ended"}
    BY DEF StatusInv, StatusShowsProcess, TypeOK, ExecStatuses
  <2>3. /\ exec \in [Execs -> ExecStatuses] /\ StartExec(curExec, exec)
        /\ curExec' = curExec /\ UNCHANGED def
    BY <1>7 DEF RestartFires, TypeOK
  <2>4. \A j \in Execs : j < curExec => exec[j].state = "ended" /\ ~exec[j].failed
    BY DEF StatusInv, InitsBeforeMain
  <2>5. /\ exec' \in [Execs -> ExecStatuses]
        /\ curProc' \in Procs \cup {NoProc}
        /\ os' \in [Procs -> OsStates]
        /\ state' \in ChildStates
        /\ ActiveMeansProcess' /\ StatusShowsProcess' /\ InitsBeforeMain'
    BY <2>1, <2>2, <2>3, <2>4, StartExecStatus
  <2>6. TypeOK'
    BY <1>7, <2>5, SetTickerType DEF RestartFires, TypeOK, Execs, healthVars
  <2>7. CurrentExec'
    BY <2>1, <2>3 DEF CurrentExec, Execs
  <2> QED BY <2>5, <2>6, <2>7 DEF StatusInv
<1>8. CASE ExitStopping
  <2>1. PICK code \in Codes, kept \in [Execs -> BOOLEAN] :
             exec' = [i \in Execs |-> WithGroup(Ended(code, kept[curExec])[i], kept[i])]
    BY <1>8 DEF ExitStopping
  <2>2. /\ UNCHANGED <<def, mgr, killArmed, restartArmed, os, healthVars, doubled>>
        /\ exited' = "empty" /\ curProc # NoProc /\ curProc' = NoProc
        /\ state' = "stopped" /\ curExec' = 0 /\ SetTicker(ticker, checks)
    BY <1>8 DEF ExitStopping, TakeExit
  <2>3. curExec \in Execs /\ kept[curExec] \in BOOLEAN
    BY <2>2 DEF StatusInv, CurrentExec
  <2> DEFINE table == Ended(code, kept[curExec])
  <2>a. /\ table \in [Execs -> ExecStatuses]
        /\ \A j \in Execs \ {curExec} : table[j] = exec[j]
        /\ table[curExec].state = "ended" /\ table[curExec].pid = NoProc
    BY <2>3, EndedStatus
  <2>b. \A i \in Execs : exec'[i] = WithGroup(table[i], kept[i])
    BY <2>1
  <2> HIDE DEF table
  <2>4. \A i \in Execs : exec'[i] \in ExecStatuses /\ exec'[i].pid = NoProc
                           /\ exec'[i].state \in {"not-started", "ended"}
    <3> TAKE i \in Execs
    <3>1. /\ table[i] \in ExecStatuses /\ table[i].pid = NoProc
          /\ table[i].state \in {"not-started", "ended"}
      BY <2>3, <2>a DEF StatusInv, StatusShowsProcess, TypeOK, ExecStatuses
    <3>2. kept[i] \in BOOLEAN
      OBVIOUS
    <3>3. /\ WithGroup(table[i], kept[i]) \in ExecStatuses
          /\ WithGroup(table[i], kept[i]).pid = NoProc
          /\ WithGroup(table[i], kept[i]).state \in {"not-started", "ended"}
      BY <3>1, <3>2, GroupStatus
    <3> QED BY <3>3, <2>b
  <2>5. exec' \in [Execs' -> ExecStatuses]
    BY <2>1, <2>2, <2>4 DEF Execs
  <2>6. TypeOK'
    BY <2>2, <2>5, SetTickerType DEF TypeOK, Execs, healthVars, ChildStates, Idle
  <2>7. CurrentExec' /\ ActiveMeansProcess' /\ InitsBeforeMain'
    BY <2>2 DEF CurrentExec, Execs, ActiveMeansProcess, Active, InitsBeforeMain
  <2>8. StatusShowsProcess'
    BY <2>2, <2>4 DEF StatusShowsProcess, Execs
  <2> QED BY <2>6, <2>7, <2>8 DEF StatusInv
<1>9. CASE ExitInitOk
  <2>1. PICK g \in KeptGroup : StartExec(curExec + 1, Ended("ok", g))
    BY <1>9 DEF ExitInitOk
  <2>2. /\ UNCHANGED <<def, mgr, killArmed, restartArmed, healthVars, doubled>>
        /\ exited' = "empty" /\ curProc # NoProc /\ state = "init-running"
        /\ curExec' = curExec + 1 /\ SetTicker(ticker, checks)
    BY <1>9 DEF ExitInitOk, TakeExit
  <2>3. curExec \in 0 .. def.inits - 1
    BY <2>2 DEF StatusInv, InitsBeforeMain
  <2> DEFINE table == Ended("ok", g)
  <2>a. g \in BOOLEAN /\ curExec \in Execs /\ "ok" \in Codes
    <3>1. curExec \in Execs
      BY <2>3 DEF Execs
    <3> QED BY <3>1 DEF KeptGroup, TypeOK, ExecStatuses, Codes
  <2>4. /\ table \in [Execs -> ExecStatuses]
        /\ \A j \in Execs \ {curExec} : table[j] = exec[j]
        /\ table[curExec].state = "ended" /\ table[curExec].pid = NoProc
        /\ ~table[curExec].failed
    BY <2>a, EndedStatus
  <2>b. StartExec(curExec + 1, table)
    BY <2>1
  <2> HIDE DEF table
  <2>5. \A j \in Execs \ {curExec + 1} : table[j].pid = NoProc
                                           /\ table[j].state \in {"not-started", "ended"}
    BY <2>a, <2>4 DEF ExecStatuses, TypeOK, StatusInv, StatusShowsProcess
  <2>6. \A j \in Execs : j < curExec + 1 => table[j].state = "ended" /\ ~table[j].failed
    BY <2>3, <2>a, <2>4 DEF StatusInv, InitsBeforeMain, Execs
  <2>7. curExec + 1 \in Execs
    BY <2>3 DEF Execs
  <2>8. /\ exec' \in [Execs -> ExecStatuses]
        /\ curProc' \in Procs \cup {NoProc}
        /\ os' \in [Procs -> OsStates]
        /\ state' \in ChildStates
        /\ ActiveMeansProcess' /\ StatusShowsProcess' /\ InitsBeforeMain'
    BY <2>2, <2>4, <2>5, <2>6, <2>7, <2>b, StartExecStatus
  <2>9. TypeOK'
    BY <2>2, <2>3, <2>8, SetTickerType DEF TypeOK, Execs, healthVars
  <2>10. CurrentExec'
    BY <2>2, <2>3 DEF CurrentExec, Execs
  <2> QED BY <2>8, <2>9, <2>10 DEF StatusInv
<1>10. CASE ExitInitFailed \/ ExitMain
  <2>1. PICK code \in Codes, g \in KeptGroup : exec' = Ended(code, g)
    BY <1>10 DEF ExitInitFailed, FailInit, ExitMain, Codes
  <2>2. /\ UNCHANGED <<def, mgr, curExec, killArmed, os, healthVars, doubled>>
        /\ exited' = "empty" /\ curProc # NoProc /\ curProc' = NoProc
        /\ restartArmed' \in BOOLEAN /\ SetTicker(ticker, checks)
        /\ \/ state = "init-running" /\ state' = "init-error"
           \/ state = "running" /\ state' \in {"done", "error", "stopped"}
    BY <1>10 DEF ExitInitFailed, FailInit, ExitMain, TakeExit, TypeOK, MainExit, RestartsMain
  <2>3. curExec \in Execs /\ g \in BOOLEAN
    BY <2>1, <2>2 DEF StatusInv, CurrentExec, KeptGroup, TypeOK, ExecStatuses
  <2>4. /\ exec' \in [Execs -> ExecStatuses]
        /\ \A j \in Execs \ {curExec} : exec'[j] = exec[j]
        /\ exec'[curExec].state = "ended" /\ exec'[curExec].pid = NoProc
    BY <2>1, <2>3, EndedStatus
  <2>5. TypeOK'
    BY <2>2, <2>4, SetTickerType DEF TypeOK, Execs, healthVars, ChildStates, Idle
  <2>6. CurrentExec' /\ ActiveMeansProcess'
    BY <2>2, <2>3 DEF CurrentExec, Execs, ActiveMeansProcess, Active
  <2>7. StatusShowsProcess'
    BY <2>2, <2>3, <2>4 DEF StatusInv, StatusShowsProcess, Execs
  <2>8. InitsBeforeMain'
    BY <2>2, <2>3, <2>4 DEF StatusInv, InitsBeforeMain, Execs
  <2> QED BY <2>5, <2>6, <2>7, <2>8 DEF StatusInv
<1>11. CASE ExitUnexpected
  <2>1. TypeOK'
    BY <1>11 DEF ExitUnexpected, TypeOK, Execs, healthVars, tickVars
  <2> QED BY <1>11, <2>1, StatusUnchanged DEF ExitUnexpected, StatusInv
<1>12. CASE HealthTick
  <2>1. \E t \in {"off", "initial", "slow"}, n \in -1 .. SlowAfter + 1 : SetTicker(t, n)
    BY <1>12 DEF HealthTick, TypeOK, SlowAfter
  <2>2. TypeOK'
    BY <1>12, <2>1, SetTickerType, ProbesAssumption
    DEF HealthTick, TypeOK, Execs, healthVars, procVars
  <2> QED BY <1>12, <2>2, StatusUnchanged DEF HealthTick, StatusInv
<1>13. CASE ProbeReturns
  <2>1. TypeOK'
    BY <1>13, ProbesAssumption DEF ProbeReturns, TypeOK, Execs, tickVars, procVars
  <2> QED BY <1>13, <2>1, StatusUnchanged DEF ProbeReturns, StatusInv
<1>14. CASE HealthResult
  <2>1. TypeOK'
    <3>1. healthy' \in BOOLEAN
      BY <1>14 DEF HealthResult
    <3> QED BY <1>14, <3>1, SetTickerType DEF HealthResult, TypeOK, Execs, procVars
  <2> QED BY <1>14, <2>1, StatusUnchanged DEF HealthResult, StatusInv
<1>15. ASSUME NEW p \in Procs, ProcExits(p) \/ WaiterSends(p)
       PROVE  StatusInv'
  <2>1. TypeOK'
    BY <1>15 DEF ProcExits, WaiterSends, TypeOK, OsStates, Codes, Execs, healthVars, tickVars
  <2> QED BY <1>15, <2>1, StatusUnchanged DEF ProcExits, WaiterSends, StatusInv
<1>16. CASE UNCHANGED vars
  <2>1. TypeOK'
    BY <1>16 DEF vars, TypeOK, Execs, healthVars, procVars, tickVars
  <2> QED BY <1>16, <2>1, StatusUnchanged DEF vars, StatusInv
<1> QED
  BY <1>1, <1>2, <1>3, <1>4, <1>5, <1>6, <1>7, <1>8, <1>9, <1>10, <1>11, <1>12, <1>13,
     <1>14, <1>15, <1>16 DEF Next, Command, Timer, Exit, Health

\* A new child's status is well-formed: nothing was started.
LEMMA StatusInit == Init => StatusInv
<1> SUFFICES ASSUME Init PROVE StatusInv
  OBVIOUS
<1>1. def.inits \in Nat
  BY DefsAssumption DEF Init, ChildDefs
<1>2. NotStarted \in ExecStatuses /\ NotStarted.pid = NoProc
      /\ NotStarted.state = "not-started"
  BY DEF NotStarted, ExecStatus, ExecStatuses
<1>3. \A i \in Execs : exec[i] = NotStarted
  BY DEF Init
<1>4. TypeOK
  <2>1. exec \in [Execs -> ExecStatuses]
    BY <1>2 DEF Init
  <2>2. /\ curExec \in -1 .. def.inits
        /\ checks \in -1 .. SlowAfter + 1
        /\ probes \in 0 .. MaxProbes
    BY <1>1, ProbesAssumption DEF Init, SlowAfter
  <2>3. os \in [Procs -> OsStates]
    BY DEF Init, OsStates
  <2> QED BY <2>1, <2>2, <2>3 DEF Init, TypeOK, ChildStates, Idle
<1>5. CurrentExec /\ ActiveMeansProcess
  BY DEF Init, CurrentExec, ActiveMeansProcess, Active
<1>6. StatusShowsProcess /\ InitsBeforeMain
  BY <1>1, <1>2, <1>3 DEF Init, StatusShowsProcess, InitsBeforeMain, Execs
<1> QED BY <1>4, <1>5, <1>6 DEF StatusInv

\* The variables of the manager and the kernel keep to their types.
THEOREM TypeCorrect == Spec => []TypeOK
<1>1. StatusInv => TypeOK
  BY DEF StatusInv
<1> QED BY StatusInit, StatusStep, <1>1, PTL DEF Spec

-----------------------------------------------------------------------------
(***************************************************************************)
(* One process.                                                            *)
(***************************************************************************)

\* What starting an exec does to the processes.
LEMMA StartExecProcs ==
  ASSUME TypeOK, NEW i, NEW table, StartExec(i, table)
  PROVE  \/ /\ curProc' \in Procs \ {curProc} /\ os[curProc'] = "free"
            /\ os' = [os EXCEPT ![curProc'] = "alive"]
         \/ curProc' = NoProc /\ os' = os
BY DEF StartExec

\* Starting an exec when nothing is left of an earlier one leaves one process, or none.
LEMMA StartExecSingle ==
  ASSUME TypeOK, NEW i, NEW table, StartExec(i, table), exited' = "empty", mgr' # "panicked",
         \A p \in Procs : os[p] = "free"
  PROVE  SingleProcess'
BY StartExecProcs, ProcsAssumption DEF SingleProcess, TypeOK

\* SingleProcess is preserved by every step, given StatusInv: an idle manager has
\* no process, so a start finds nothing left, and only a restart can find one.
LEMMA SingleProcessStep ==
  StatusInv /\ SingleProcess /\ [Next]_vars => SingleProcess'
<1> SUFFICES ASSUME StatusInv, SingleProcess, [Next]_vars, ~doubled' PROVE SingleProcess'
  BY DEF SingleProcess
<1>0. TypeOK /\ ActiveMeansProcess
  BY DEF StatusInv
<1>a. ASSUME exited # "empty" \/ curProc = NoProc, ~doubled
      PROVE  \A p \in Procs : os[p] = "free"
  BY <1>a, ProcsAssumption DEF SingleProcess
<1>b. ~doubled => mgr # "panicked"
  BY DEF SingleProcess
<1>1. CASE CmdStart
  <2>1. ~doubled /\ curProc = NoProc /\ exited = "empty"
    BY <1>0, <1>1 DEF CmdStart, ActiveMeansProcess, Idle, Active, SingleProcess
  <2>2. StartExec(0, exec) /\ exited' = "empty" /\ mgr' # "panicked"
    BY <1>1, <2>1 DEF CmdStart
  <2> QED BY <1>0, <1>a, <2>1, <2>2, StartExecSingle
<1>2. CASE CmdStopIdle \/ CmdStopActive \/ CmdDelete \/ CmdIgnored \/ HealthTick
           \/ ProbeReturns \/ HealthResult \/ UNCHANGED vars
  <2>1. /\ UNCHANGED <<curProc, exited, os, doubled>>
        /\ mgr' = mgr \/ mgr' = "deleted"
    BY <1>2 DEF CmdStopIdle, CmdStopActive, CmdDelete, CmdIgnored, HealthTick,
                ProbeReturns, HealthResult, vars, procVars
  <2> QED BY <2>1 DEF SingleProcess
<1>3. CASE KillFires
  <2>1. UNCHANGED <<mgr, curProc, exited, doubled>>
    BY <1>3 DEF KillFires
  <2>2. \A p \in Procs : os'[p] = "free" <=> os[p] = "free"
    BY <1>0, <1>3, ProcsAssumption DEF KillFires, SendKill, TypeOK
  <2> QED BY <1>0, <2>1, <2>2 DEF SingleProcess, TypeOK
<1>4. CASE RestartFires
  <2>1. ~doubled /\ curProc = NoProc
    BY <1>4 DEF RestartFires
  <2>2. exited' = "empty" /\ mgr' # "panicked" /\ StartExec(curExec, exec)
    BY <1>4, <2>1 DEF RestartFires, SingleProcess
  <2> QED BY <1>0, <1>a, <2>1, <2>2, StartExecSingle
<1>5. CASE ExitInitOk
  <2>1. PICK g \in KeptGroup : StartExec(curExec + 1, Ended("ok", g))
    BY <1>5 DEF ExitInitOk
  <2>2. ~doubled /\ exited # "empty" /\ exited' = "empty" /\ mgr' # "panicked"
    BY <1>5 DEF ExitInitOk, TakeExit
  <2> QED BY <1>0, <1>a, <2>1, <2>2, StartExecSingle
<1>6. CASE ExitStopping \/ ExitInitFailed \/ ExitMain
  <2>1. /\ ~doubled /\ exited # "empty" /\ exited' = "empty" /\ curProc' = NoProc
        /\ UNCHANGED os /\ mgr' # "panicked"
    BY <1>6 DEF ExitStopping, ExitInitFailed, FailInit, ExitMain, TakeExit, Codes
  <2> QED BY <1>a, <2>1 DEF SingleProcess
<1>7. CASE ExitUnexpected
  BY <1>7 DEF ExitUnexpected, SingleProcess
<1>8. ASSUME NEW p \in Procs, ProcExits(p) PROVE SingleProcess'
  <2>1. /\ UNCHANGED <<mgr, curProc, exited, doubled>>
        /\ os[p] # "free" /\ os' \in [Procs -> OsStates] /\ os'[p] # "free"
        /\ \A q \in Procs \ {p} : os'[q] = os[q]
    BY <1>0, <1>8 DEF ProcExits, TypeOK, OsStates, Codes
  <2> QED BY <2>1 DEF SingleProcess
<1>9. ASSUME NEW p \in Procs, WaiterSends(p) PROVE SingleProcess'
  <2>1. /\ UNCHANGED <<mgr, curProc, doubled>>
        /\ os[p] # "free" /\ os'[p] = "free" /\ exited = "empty" /\ exited' # "empty"
        /\ \A q \in Procs \ {p} : os'[q] = os[q]
    BY <1>0, <1>9 DEF WaiterSends, TypeOK, OsStates, Codes
  <2>2. p = curProc /\ \A q \in Procs \ {p} : os[q] = "free"
    BY <2>1 DEF SingleProcess
  <2> QED BY <2>1, <2>2, ProcsAssumption DEF SingleProcess
<1> QED
  BY <1>1, <1>2, <1>3, <1>4, <1>5, <1>6, <1>7, <1>8, <1>9
  DEF Next, Command, Timer, Exit, Health

\* A child whose definition never arms the restart timer never has it armed, so
\* that no restart ever finds a process.
LEMMA NeverRestartsStep ==
  StatusInv /\ NeverRestartsNeverDoubles /\ [Next]_vars => NeverRestartsNeverDoubles'
<1> SUFFICES ASSUME StatusInv, NeverRestartsNeverDoubles, [Next]_vars,
                    NeverRestarts(def')
             PROVE  ~restartArmed' /\ ~doubled'
  BY DEF NeverRestartsNeverDoubles
<1>1. def' = def
  BY DEF Next, vars, Command, CmdStart, CmdStopIdle, CmdStopActive, CmdDelete, CmdIgnored,
         Timer, KillFires, RestartFires, Exit, ExitStopping, ExitInitOk, ExitInitFailed,
         FailInit, ExitMain, ExitUnexpected, Health, HealthTick, ProbeReturns,
         HealthResult, ProcExits, WaiterSends
<1>2. ~restartArmed /\ ~doubled
  BY <1>1 DEF NeverRestartsNeverDoubles
<1>3. CASE ExitInitFailed
  <2>1. 0 < def.inits
    BY <1>3, DefType DEF ExitInitFailed, FailInit, StatusInv, InitsBeforeMain
  <2>2. def.noRestart
    BY <1>1, <2>1 DEF NeverRestarts
  <2> QED BY <1>2, <1>3, <2>2 DEF ExitInitFailed, FailInit
<1>4. CASE ExitMain
  <2>1. ~RestartsMain(def)
    BY <1>1 DEF RestartsMain, NeverRestarts
  <2>2. restartArmed' <=> restartArmed \/ RestartsMain(def)
    BY <1>4 DEF ExitMain
  <2>3. doubled' = doubled
    BY <1>4 DEF ExitMain
  <2> QED BY <1>2, <2>1, <2>2, <2>3
<1>5. CASE ~ExitInitFailed /\ ~ExitMain
  <2>1. restartArmed' => restartArmed
    BY <1>2, <1>5 DEF Next, vars, Command, CmdStart, CmdStopIdle, CmdStopActive, CmdDelete, CmdIgnored,
         Timer, KillFires, RestartFires, Exit, ExitStopping, ExitInitOk,
         ExitUnexpected, Health, HealthTick, ProbeReturns,
         HealthResult, ProcExits, WaiterSends
  <2>2. doubled' => doubled
    BY <1>2, <1>5 DEF Next, vars, Command, CmdStart, CmdStopIdle, CmdStopActive, CmdDelete, CmdIgnored,
         Timer, KillFires, RestartFires, Exit, ExitStopping, ExitInitOk,
         ExitUnexpected, Health, HealthTick, ProbeReturns,
         HealthResult, ProcExits, WaiterSends
  <2> QED BY <1>2, <2>1, <2>2
<1> QED BY <1>3, <1>4, <1>5

\* The inductive invariant: the status, the processes, the definitions that are
\* never restarted.
ProcessInv == StatusInv /\ SingleProcess /\ NeverRestartsNeverDoubles

\* The inductive invariant holds in every reachable state.
LEMMA ProcessInvCorrect == Spec => []ProcessInv
<1>1. Init => ProcessInv
  <2>1. Init => SingleProcess /\ NeverRestartsNeverDoubles
    BY DEF Init, SingleProcess, NeverRestartsNeverDoubles
  <2> QED BY <2>1, StatusInit DEF ProcessInv
<1>2. ProcessInv /\ [Next]_vars => ProcessInv'
  BY StatusStep, SingleProcessStep, NeverRestartsStep DEF ProcessInv
<1> QED BY <1>1, <1>2, PTL DEF Spec

\* The manager has a process in the active states and in no other.
THEOREM ActiveMeansProcessCorrect == Spec => []ActiveMeansProcess
<1>1. ProcessInv => ActiveMeansProcess
  BY DEF ProcessInv, StatusInv
<1> QED BY ProcessInvCorrect, <1>1, PTL

\* The status names the process the manager runs.
THEOREM StatusShowsProcessCorrect == Spec => []StatusShowsProcess
<1>1. ProcessInv => StatusShowsProcess
  BY DEF ProcessInv, StatusInv
<1> QED BY ProcessInvCorrect, <1>1, PTL

\* No exec is started before its predecessors have ended well.
THEOREM InitsBeforeMainCorrect == Spec => []InitsBeforeMain
<1>1. ProcessInv => InitsBeforeMain
  BY DEF ProcessInv, StatusInv
<1> QED BY ProcessInvCorrect, <1>1, PTL

\* One process at most, until a restart fires on top of a running one.
THEOREM SingleProcessCorrect == Spec => []SingleProcess
<1>1. ProcessInv => SingleProcess
  BY DEF ProcessInv
<1> QED BY ProcessInvCorrect, <1>1, PTL

\* A definition whose exits never arm the restart timer never has two processes,
\* and so never takes the manager down.
THEOREM NeverRestartsNeverPanics == Spec => [](NeverRestarts(def) => NeverPanics)
<1>1. ProcessInv => (NeverRestarts(def) => NeverPanics)
  BY DEF ProcessInv, SingleProcess, NeverRestartsNeverDoubles, NeverPanics
<1> QED BY ProcessInvCorrect, <1>1, PTL

\* A definition whose exits never arm the restart timer has no restart pending and
\* no second process.
THEOREM NeverRestartsNeverDoublesCorrect == Spec => []NeverRestartsNeverDoubles
<1>1. ProcessInv => NeverRestartsNeverDoubles
  BY DEF ProcessInv
<1> QED BY ProcessInvCorrect, <1>1, PTL

\* NoRestart is honoured: with no restart ever armed, an idle child becomes
\* active on a start command only.
THEOREM NoRestartStaysDownCorrect == Spec => NoRestartStaysDown
<1>1. ProcessInv /\ [Next]_vars
        => [def.noRestart /\ state \in Idle /\ state' \in Active => CmdStart]_vars
  <2> SUFFICES ASSUME ProcessInv, Next, def.noRestart, state \in Idle, state' \in Active
               PROVE  CmdStart
    OBVIOUS
  <2>1. ~restartArmed /\ curProc = NoProc
    BY DEF ProcessInv, StatusInv, ActiveMeansProcess, NeverRestartsNeverDoubles,
           NeverRestarts, Idle, Active
  <2>2. state' # state
    BY DEF Idle, Active
  <2> QED BY <2>1, <2>2
          DEF Next, Command, Timer, Exit, Health, CmdStopIdle, CmdStopActive, CmdDelete,
              CmdIgnored, KillFires, RestartFires, ExitStopping, ExitInitOk,
              ExitInitFailed, FailInit, ExitMain, ExitUnexpected, TakeExit, HealthTick,
              ProbeReturns, HealthResult, ProcExits, WaiterSends, Idle, Active
<1> QED BY ProcessInvCorrect, <1>1, PTL DEF Spec, NoRestartStaysDown

-----------------------------------------------------------------------------
(***************************************************************************)
(* Deadlines and retries.                                                  *)
(***************************************************************************)

\* A stop in progress keeps its deadline: only the kill timer's own firing takes
\* it away, and that kills the process.
THEOREM StopHasDeadlineCorrect == Spec => []StopHasDeadline
<1>1. Init => StopHasDeadline
  BY DEF Init, StopHasDeadline
<1>2. StatusInv /\ StopHasDeadline /\ [Next]_vars => StopHasDeadline'
  <2> SUFFICES ASSUME StatusInv, StopHasDeadline, [Next]_vars, state' = "stopping"
               PROVE  killArmed' \/ os'[curProc'] # "alive"
    BY DEF StopHasDeadline
  <2>0. TypeOK /\ ActiveMeansProcess
    BY DEF StatusInv
  <2>1. CASE CmdStopActive
    BY <2>1 DEF CmdStopActive
  <2>2. CASE KillFires
    <3>1. CASE curProc = NoProc
      BY <2>0, <2>2, <3>1 DEF KillFires, ActiveMeansProcess, Active
    <3>2. CASE curProc # NoProc
      <4>1. /\ SendKill
            /\ curProc' = curProc /\ curProc \in Procs
        BY <2>0, <2>2, <3>2 DEF KillFires, TypeOK
      <4> QED BY <2>0, <4>1 DEF TypeOK, SendKill
    <3> QED BY <3>1, <3>2
  <2>3. CASE \E p \in Procs : ProcExits(p) \/ WaiterSends(p)
    <3>1. /\ state = "stopping" /\ curProc' = curProc /\ killArmed' = killArmed
          /\ curProc \in Procs
      BY <2>0, <2>3 DEF ProcExits, WaiterSends, TypeOK, ActiveMeansProcess, Active
    <3>2. os'[curProc] = "alive" => os[curProc] = "alive"
      BY <2>0, <2>3, <3>1 DEF ProcExits, WaiterSends, TypeOK, OsStates, Codes
    <3> QED BY <3>1, <3>2 DEF StopHasDeadline
  <2>4. CASE \/ CmdStart \/ CmdStopIdle \/ RestartFires \/ ExitStopping \/ ExitInitOk
             \/ ExitInitFailed \/ ExitMain
    BY <2>4 DEF CmdStart, CmdStopIdle, RestartFires, ExitStopping, ExitInitOk,
                ExitInitFailed, FailInit, ExitMain, StartExec, RunningState, ErrorState,
                MainExit
  <2>5. CASE CmdDelete \/ CmdIgnored \/ ExitUnexpected \/ HealthTick \/ ProbeReturns
             \/ HealthResult \/ UNCHANGED vars
    <3>1. UNCHANGED <<state, curProc, killArmed, os>>
      BY <2>5 DEF CmdDelete, CmdIgnored, ExitUnexpected, HealthTick, ProbeReturns,
                  HealthResult, vars, procVars
    <3> QED BY <3>1 DEF StopHasDeadline
  <2> QED
    BY <2>1, <2>2, <2>3, <2>4, <2>5 DEF Next, Command, Timer, Exit, Health
<1>3. Spec => []StatusInv
  BY StatusInit, StatusStep, PTL DEF Spec
<1> QED BY <1>1, <1>2, <1>3, PTL DEF Spec

\* A crash keeps its retry: the restart timer is consumed only by starting again.
THEOREM CrashHasRetryCorrect == Spec => []CrashHasRetry
<1>1. Init => CrashHasRetry
  BY DEF Init, CrashHasRetry
<1>2. StatusInv /\ CrashHasRetry /\ [Next]_vars => CrashHasRetry'
  <2> SUFFICES ASSUME StatusInv, CrashHasRetry, [Next]_vars PROVE CrashHasRetry'
    OBVIOUS
  <2>0. TypeOK /\ ActiveMeansProcess /\ InitsBeforeMain
    BY DEF StatusInv
  <2>1. ASSUME NEW i \in Execs, NEW table \in [Execs -> ExecStatuses], StartExec(i, table),
               curExec' = i
        PROVE  CrashHasRetry'
    BY <2>0, <2>1 DEF StartExec, RunningState, StartError, ExecStatus, CrashHasRetry
  <2>2. CASE CmdStart
    <3>1. 0 \in Execs /\ exec \in [Execs -> ExecStatuses]
      BY <2>0, DefType DEF Execs, TypeOK
    <3> QED BY <2>1, <2>2, <3>1 DEF CmdStart
  <2>3. CASE RestartFires
    <3>1. curExec \in Execs /\ exec \in [Execs -> ExecStatuses]
      BY <2>3 DEF RestartFires, StatusInv, CurrentExec, TypeOK
    <3> QED BY <2>1, <2>3, <3>1 DEF RestartFires
  <2>4. CASE ExitInitOk
    <3>1. PICK g \in KeptGroup : StartExec(curExec + 1, Ended("ok", g))
      BY <2>4 DEF ExitInitOk
    <3>2. state = "init-running" /\ curExec' = curExec + 1
      BY <2>4 DEF ExitInitOk
    <3>3. curExec \in Execs /\ curExec + 1 \in Execs
      BY <2>0, <3>2, DefType DEF InitsBeforeMain, Execs
    <3>4. g \in BOOLEAN
      BY <2>0, <3>3 DEF KeptGroup, TypeOK, ExecStatuses
    <3>5. Ended("ok", g) \in [Execs -> ExecStatuses]
      BY <2>0, <3>3, <3>4, EndedStatus DEF Codes
    <3> QED BY <2>1, <3>1, <3>2, <3>3, <3>5
  <2>5. CASE ExitInitFailed
    <3>1. /\ state' = "init-error" /\ def' = def
          /\ ~def.noRestart => restartArmed'
      BY <2>5 DEF ExitInitFailed, FailInit
    <3> QED BY <3>1 DEF CrashHasRetry
  <2>8. CASE ExitMain
    <3>1. /\ state' # "init-error" /\ def' = def
          /\ RestartsMain(def) => restartArmed'
      BY <2>8 DEF ExitMain, MainExit
    <3> QED BY <3>1 DEF CrashHasRetry, RestartsMain
  <2>6. CASE CmdStopIdle \/ CmdStopActive \/ ExitStopping \/ KillFires
    <3>1. \/ state' \in {"stopped", "stopping"}
          \/ UNCHANGED <<def, state, exec, curExec, restartArmed>>
      BY <2>6 DEF CmdStopIdle, CmdStopActive, ExitStopping, KillFires
    <3> QED BY <3>1 DEF CrashHasRetry
  <2>7. CASE CmdDelete \/ CmdIgnored \/ ExitUnexpected \/ HealthTick \/ ProbeReturns
             \/ HealthResult \/ UNCHANGED vars
             \/ \E p \in Procs : ProcExits(p) \/ WaiterSends(p)
    <3>1. UNCHANGED <<def, state, exec, curExec, restartArmed>>
      BY <2>7 DEF CmdDelete, CmdIgnored, ExitUnexpected, HealthTick, ProbeReturns,
                  HealthResult, vars, ProcExits, WaiterSends
    <3> QED BY <3>1 DEF CrashHasRetry
  <2> QED
    BY <2>2, <2>3, <2>4, <2>5, <2>6, <2>7, <2>8 DEF Next, Command, Timer, Exit, Health
<1>3. Spec => []StatusInv
  BY StatusInit, StatusStep, PTL DEF Spec
<1> QED BY <1>1, <1>2, <1>3, PTL DEF Spec

-----------------------------------------------------------------------------
(***************************************************************************)
(* PMChild implements PMLifecycle.                                         *)
(***************************************************************************)

\* Starting exec i leaves a state the life cycle allows.
LEMMA StartExecLaunches ==
  ASSUME NEW i, NEW table, StartExec(i, table)
  PROVE  state' \in Launched(def, i)
BY DEF StartExec, Launched

\* The life cycle's instance has the states and operators of PMStates.
LEMMA SameStates ==
  /\ Lifecycle!Idle = Idle /\ Lifecycle!Active = Active
  /\ Lifecycle!ChildStates = ChildStates
  /\ \A d, i : Lifecycle!Launched(d, i) = Launched(d, i)
  /\ \A d : Lifecycle!LaunchedAny(d) = LaunchedAny(d)
  /\ \A s : Lifecycle!StopOutcome(s) = StopOutcome(s)
  /\ \A d, s, t, a : Lifecycle!ExitLeads(d, s, t, a) <=> ExitLeads(d, s, t, a)
<1> USE DEF Lifecycle!Idle, Idle, Lifecycle!Active, Active, Lifecycle!ChildStates,
            ChildStates, Lifecycle!Launched, Launched, Lifecycle!RunningState,
            RunningState, Lifecycle!ErrorState, ErrorState
<1>1. \A d : Lifecycle!LaunchedAny(d) = LaunchedAny(d)
  BY DEF Lifecycle!LaunchedAny, LaunchedAny
<1>2. \A s : Lifecycle!StopOutcome(s) = StopOutcome(s)
  BY DEF Lifecycle!StopOutcome, StopOutcome
<1>4. \A d, s, t, a : Lifecycle!ExitLeads(d, s, t, a) <=> ExitLeads(d, s, t, a)
  BY <1>1 DEF Lifecycle!ExitLeads, ExitLeads, Lifecycle!MainExit, MainExit,
              Lifecycle!RestartsMain, RestartsMain
<1> QED BY <1>1, <1>2, <1>4

\* Every step of the child is one of its life cycle, or leaves that as it is.
LEMMA LifecycleStep == ProcessInv /\ [Next]_vars => [Lifecycle!Next]_(Lifecycle!vars)
<1> SUFFICES ASSUME ProcessInv, [Next]_vars
             PROVE  Lifecycle!Next \/ UNCHANGED Lifecycle!vars
  OBVIOUS
<1>0. TypeOK /\ ActiveMeansProcess /\ InitsBeforeMain /\ CurrentExec
  BY DEF ProcessInv, StatusInv
<1>a. def.inits \in Nat
  BY <1>0, DefType
<1> USE SameStates
<1>1. CASE CmdStart
  BY <1>1, StartExecLaunches DEF CmdStart, Lifecycle!Next, Lifecycle!Start
<1>2. CASE CmdStopIdle
  <2>1. StopOutcome(state) = "stopped"
    BY <1>2 DEF CmdStopIdle, StopOutcome, Active
  <2>2. state \notin Active
    BY <1>2 DEF CmdStopIdle, Active
  <2> QED BY <1>0, <1>2, <2>1, <2>2 DEF CmdStopIdle, TypeOK, Lifecycle!Next, Lifecycle!Stop
<1>3. CASE CmdStopActive
  <2>1. state \in Active
    BY <1>0, <1>3 DEF CmdStopActive, ActiveMeansProcess
  <2>2. StopOutcome(state) = "stopping"
    BY <2>1 DEF StopOutcome, Active
  <2> QED BY <1>0, <1>3, <2>1, <2>2 DEF CmdStopActive, TypeOK, Lifecycle!Next, Lifecycle!Stop
<1>4. CASE CmdDelete
  BY <1>4 DEF CmdDelete, Lifecycle!Next, Lifecycle!Delete
<1>5. CASE CmdIgnored \/ HealthTick \/ ProbeReturns \/ HealthResult \/ UNCHANGED vars
           \/ \E p \in Procs : ProcExits(p) \/ WaiterSends(p)
  BY <1>5 DEF CmdIgnored, HealthTick, ProbeReturns, HealthResult, vars, ProcExits,
              WaiterSends, Lifecycle!vars
<1>6. CASE KillFires
  BY <1>0, <1>6
  DEF KillFires, ActiveMeansProcess, Lifecycle!Next, Lifecycle!Kill, Lifecycle!vars
<1>7. CASE RestartFires
  <2>1. curExec \in 0 .. def.inits
    BY <1>0, <1>7 DEF RestartFires, CurrentExec, Execs
  <2>2. state' \in Launched(def, curExec)
    BY <1>7, StartExecLaunches DEF RestartFires
  <2>3. state' \in LaunchedAny(def)
    BY <2>1, <2>2 DEF LaunchedAny
  <2>4. doubled' = (doubled \/ state \in Active)
    BY <1>0, <1>7 DEF RestartFires, ActiveMeansProcess
  <2> QED BY <1>7, <2>3, <2>4 DEF RestartFires, Lifecycle!Next, Lifecycle!Restart
<1>8. CASE Exit /\ ~ExitUnexpected
  <2> SUFFICES \E arms \in BOOLEAN : /\ ExitLeads(def, state, state', arms)
                                     /\ restartArmed' = (restartArmed \/ arms)
    <3>1. state' \in ChildStates
      BY StatusStep DEF ProcessInv, StatusInv, TypeOK
    <3>2. mgr = "running" /\ UNCHANGED <<def, mgr, killArmed, doubled>> /\ state \in Active
      BY <1>0, <1>8 DEF Exit, ExitStopping, ExitInitOk, ExitInitFailed, FailInit, ExitMain,
                        TakeExit, ActiveMeansProcess
    <3> QED BY <3>1, <3>2 DEF Lifecycle!Next, Lifecycle!Exited
  <2>1. CASE ExitStopping
    BY <1>0, <2>1 DEF ExitStopping, ExitLeads, TypeOK
  <2>2. CASE ExitInitOk
    <3>1. state = "init-running" /\ UNCHANGED restartArmed
            /\ state' \in Launched(def, curExec + 1)
      BY <2>2, StartExecLaunches DEF ExitInitOk
    <3>2. curExec + 1 \in 0 .. def.inits
      BY <1>0, <1>a, <3>1 DEF InitsBeforeMain
    <3>3. state' \in LaunchedAny(def)
      BY <3>1, <3>2 DEF LaunchedAny
    <3> QED BY <1>0, <3>1, <3>3 DEF ExitLeads, TypeOK
  <2>3. CASE ExitInitFailed
    BY <2>3 DEF ExitInitFailed, FailInit, ExitLeads
  <2>4. CASE ExitMain
    BY <2>4 DEF ExitMain, ExitLeads
  <2> QED BY <1>8, <2>1, <2>2, <2>3, <2>4 DEF Exit
<1>9. CASE ExitUnexpected
  <2>1. doubled
    BY <1>9 DEF ProcessInv, SingleProcess, ExitUnexpected
  <2>2. /\ mgr = "running" /\ mgr' = "panicked"
        /\ UNCHANGED <<def, state, restartArmed, killArmed, doubled>>
    BY <1>9 DEF ExitUnexpected
  <2> QED BY <2>1, <2>2 DEF Lifecycle!Next, Lifecycle!Panic
<1> QED
  BY <1>1, <1>2, <1>3, <1>4, <1>5, <1>6, <1>7, <1>8, <1>9
  DEF Next, Command, Timer, Health

\* Whatever its processes, timers and channels do, the child's state, pending
\* timers and end are a behaviour of the life cycle.
THEOREM LifecycleImplemented == Spec => LifecycleSpec
<1>1. Init => Lifecycle!Init
  BY DEF Init, Lifecycle!Init
<1> QED BY <1>1, LifecycleStep, ProcessInvCorrect, PTL DEF Spec, LifecycleSpec, Lifecycle!Spec
=============================================================================
