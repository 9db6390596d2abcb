----------------------------- MODULE PMResource -----------------------------
(***************************************************************************)
(* The stack's resource for a child of the process manager                 *)
(* (addons/pm/resource/resource-pm.go): Start and Stop, each a client that *)
(* calls the daemon of PMDaemon over and over, deciding on what the last   *)
(* answer showed.  The connections of PMDaemon are the clients: each makes *)
(* one call at a time.  All clients agree on the child's definition;       *)
(* "kept" stands for LimitRestarts together with the comparison of the     *)
(* wanted definition with the one the daemon has.                          *)
(***************************************************************************)
EXTENDS PMDaemon

CONSTANTS
  Errands,  \* what clients do, with PM's fields
  Child     \* the child's name

ASSUME ErrandsAssumption ==
  /\ Errands \subseteq [goal : {"start", "stop"}, kept : BOOLEAN, wait : BOOLEAN]
  /\ Child \in Names
ASSUME DefAssumption   == \E d \in Defs : Defs = {d}

VARIABLES
  script   \* each client: its goal, where it is, PM's fields,
           \* and (history) the child that was there when it set out

cvars == <<vars, script>>

Def == CHOOSE d \in Defs : TRUE

\* Where a client is: at a call, "await" for the calls of Start's last loop, or done.
Calls   == {"child", "stop", "delete", "put", "start", "await"}
Resting == [goal |-> "none", step |-> "idle", kept |-> FALSE, wait |-> FALSE,
            met |-> NoKid]

\* Some clients are such scripts; others, "raw", call the daemon as they like.
CInit == Init /\ script \in [Requests -> {Resting, [Resting EXCEPT !.goal = "raw"]}]

-----------------------------------------------------------------------------
(***************************************************************************)
(* What a client does with an answer.                                      *)
(***************************************************************************)

Answered(t, goal, steps) ==
  /\ Up /\ thread[t].pc = "idle"
  /\ script[t].goal = goal /\ script[t].step \in steps
Code(t) == thread[t].answer.code
Seen(t) == thread[t].answer.state
Calling(t) == script[t].step \in Calls

Then(t, step) ==
  /\ Call(t, IF step = "await" THEN "child" ELSE step, Child)
  /\ script' = [script EXCEPT ![t].step = step]

Return(t, how) ==
  /\ script' = [script EXCEPT ![t].step = how]
  /\ UNCHANGED vars

\* A client sets out to start or to stop the child.
Begin(t, e) ==
  /\ ~Calling(t) /\ script[t].goal # "raw"
  /\ e.goal = "start" => Spare(Child)
  /\ Call(t, "child", Child)
  /\ script' = [script EXCEPT ![t] = [goal |-> e.goal, step |-> "child",
                                      kept |-> e.kept, wait |-> e.wait,
                                      met |-> children[Child]]]

\* The server takes no more calls.
Disconnected(t) ==
  /\ Calling(t) /\ thread[t].pc = "idle" /\ server # "serving"
  /\ Return(t, "failed")

\* PM.isReady, by state, but for the health check.
Ready(d, s)   == s = IF d.oneShot THEN "done" ELSE "running"
Failing(d, s) ==
  /\ d.oneShot \/ d.noRestart
  /\ s \in {"error", "init-error"} \cup (IF d.oneShot THEN {} ELSE {"done", "stopped"})
Checked(d)    == d.health /\ ~d.oneShot /\ ~d.noRestart

\* The end of Start: at once, or when the child is ready.  A child that is
\* health-checked may be found unhealthy any number of times.
Await(t) ==
  \/ (~script[t].wait \/ Ready(Def, Seen(t))) /\ Return(t, "ok")
  \/ script[t].wait /\ Failing(Def, Seen(t)) /\ Return(t, "failed")
  \/ /\ script[t].wait /\ ~Failing(Def, Seen(t))
     /\ ~Ready(Def, Seen(t)) \/ Checked(Def)
     /\ Then(t, "await")

\* The child is not kept, whatever the definitions say.
Anew(t, step) ==
  /\ Call(t, step, Child)
  /\ script' = [script EXCEPT ![t].step = step, ![t].kept = FALSE]

\* Start is shown the child: it keeps it, clears it away, or has none to clear.
StartLooks(t) ==
  /\ Answered(t, "start", {"child"})
  /\ \/ Code(t) = "404" /\ Anew(t, "put")
     \/ /\ Code(t) = "200"
        /\ CASE script[t].kept /\ Seen(t) = "running" -> Await(t)
             [] Seen(t) = "stopped"                   -> Anew(t, "delete")
             [] OTHER                                 -> Anew(t, "stop")

\* Each call of Start leads to the next, or to the wait.
StartMoves(t) ==
  /\ Answered(t, "start", Calls \ {"child"}) /\ Code(t) = "200"
  /\ CASE script[t].step = "stop"   -> Then(t, "delete")
       [] script[t].step = "delete" -> Then(t, "put")
       [] script[t].step = "put"    -> Then(t, "start")
       [] OTHER                     -> Await(t)

StartFails(t) ==
  /\ Answered(t, "start", Calls)
  /\ Code(t) \notin {"200"} \cup (IF script[t].step = "child" THEN {"404"} ELSE {})
  /\ Return(t, "failed")

\* Mutant of StopMoves: a stopped child is left defined.
StopMovesOnce(t) ==
  /\ Answered(t, "stop", Calls) /\ Code(t) = "200"
  /\ CASE Seen(t) \in {"stopped", "done"} -> Return(t, "ok")
       [] Seen(t) = "stopping"            -> Then(t, "child")
       [] OTHER                           -> Then(t, "stop")

\* Stop goes by the state the last call, whichever it was, showed.
StopMoves(t) ==
  /\ Answered(t, "stop", Calls) /\ Code(t) = "200"
  /\ CASE Seen(t) \in {"stopped", "done"} -> Then(t, "delete")
       [] Seen(t) = "stopping"            -> Then(t, "child")
       [] OTHER                           -> Then(t, "stop")

StopEnds404(t) ==
  Answered(t, "stop", Calls) /\ Code(t) = "404" /\ Return(t, "ok")

StopFails(t) ==
  /\ Answered(t, "stop", Calls) /\ Code(t) \notin {"200", "404"}
  /\ Return(t, "failed")

Decide(t) == StartLooks(t) \/ StartMoves(t) \/ StartFails(t) \/ StopMoves(t)
               \/ StopEnds404(t) \/ StopFails(t) \/ Disconnected(t)

RawCall(t, op) == script[t].goal = "raw" /\ Call(t, op, Child) /\ UNCHANGED script

CNext ==
  \/ Step /\ UNCHANGED script
  \/ \E t \in Requests : Decide(t)
  \/ \E t \in Requests, e \in Errands : Begin(t, e)
  \/ \E t \in Requests : \E op \in Ops[t] : RawCall(t, op)

CSpec == CInit /\ [][CNext]_cvars

-----------------------------------------------------------------------------
(***************************************************************************)
(* Properties.                                                             *)
(***************************************************************************)

Scripts == [goal : {"none", "raw", "start", "stop"},
            step : Calls \cup {"idle", "ok", "failed"},
            kept : BOOLEAN, wait : BOOLEAN, met : Kids \cup {NoKid}]

\* The values of the clients' variables.
CTypeOK == script \in [Requests -> Scripts]

\* When Stop returns without an error, and Start without keeping what it found, the
\* child that was there at the call has no manager any more, whatever the calls
\* and the other clients met on the way, unless a Terminate has it in hand.
Replaced ==
  [][\A t \in Requests :
       Calling(t) /\ script'[t].step = "ok" /\ ~script[t].kept /\ script[t].met # NoKid =>
         \/ kid[script[t].met].mgr \notin {"running", "panicked"}
         \/ owner[script[t].met] # NoThread]_cvars
=============================================================================
