------------------------------ MODULE PMDaemon ------------------------------
(***************************************************************************)
(* The process manager's daemon (addons/pm/server/daemon.go, http.go): the *)
(* map of children, the request handlers that run concurrently over it,    *)
(* Terminate, and the shutdown of the server.  Each child is the life      *)
(* cycle of PMLifecycle, behind the unbuffered channel of commands its     *)
(* manager goroutine receives from.                                        *)
(*                                                                         *)
(* A handler is a thread with a pc.  It fetches the child under the mutex, *)
(* then reads its status, then sends: the child may have changed at each   *)
(* step.  A send completes when the manager receives, and the manager      *)
(* publishes its status after it has handled what it received.             *)
(***************************************************************************)
EXTENDS PMStates, FiniteSets

CONSTANTS
  Kids,      \* child objects; bounds the number of PutChild that succeed
  Names,     \* names of children
  Defs,      \* definitions
  MaxInits,  \* bound on the inits of a definition
  Ops,       \* the operations each client calls
  Requests,  \* goroutines serving a request; bounds those in flight
  Impatient, \* whether draining may take longer than it is given
  Main,      \* the goroutine of HTTP.Run
  NoKid, NoThread

Threads == Requests \cup {Main}
AllOps  == {"child", "put", "start", "stop", "delete", "terminate"}

ASSUME DefsAssumption == MaxInits \in Nat /\ Defs \subseteq ChildDefs(MaxInits)
ASSUME NilAssumption  == NoKid \notin Kids /\ NoThread \notin Threads
ASSUME NamesAssumption == Names # {}
ASSUME MainAssumption == Main \notin Requests
ASSUME ImpatientAssumption == Impatient \in BOOLEAN
ASSUME OpsAssumption  == Ops \in [Requests -> SUBSET AllOps]

VARIABLES
  server,    \* what HTTP.Run is doing, or how the process ended
  forced,    \* the server was closed with requests in flight
  mu,        \* the PutChild that holds d.mu over its send, if one does
  children,  \* d.children
  kid,       \* each child object with its manager goroutine
  owner,     \* the Terminate that took the child out of the map, if one did
  term,      \* that Terminate's goroutine for the child
  thread     \* each handler

vars == <<server, forced, mu, children, kid, owner, term, thread>>

\* The process is there: it has neither exited nor panicked.
Up == server \notin {"exited", "crashed"}

\* What a handler answers: an HTTP status, and the state a 200 shows.
Answer(code, s) == [code |-> code, state |-> s]
NoAnswer == Answer("none", "stopped")
Idler    == [op |-> "child", name |-> CHOOSE n \in Names : TRUE, pc |-> "idle",
             kid |-> NoKid, answer |-> NoAnswer]

\* A child object: what it is created with, its manager, the command received and
\* not yet handled, and the rest as in PMLifecycle.
NewKid(n, d) ==
  [name |-> n, def |-> d, mgr |-> "unused", cmd |-> "none", state |-> "stopped",
   armed |-> FALSE, killing |-> FALSE, doubled |-> FALSE]

Init ==
  /\ server = "serving" /\ forced = FALSE /\ mu = NoThread
  /\ children = [n \in Names |-> NoKid]
  /\ kid \in [Kids -> {NewKid(n, d) : n \in Names, d \in Defs}]
  /\ owner = [k \in Kids |-> NoThread]
  /\ term = [k \in Kids |-> "none"]
  /\ thread = [t \in Threads |-> Idler]

-----------------------------------------------------------------------------
(***************************************************************************)
(* The managers: PMLifecycle's actions, on kid[k].  A manager is not at    *)
(* its select while it handles a command.                                  *)
(***************************************************************************)

Selecting(k) == Up /\ kid[k].mgr = "running" /\ kid[k].cmd = "none"
OnlyKid == UNCHANGED <<server, forced, mu, children, owner, term, thread>>

\* A send on the unbuffered channel: it blocks until the manager receives.
Offer(k, c) == Selecting(k) /\ kid' = [kid EXCEPT ![k].cmd = c]

\* What the command does to the child, for each of them.
Handled(c, d) ==
  CASE c.cmd = "start" /\ c.state \in Idle ->
         [c EXCEPT !.state = d]
    [] c.cmd = "stop" ->
         [c EXCEPT !.state = StopOutcome(@), !.killing = @ \/ c.state \in Active]
    [] c.cmd = "delete" /\ c.state \in {"stopped", "done"} ->
         [c EXCEPT !.mgr = "deleted"]
    [] OTHER -> c

\* The manager handles what it received and publishes its status.
Handle(k) ==
  /\ Up /\ kid[k].mgr = "running" /\ kid[k].cmd # "none"
  /\ \E d \in Launched(kid[k].def, 0) :
       kid' = [kid EXCEPT ![k] = [Handled(@, d) EXCEPT !.cmd = "none"]]
  /\ OnlyKid

Exited(k) ==
  /\ Selecting(k) /\ kid[k].state \in Active
  /\ \E s \in ChildStates, arms \in BOOLEAN :
       /\ ExitLeads(kid[k].def, kid[k].state, s, arms)
       /\ kid' = [kid EXCEPT ![k].state = s, ![k].armed = @ \/ arms]
  /\ OnlyKid

Kill(k) ==
  /\ Selecting(k) /\ kid[k].killing
  /\ kid' = [kid EXCEPT ![k].killing = FALSE,
                        ![k].state = IF @ \in Active THEN "stopping" ELSE @]
  /\ OnlyKid

Restart(k) ==
  /\ Selecting(k) /\ kid[k].armed
  /\ \E s \in LaunchedAny(kid[k].def) :
       kid' = [kid EXCEPT ![k].armed = FALSE, ![k].state = s,
                          ![k].doubled = @ \/ kid[k].state \in Active]
  /\ OnlyKid

\* A manager that panics takes the whole process with it.
Panic(k) ==
  /\ Selecting(k) /\ kid[k].doubled
  /\ kid' = [kid EXCEPT ![k].mgr = "panicked"]
  /\ server' = "crashed"
  /\ UNCHANGED <<forced, mu, children, owner, term, thread>>

\* The goroutine of PutChild, after run() has returned: whatever is under the
\* child's name by now is removed from the map.
Reap(k) ==
  /\ Up /\ kid[k].mgr = "deleted" /\ mu = NoThread
  /\ kid' = [kid EXCEPT ![k].mgr = "reaped"]
  /\ children' = [children EXCEPT ![kid[k].name] = NoKid]
  /\ UNCHANGED <<server, forced, mu, owner, term, thread>>

\* child.Wait: run() has returned, and every goroutine that waits for a process
\* of the child.  It may never end when restarts left a second process.
Waited(k) == kid[k].mgr \in {"deleted", "reaped"}

-----------------------------------------------------------------------------
(***************************************************************************)
(* The handlers.                                                           *)
(***************************************************************************)

At(t, ops, pc) == Up /\ thread[t].op \in ops /\ thread[t].pc = pc
Goto(t, pc)    == thread' = [thread EXCEPT ![t].pc = pc]
Reply(t, a)    == thread' = [thread EXCEPT ![t] = [Idler EXCEPT !.answer = a]]
Refuse(t, c)   == Reply(t, Answer(c, "stopped"))
StateOf(t)     == kid[thread[t].kid].state
OnlyThread == UNCHANGED <<server, forced, mu, children, kid, owner, term>>
OnlySend   == UNCHANGED <<server, forced, mu, children, owner, term>>

\* The bound on puts: an object of that name is left for each one in flight.
Spare(n) ==
  Cardinality({t \in Requests : thread[t].op = "put" /\ thread[t].name = n})
    < Cardinality({k \in Kids : kid[k].mgr = "unused" /\ kid[k].name = n})

\* A request arrives, while the server accepts any.
Call(t, op, n) ==
  /\ server = "serving" /\ t \in Requests /\ thread[t].pc = "idle"
  /\ op = "put" => Spare(n)
  /\ thread' = [thread EXCEPT ![t] = [op |-> op, name |-> n, kid |-> NoKid,
                     pc |-> IF op = "terminate" THEN "cancel" ELSE "lock",
                     answer |-> NoAnswer]]
  /\ OnlyThread

\* d.child(name), under the mutex.
Find(t) ==
  /\ At(t, {"child", "start", "stop", "delete"}, "lock") /\ mu = NoThread
  /\ LET k == children[thread[t].name] IN
       IF k = NoKid
       THEN Refuse(t, "404")
       ELSE thread' = [thread EXCEPT ![t].kid = k, ![t].pc = "check"]
  /\ OnlyThread

\* Child shows the status; StopChild shows it anew after the look that found it stopped.
Show(t) ==
  /\ At(t, {"child"}, "check") \/ At(t, {"stop"}, "show")
  /\ Reply(t, Answer("200", StateOf(t)))
  /\ OnlyThread

\* The states in which each operation sends its command.
Admits(op) ==
  CASE op = "start"  -> {"error", "init-error", "stopped"}
    [] op = "stop"   -> {"init-running", "running", "error", "init-error"}
    [] op = "delete" -> Idle

\* The precondition, on the status as it is now.  A stop already under way, or
\* over, is only waited for.
Check(t) ==
  /\ At(t, {"start", "stop", "delete"}, "check")
  /\ LET op == thread[t].op IN
       CASE StateOf(t) \in Admits(op) -> Goto(t, "send")
         [] op = "stop" /\ StateOf(t) \in {"stopping", "stopped"} -> Goto(t, "ping")
         [] OTHER -> Refuse(t, "412")
  /\ OnlyThread

\* The command is sent, with nothing to give up the wait for the manager.
Send(t) ==
  /\ At(t, {"start", "stop", "delete"}, "send")
  /\ Offer(thread[t].kid, thread[t].op)
  /\ Goto(t, IF thread[t].op = "delete" THEN "wait" ELSE "ping")
  /\ OnlySend

\* Mutant of SyncStart: the command is taken for handled.
SyncStartNoPing(t) ==
  /\ At(t, {"start"}, "ping")
  /\ Reply(t, Answer("200", StateOf(t)))
  /\ UNCHANGED kid
  /\ OnlySend

\* The ping is received only after the start was handled.
SyncStart(t) ==
  /\ At(t, {"start"}, "ping")
  /\ Offer(thread[t].kid, "ping")
  /\ Goto(t, "look")
  /\ OnlySend

\* StopChild's loop: a ping, a look at the status, a tick; or the client is gone.
PingStop(t) ==
  /\ At(t, {"stop"}, "ping")
  /\ Offer(thread[t].kid, "ping")
  /\ Goto(t, "look")
  /\ OnlySend

Look(t) ==
  /\ At(t, {"start", "stop"}, "look")
  /\ IF thread[t].op = "stop"
     THEN Goto(t, IF StateOf(t) = "stopped" THEN "show" ELSE "ping")
     ELSE Reply(t, Answer("200", StateOf(t)))
  /\ OnlyThread

Cancelled(t) ==
  /\ At(t, {"stop"}, "ping")
  /\ Refuse(t, "gone")
  /\ OnlyThread

\* DeleteChild waits for the manager, not for its entry in the map to go.
Deleted(t) ==
  /\ At(t, {"delete"}, "wait") /\ Waited(thread[t].kid)
  /\ Reply(t, Answer("200", StateOf(t)))
  /\ OnlyThread

\* Mutant of Put: the mutex is not held on.
PutReleasing(t) ==
  /\ At(t, {"put"}, "lock") /\ mu = NoThread
  /\ \E k \in Kids :
       /\ kid[k].mgr = "unused" /\ kid[k].name = thread[t].name
       /\ children[thread[t].name] = NoKid
       /\ children' = [children EXCEPT ![thread[t].name] = k]
       /\ kid' = [kid EXCEPT ![k].mgr = "running"]
       /\ thread' = [thread EXCEPT ![t].kid = k, ![t].pc = "send"]
  /\ UNCHANGED <<server, forced, mu, owner, term>>

\* PutChild takes the mutex: a conflict, or a new child with its manager, and the
\* mutex is held on.
Put(t) ==
  /\ At(t, {"put"}, "lock") /\ mu = NoThread
  /\ IF children[thread[t].name] # NoKid
     THEN /\ Refuse(t, "409")
          /\ UNCHANGED <<mu, children, kid>>
     ELSE \E k \in Kids :
            /\ kid[k].mgr = "unused" /\ kid[k].name = thread[t].name
            /\ children' = [children EXCEPT ![thread[t].name] = k]
            /\ kid' = [kid EXCEPT ![k].mgr = "running"]
            /\ mu' = t
            /\ thread' = [thread EXCEPT ![t].kid = k, ![t].pc = "send"]
  /\ UNCHANGED <<server, forced, owner, term>>

\* The ping that tells the manager is there, and then the mutex is released.
PutPing(t) ==
  /\ At(t, {"put"}, "send")
  /\ Offer(thread[t].kid, "ping")
  /\ mu' = NoThread
  /\ Reply(t, Answer("200", StateOf(t)))
  /\ UNCHANGED <<server, forced, children, owner, term>>

-----------------------------------------------------------------------------
(***************************************************************************)
(* Terminate, as a request or as the last step of HTTP.Run.                *)
(***************************************************************************)

\* d.onTerminate(): HTTP.Run is to shut the server down.
Cancel(t) ==
  /\ At(t, {"terminate"}, "cancel")
  /\ server' = IF server = "serving" THEN "draining" ELSE server
  /\ Goto(t, "lock")
  /\ UNCHANGED <<forced, mu, children, kid, owner, term>>

\* The children are taken out of the map, each with a goroutine that ends it.
Snapshot(t) ==
  LET mine == {children[n] : n \in Names} \ {NoKid} IN
  /\ At(t, {"terminate"}, "lock") /\ mu = NoThread
  /\ owner' = [k \in Kids |-> IF k \in mine THEN t ELSE owner[k]]
  /\ term' = [k \in Kids |-> IF k \in mine THEN "stop" ELSE term[k]]
  /\ children' = [n \in Names |-> NoKid]
  /\ Goto(t, "wait")
  /\ UNCHANGED <<server, forced, mu, kid>>

TermAt(k, pc) == Up /\ term[k] = pc
TermGoto(k, pc) == /\ term' = [term EXCEPT ![k] = pc]
                   /\ UNCHANGED <<server, forced, mu, children, owner, thread>>

TermStop(k) == TermAt(k, "stop") /\ Offer(k, "stop") /\ TermGoto(k, "poll")

\* Mutant of TermPoll: one look at the status is enough.
TermPollOnce(k) == TermAt(k, "poll") /\ UNCHANGED kid /\ TermGoto(k, "delete")

\* The status is polled; an init-error is not among the states waited for.
TermPoll(k) ==
  /\ TermAt(k, "poll") /\ kid[k].state \in {"error", "stopped", "done"}
  /\ UNCHANGED kid
  /\ TermGoto(k, "delete")

TermDelete(k) == TermAt(k, "delete") /\ Offer(k, "delete") /\ TermGoto(k, "wait")

TermWait(k) == TermAt(k, "wait") /\ Waited(k) /\ UNCHANGED kid /\ TermGoto(k, "done")

Join(t) ==
  /\ At(t, {"terminate"}, "wait")
  /\ \A k \in Kids : owner[k] = t => term[k] = "done"
  /\ Reply(t, Answer("204", "stopped"))
  /\ OnlyThread

-----------------------------------------------------------------------------
(***************************************************************************)
(* HTTP.Run.                                                               *)
(***************************************************************************)

\* Its context is cancelled from outside.
Signal ==
  /\ server = "serving"
  /\ server' = "draining"
  /\ UNCHANGED <<forced, mu, children, kid, owner, term, thread>>

\* Mutant of Drained: the server is closed at once.
DrainedAtOnce ==
  /\ server = "draining"
  /\ server' = "closed"
  /\ thread' = [thread EXCEPT ![Main].op = "terminate", ![Main].pc = "cancel"]
  /\ UNCHANGED <<forced, mu, children, kid, owner, term>>

\* Server.Shutdown returns once no request is in flight, and the daemon goes on
\* to its own Terminate.
Drained ==
  /\ server = "draining"
  /\ \A t \in Requests : thread[t].pc = "idle"
  /\ server' = "closed"
  /\ thread' = [thread EXCEPT ![Main].op = "terminate", ![Main].pc = "cancel"]
  /\ UNCHANGED <<forced, mu, children, kid, owner, term>>

\* Shutdown gives up after five seconds: the connections are closed, and their
\* handlers are left behind.
DrainTimeout ==
  /\ Impatient /\ server = "draining"
  /\ \E t \in Requests : thread[t].pc # "idle"
  /\ server' = "closed" /\ forced' = TRUE
  /\ thread' = [thread EXCEPT ![Main].op = "terminate", ![Main].pc = "cancel"]
  /\ UNCHANGED <<mu, children, kid, owner, term>>

\* Run returns, and the process ends with whatever goroutines are left.
Exit ==
  /\ server = "closed"
  /\ thread[Main].answer.code = "204"
  /\ server' = "exited"
  /\ UNCHANGED <<forced, mu, children, kid, owner, term, thread>>

-----------------------------------------------------------------------------
Manager(k) == Handle(k) \/ Exited(k) \/ Kill(k) \/ Restart(k) \/ Panic(k) \/ Reap(k)

Ending(k) == TermStop(k) \/ TermPoll(k) \/ TermDelete(k) \/ TermWait(k)

\* The steps of a handler that wait for the mutex or for the manager to receive,
\* those that do not, and the waits for goroutines.
Blocking(t) == Find(t) \/ Put(t) \/ Snapshot(t) \/ Send(t) \/ SyncStart(t) \/ PingStop(t)
                 \/ PutPing(t)
Local(t)    == Show(t) \/ Check(t) \/ Look(t) \/ Cancel(t)
Waiting(t)  == Deleted(t) \/ Join(t)

Handler(t) == Blocking(t) \/ Local(t) \/ Waiting(t) \/ Cancelled(t)

Running == Signal \/ Drained \/ DrainTimeout \/ Exit

\* All but the arrival of requests.
Step ==
  \/ \E k \in Kids : Manager(k) \/ Ending(k)
  \/ \E t \in Threads : Handler(t)
  \/ Running

Next ==
  \/ Step
  \/ \E t \in Requests, n \in Names : \E op \in Ops[t] : Call(t, op, n)

Spec == Init /\ [][Next]_vars

\* Goroutines run.  The runtime queues those that wait to send on a channel or for
\* a mutex first come first served, and select picks at random among its ready
\* cases, so that a ping loop starves neither: hence SF.  A timer that is armed
\* fires, and a child being stopped stops (PMChild's StopCompletes).  child.Wait is
\* only known to end for a child that never had two processes.  No client is
\* assumed to call anything, to leave, or to signal the daemon.
Event(k) == Kill(k) \/ Restart(k) \/ (Exited(k) /\ kid[k].state = "stopping")

Fairness ==
  /\ \A k \in Kids :
       /\ WF_vars(Handle(k)) /\ SF_vars(Event(k)) /\ WF_vars(Reap(k))
       /\ SF_vars(TermStop(k) \/ TermDelete(k))
       /\ WF_vars(TermPoll(k)) /\ WF_vars(TermWait(k) /\ ~kid[k].doubled)
  /\ \A t \in Threads :
       /\ SF_vars(Blocking(t)) /\ WF_vars(Local(t)) /\ WF_vars(Join(t))
       /\ WF_vars(Deleted(t) /\ ~kid[thread[t].kid].doubled)
  /\ WF_vars(Drained \/ DrainTimeout) /\ WF_vars(Exit)

FairSpec == Spec /\ Fairness
-----------------------------------------------------------------------------
(***************************************************************************)
(* Properties.                                                             *)
(***************************************************************************)

KidStates ==
  [name : Names, def : Defs,
   mgr : {"unused", "running", "deleted", "reaped", "panicked"},
   cmd : {"none", "ping", "start", "stop", "delete"}, state : ChildStates,
   armed : BOOLEAN, killing : BOOLEAN, doubled : BOOLEAN]

ThreadStates ==
  [op : AllOps, name : Names,
   pc : {"idle", "lock", "check", "send", "ping", "look", "show", "wait", "cancel"},
   kid : Kids \cup {NoKid},
   answer : [code : {"none", "200", "204", "404", "409", "412", "gone"},
             state : ChildStates]]

\* The values the variables of the daemon take.
TypeOK ==
  /\ server \in {"serving", "draining", "closed", "exited", "crashed"}
  /\ forced \in BOOLEAN
  /\ mu \in Requests \cup {NoThread}
  /\ children \in [Names -> Kids \cup {NoKid}]
  /\ kid \in [Kids -> KidStates]
  /\ owner \in [Kids -> Threads \cup {NoThread}]
  /\ term \in [Kids -> {"none", "stop", "poll", "delete", "wait", "done"}]
  /\ thread \in [Threads -> ThreadStates]

\* "ensure the manager goroutine has started" (daemon.go:103): when PutChild answers that
\* it made the child, it is the one under its name, its manager runs, and it is stopped
\* still and shown so: no other request has met it, and no Terminate has taken it.
PutIsThere ==
  [][\A t \in Requests :
       thread[t].op = "put" /\ thread'[t].pc = "idle" /\ thread'[t].answer.code = "200" =>
         LET k == thread[t].kid IN
           /\ children'[thread[t].name] = k /\ owner'[k] = NoThread
           /\ kid'[k].mgr = "running" /\ kid'[k].state = "stopped"
           /\ thread'[t].answer.state = "stopped"
           /\ \A u \in Threads \ {t} : thread'[u].kid # k]_vars

\* "sync so we get the started status" (daemon.go:133): when StartChild answers,
\* a start still to be handled is another request's.
StartIsSynced ==
  [][\A t \in Requests :
       At(t, {"start"}, thread[t].pc) /\ thread[t].kid # NoKid
         /\ thread'[t].pc = "idle" /\ thread'[t].answer.code = "200"
         /\ kid[thread[t].kid].cmd = "start"
       => \E u \in Requests \ {t} :
            thread[u].op = "start" /\ thread[u].kid = thread[t].kid]_vars

\* When the process ends by returning from Run, no manager is left but
\*   - of a child put while a Terminate ran and removed from the map by the end of its
\*     namesake, and
\*   - if the server had to be closed over requests in flight (http.go:64), of a child
\*     such a request put after Run's own Terminate had emptied the map, or of one that
\*     a Terminate among them had taken and still waits for.
ExitLeavesNothing ==
  server = "exited" =>
    \A k \in Kids : kid[k].mgr = "running" =>
      \/ /\ owner[k] = NoThread
         /\ \E j \in Kids \ {k} : kid[j].name = kid[k].name /\ owner[j] # NoThread
      \/ /\ forced
         /\ IF owner[k] = NoThread
            THEN children[kid[k].name] = k
            ELSE owner[k] \in Requests /\ thread[owner[k]].pc = "wait"

\* A request for a child, a put or a start is answered, unless the process ends
\* or, for a start, the child is deleted first.
RequestsEnd ==
  \A t \in Requests :
    At(t, {"child", "put", "start"}, thread[t].pc) /\ thread[t].pc # "idle"
      ~> \/ thread[t].pc = "idle" \/ ~Up
         \/ thread[t].op = "start" /\ thread[t].kid # NoKid
              /\ kid[thread[t].kid].mgr # "running"

\* A Terminate took a child that had been deleted but was still in the map: no one
\* receives its stop.
StopsDeleted == \E k \in Kids : term[k] = "stop" /\ Waited(k)

\* With children that are never restarted, a daemon told to end ends, unless it
\* has to close the server over requests in flight, or a Terminate has come between
\* the end of a delete and the removal of its entry (daemon.go:97).
DrainEnds ==
  server = "draining" /\ (\A k \in Kids : NeverRestarts(kid[k].def))
    ~> ~Up \/ forced \/ StopsDeleted
=============================================================================
