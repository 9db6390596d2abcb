--------------------------- MODULE PMDaemonProofs ---------------------------
(***************************************************************************)
(* Proofs about PMDaemon and the clients of PMResource, for any number of  *)
(* children, names, definitions and requests.                              *)
(*                                                                         *)
(* The inductive invariant follows each handler by its operation, each     *)
(* start to the request that sent it, and each manager to the map or to    *)
(* the Terminate that took its child out of it; and it says what is left   *)
(* when the server closed with no request in flight.  For the clients it   *)
(* says what they have been shown while the child they met still runs.     *)
(***************************************************************************)
EXTENDS PMResource, TLAPS

\* A request comes in, whatever the operations a configuration lets clients call.
Arrival == \E t \in Requests, n \in Names, op \in AllOps : Call(t, op, n)

\* The operations but terminate.
Plain == AllOps \ {"terminate"}

\* Where a handler may be, by its operation.
Steps(op) ==
  CASE op = "child"             -> {"idle", "lock", "check"}
    [] op = "start"             -> {"lock", "check", "send", "ping", "look"}
    [] op = "stop"              -> {"lock", "check", "send", "ping", "look", "show"}
    [] op = "delete"            -> {"lock", "check", "send", "wait"}
    [] op = "put"               -> {"lock", "send"}
    [] op = "terminate"         -> {"cancel", "lock", "wait"}

\* A handler is where its operation can be, has not answered before it is over, and
\* has a child once it has found one.
HandlerOK(h) ==
  /\ h.pc \in Steps(h.op)
  /\ h.pc # "idle" => h.answer.code = "none"
  /\ h.pc \notin {"idle", "lock"} /\ h.op # "terminate" => h.kid # NoKid

\* Main only ever terminates, and only after the server has closed.
HandlersInv ==
  /\ \A t \in Threads : HandlerOK(thread[t])
  /\ thread[Main].op = "terminate" \/ thread[Main].pc = "idle"
  /\ server \in {"serving", "draining"} =>
       thread[Main].pc = "idle" /\ thread[Main].answer.code = "none"

\* A start that is not handled yet has a request that sent it, and still has to ping.
Sender(u, k) == thread[u].op = "start" /\ thread[u].kid = k /\ thread[u].pc = "ping"
StartsInv == \A k \in Kids : kid[k].cmd = "start" => \E u \in Requests : Sender(u, k)

\* A manager's child is in the map, or a Terminate took it out, or the end of a
\* namesake that a Terminate took did.
Taken(k) == owner[k] # NoThread
Alive(k) == kid[k].mgr \in {"running", "deleted"}
MapInv ==
  /\ \A n \in Names : children[n] # NoKid =>
       /\ kid[children[n]].name = n
       /\ kid[children[n]].mgr \in {"running", "deleted", "panicked"}
  /\ \A k \in Kids : Alive(k) =>
       \/ children[kid[k].name] = k
       \/ Taken(k)
       \/ \E j \in Kids \ {k} : kid[j].name = kid[k].name /\ Taken(j)
  /\ \A k \in Kids : kid[k].mgr = "panicked" => server = "crashed"

\* A Terminate waits until what it took has ended; none gets that far while the
\* server accepts requests.
TakenInv ==
  /\ \A t \in Threads : thread[t].op = "terminate" /\ thread[t].pc # "cancel"
                          => server # "serving"
  /\ server = "serving" => \A k \in Kids : ~Taken(k)
  /\ \A k \in Kids : Taken(k) /\ term[k] # "done" =>
       thread[owner[k]].op = "terminate" /\ thread[owner[k]].pc = "wait"
  /\ \A k \in Kids : term[k] = "done" => Waited(k)

\* After a close with no request in flight nothing is put any more, so that what
\* HTTP.Run's own Terminate finds is all there is.
Closed == server \in {"closed", "exited"} /\ ~forced
CloseInv ==
  /\ Closed => \A t \in Requests : thread[t].pc = "idle"
  /\ Closed /\ (thread[Main].pc = "wait" \/ thread[Main].answer.code = "204") =>
       \A n \in Names : children[n] = NoKid
  /\ server = "exited" => thread[Main].answer.code = "204"

IInv == TypeOK /\ HandlersInv /\ StartsInv /\ MapInv /\ TakenInv /\ CloseInv
-----------------------------------------------------------------------------
\* The record of a goroutine that serves no request.
LEMMA IdlerType == Idler \in ThreadStates
<1>1. (CHOOSE n \in Names : TRUE) \in Names
  BY NamesAssumption
<1> QED
  BY <1>1 DEF Idler, ThreadStates, NoAnswer, Answer, AllOps, ChildStates, Idle, Active

\* A child's object after its manager handled a command (child.go:66-141).
LEMMA HandledType ==
  ASSUME TypeOK, NEW k \in Kids, NEW d \in Launched(kid[k].def, 0)
  PROVE  [Handled(kid[k], d) EXCEPT !.cmd = "none"] \in KidStates
BY ZenonT(60), DefsAssumption
   DEF TypeOK, KidStates, Handled, StopOutcome, ChildStates, Idle, Active, Launched,
       RunningState, ErrorState

\* What answering does to the handlers.
LEMMA ReplyType ==
  ASSUME TypeOK, NEW t \in Threads, NEW c \in {"none", "200", "204", "404", "409", "412", "gone"},
         NEW s \in ChildStates, Reply(t, Answer(c, s))
  PROVE  /\ thread' \in [Threads -> ThreadStates]
         /\ thread'[t] = [Idler EXCEPT !.answer = Answer(c, s)]
         /\ \A u \in Threads \ {t} : thread'[u] = thread[u]
<1>1. [Idler EXCEPT !.answer = Answer(c, s)] \in ThreadStates
  BY IdlerType DEF ThreadStates, Answer
<1> QED
  BY <1>1 DEF TypeOK, Reply

\* What a handler's move does to the handlers.
LEMMA GotoType ==
  ASSUME TypeOK, NEW t \in Threads,
         NEW pc \in {"idle", "lock", "check", "send", "ping", "look", "show", "wait", "cancel"},
         Goto(t, pc)
  PROVE  /\ thread' \in [Threads -> ThreadStates]
         /\ thread'[t] = [thread[t] EXCEPT !.pc = pc]
         /\ \A u \in Threads \ {t} : thread'[u] = thread[u]
BY DEF TypeOK, Goto, ThreadStates

\* What a send does to the children: the manager was at its select.
LEMMA OfferType ==
  ASSUME TypeOK, NEW k \in Kids, NEW c \in {"ping", "start", "stop", "delete"}, Offer(k, c)
  PROVE  /\ kid' \in [Kids -> KidStates]
         /\ kid[k].cmd = "none" /\ kid[k].mgr = "running" /\ Up
         /\ kid'[k] = [kid[k] EXCEPT !.cmd = c]
         /\ \A j \in Kids \ {k} : kid'[j] = kid[j]
BY DEF TypeOK, Offer, KidStates, Selecting

-----------------------------------------------------------------------------
\* A manager's step: its child's object changes, and perhaps the whole process ends.
Tends(k) ==
  /\ Up /\ kid' \in [Kids -> KidStates]
  /\ kid[k].mgr = "running" /\ kid'[k].name = kid[k].name
  /\ \/ kid'[k].mgr \in {"running", "deleted"} /\ server' = server
     \/ kid'[k].mgr = "panicked" /\ server' = "crashed"
  /\ kid'[k].cmd = "start" => kid[k].cmd = "start"
  /\ \A j \in Kids \ {k} : kid'[j] = kid[j]
  /\ UNCHANGED <<forced, mu, children, owner, term, thread>>

\* It is what the steps of a manager do but the last.
LEMMA ManagerTends ==
  ASSUME TypeOK, NEW k \in Kids,
         Handle(k) \/ Exited(k) \/ Kill(k) \/ Restart(k) \/ Panic(k)
  PROVE  Tends(k)
<1>1. kid[k] \in KidStates /\ kid \in [Kids -> KidStates]
  BY DEF TypeOK
<1>2. CASE Handle(k)
  <2>1. PICK d \in Launched(kid[k].def, 0) :
          kid' = [kid EXCEPT ![k] = [Handled(@, d) EXCEPT !.cmd = "none"]]
    BY <1>2 DEF Handle
  <2> DEFINE c == [Handled(kid[k], d) EXCEPT !.cmd = "none"]
  <2>2. c \in KidStates
    BY HandledType
  <2>3. c.name = kid[k].name /\ c.cmd = "none" /\ c.mgr \in {kid[k].mgr, "deleted"}
    BY <1>1 DEF Handled, KidStates
  <2>4. kid' = [kid EXCEPT ![k] = c]
    BY <2>1
  <2> HIDE DEF c
  <2> QED
    BY <1>1, <1>2, <2>2, <2>3, <2>4 DEF Tends, Handle, OnlyKid
<1>3. CASE Exited(k)
  <2>1. PICK s \in ChildStates, arms \in BOOLEAN :
          kid' = [kid EXCEPT ![k].state = s, ![k].armed = @ \/ arms]
    BY <1>3 DEF Exited
  <2> DEFINE c == [kid[k] EXCEPT !.state = s, !.armed = @ \/ arms]
  <2>2. (kid[k].armed \/ arms) \in BOOLEAN
    OBVIOUS
  <2>3. c \in KidStates
    BY <1>1, <2>2 DEF KidStates
  <2>4. kid' = [kid EXCEPT ![k] = c]
    BY <1>1, <2>1
  <2>5. c.name = kid[k].name /\ c.mgr = kid[k].mgr /\ c.cmd = kid[k].cmd
    BY <1>1 DEF KidStates
  <2> HIDE DEF c
  <2> QED
    BY <1>1, <1>3, <2>3, <2>4, <2>5 DEF Tends, Exited, OnlyKid, Selecting
<1>4. CASE Kill(k)
  <2>1. (IF kid[k].state \in Active THEN "stopping" ELSE kid[k].state) \in ChildStates
    BY <1>1 DEF KidStates, ChildStates, Active
  <2> QED
    BY <1>1, <1>4, <2>1 DEF Tends, Kill, OnlyKid, Selecting, KidStates
<1>5. CASE Restart(k)
  <2>1. PICK s \in LaunchedAny(kid[k].def) :
          kid' = [kid EXCEPT ![k].armed = FALSE, ![k].state = s,
                             ![k].doubled = @ \/ kid[k].state \in Active]
    BY <1>5 DEF Restart
  <2>2. s \in ChildStates
    BY DEF LaunchedAny, Launched, RunningState, ErrorState, ChildStates, Idle, Active
  <2>3. (kid[k].doubled \/ kid[k].state \in Active) \in BOOLEAN
    OBVIOUS
  <2> DEFINE c == [kid[k] EXCEPT !.armed = FALSE, !.state = s,
                                 !.doubled = @ \/ kid[k].state \in Active]
  <2>4. c \in KidStates
    BY <1>1, <2>2, <2>3 DEF KidStates
  <2>5. kid' = [kid EXCEPT ![k] = c]
    BY <1>1, <2>1
  <2>6. c.name = kid[k].name /\ c.mgr = kid[k].mgr /\ c.cmd = kid[k].cmd
    BY <1>1 DEF KidStates
  <2> HIDE DEF c
  <2> QED
    BY <1>1, <1>5, <2>4, <2>5, <2>6 DEF Tends, Restart, OnlyKid, Selecting
<1>6. CASE Panic(k)
  BY <1>1, <1>6 DEF Tends, Panic, Selecting, KidStates
<1> QED
  BY <1>2, <1>3, <1>4, <1>5, <1>6

\* What the steps of a handler do that are neither of a put that succeeds nor of a
\* Terminate.
Serves(t) ==
  /\ Up /\ t \in Requests
  /\ thread' \in [Threads -> ThreadStates] /\ kid' \in [Kids -> KidStates]
  /\ mu' \in {mu, NoThread}
  /\ thread[t].op # "terminate" /\ thread[t].pc # "idle"
  /\ thread'[t].op # "terminate" /\ HandlerOK(thread'[t])
  /\ \A u \in Threads \ {t} : thread'[u] = thread[u]
  /\ \A k \in Kids : kid'[k].name = kid[k].name /\ kid'[k].mgr = kid[k].mgr
  /\ \A k \in Kids : kid'[k].cmd = "start" =>
       \/ kid[k].cmd = "start" /\ ~Sender(t, k)
       \/ Sender(t, k)'
  /\ UNCHANGED <<server, forced, children, owner, term>>

\* A handler that has answered is where it may be.
LEMMA IdleServes ==
  ASSUME TypeOK, NEW c \in {"200", "404", "409", "412", "gone"},
         NEW s \in ChildStates
  PROVE  LET h == [Idler EXCEPT !.answer = Answer(c, s)] IN
         HandlerOK(h) /\ h.op = "child"
BY IdlerType DEF HandlerOK, Idler, Steps, ThreadStates

\* A handler that is past the map holds a child.
LEMMA SendServes ==
  ASSUME TypeOK, NEW t \in Threads, HandlerOK(thread[t]),
         thread[t].pc \notin {"idle", "lock"}, thread[t].op # "terminate"
  PROVE  thread[t].kid \in Kids
BY DEF TypeOK, ThreadStates, HandlerOK

\* The handlers of a status, a start, a stop, a delete and of a put that has its
\* child or meets a conflict (daemon.go:41-181).
LEMMA HandlerServes ==
  ASSUME TypeOK, HandlersInv, NEW t \in Threads,
         \/ Find(t) \/ Show(t) \/ Check(t) \/ Look(t) \/ Cancelled(t) \/ Deleted(t)
         \/ Send(t) \/ SyncStart(t) \/ PingStop(t) \/ PutPing(t)
         \/ Put(t) /\ children[thread[t].name] # NoKid
  PROVE  Serves(t)
<1>1. /\ HandlerOK(thread[t]) /\ thread[t] \in ThreadStates
      /\ thread \in [Threads -> ThreadStates] /\ kid \in [Kids -> KidStates]
      /\ children[thread[t].name] \in Kids \cup {NoKid}
  BY DEF TypeOK, HandlersInv, ThreadStates
<1>2. thread[t].op # "terminate" /\ thread[t].pc # "idle" /\ Up /\ t \in Requests
  BY DEF Find, Show, Check, Look, Cancelled, Deleted, Send, SyncStart, PingStop, PutPing,
         Put, At, HandlersInv, Threads
<1>3. thread[t].pc # "lock" => StateOf(t) \in ChildStates /\ thread[t].kid \in Kids
  BY <1>1, <1>2, SendServes DEF StateOf, KidStates
<1>4. ASSUME NEW c \in {"200", "404", "409", "412", "gone"}, NEW s \in ChildStates,
             Reply(t, Answer(c, s)),
             ~(thread[t].op = "start" /\ thread[t].pc = "ping"),
             mu' \in {mu, NoThread}, kid' = kid, UNCHANGED <<server, forced, children, owner, term>>
      PROVE  Serves(t)
  <2>1. /\ thread' \in [Threads -> ThreadStates]
        /\ thread'[t] = [Idler EXCEPT !.answer = Answer(c, s)]
        /\ \A u \in Threads \ {t} : thread'[u] = thread[u]
    BY <1>4, ReplyType
  <2>2. HandlerOK(thread'[t]) /\ thread'[t].op = "child"
    BY <2>1, IdleServes
  <2>3. \A k \in Kids : ~Sender(t, k)
    BY <1>4 DEF Sender
  <2> QED
    BY <1>1, <1>2, <1>4, <2>1, <2>2, <2>3 DEF Serves
<1>5. ASSUME NEW pc \in {"check", "send", "ping", "look", "show", "wait"},
             Goto(t, pc), pc \in Steps(thread[t].op), thread[t].pc # "lock",
             ~(thread[t].op = "start" /\ thread[t].pc = "ping"),
             UNCHANGED <<server, forced, mu, children, kid, owner, term>>
      PROVE  Serves(t)
  <2>1. /\ thread' \in [Threads -> ThreadStates]
        /\ thread'[t] = [thread[t] EXCEPT !.pc = pc]
        /\ \A u \in Threads \ {t} : thread'[u] = thread[u]
    BY <1>5, GotoType
  <2>2. HandlerOK(thread'[t]) /\ thread'[t].op = thread[t].op
    BY <1>1, <1>2, <1>5, <2>1 DEF HandlerOK, ThreadStates
  <2>3. \A k \in Kids : ~Sender(t, k)
    BY <1>5 DEF Sender
  <2> QED
    BY <1>1, <1>2, <1>5, <2>1, <2>2, <2>3 DEF Serves
<1>6. ASSUME NEW pc \in {"look", "ping", "wait"}, NEW c \in {"ping", "start", "stop", "delete"},
             Goto(t, pc), pc \in Steps(thread[t].op), thread[t].pc # "lock",
             Offer(thread[t].kid, c), c = "start" => thread[t].op = "start" /\ pc = "ping",
             UNCHANGED <<server, forced, mu, children, owner, term>>
      PROVE  Serves(t)
  <2>1. /\ thread' \in [Threads -> ThreadStates]
        /\ thread'[t] = [thread[t] EXCEPT !.pc = pc]
        /\ \A u \in Threads \ {t} : thread'[u] = thread[u]
    BY <1>6, GotoType
  <2>2. HandlerOK(thread'[t]) /\ thread'[t].op = thread[t].op /\ thread'[t].pc = pc
        /\ thread'[t].kid = thread[t].kid
    BY <1>1, <1>2, <1>6, <2>1 DEF HandlerOK, ThreadStates
  <2> DEFINE k == thread[t].kid
  <2>3. /\ kid' \in [Kids -> KidStates] /\ kid[k].cmd = "none"
        /\ kid'[k] = [kid[k] EXCEPT !.cmd = c]
        /\ \A j \in Kids \ {k} : kid'[j] = kid[j]
    BY <1>3, <1>6, OfferType
  <2>4. kid'[k].name = kid[k].name /\ kid'[k].mgr = kid[k].mgr /\ kid'[k].cmd = c
    BY <1>1, <1>3, <1>6, <2>3 DEF KidStates
  <2>5. \A j \in Kids : kid'[j].cmd = "start" =>
          (kid[j].cmd = "start" /\ ~Sender(t, j)) \/ Sender(t, j)'
    BY <1>6, <2>2, <2>3, <2>4 DEF Sender
  <2> QED
    BY <1>1, <1>2, <1>6, <2>1, <2>2, <2>3, <2>4, <2>5 DEF Serves
<1>7. "stopped" \in ChildStates
  BY DEF ChildStates, Idle
<1>8. CASE Find(t)
  <2>1. CASE children[thread[t].name] = NoKid
    BY <1>4, <1>7, <1>8, <2>1 DEF Find, Refuse, OnlyThread, At
  <2>2. CASE children[thread[t].name] # NoKid
    BY <1>1, <1>2, <1>8, <2>2
       DEF Find, OnlyThread, At, Serves, Sender, HandlerOK, Steps, ThreadStates
  <2> QED
    BY <2>1, <2>2
<1>9. CASE Show(t)
  BY <1>3, <1>4, <1>9 DEF Show, OnlyThread, At
<1>10. CASE Check(t)
  BY <1>4, <1>5, <1>7, <1>10 DEF Check, Refuse, OnlyThread, At, Steps
<1>11. CASE Look(t)
  BY <1>3, <1>4, <1>5, <1>11 DEF Look, OnlyThread, At, Steps
<1>12. CASE Cancelled(t)
  BY <1>4, <1>7, <1>12 DEF Cancelled, Refuse, OnlyThread, At
<1>13. CASE Deleted(t)
  BY <1>3, <1>4, <1>13 DEF Deleted, OnlyThread, At
<1>14. CASE Send(t)
  <2>1. CASE thread[t].op = "delete"
    BY <1>6, <1>14, <2>1 DEF Send, OnlySend, At, Steps
  <2>2. CASE thread[t].op \in {"start", "stop"}
    BY <1>6, <1>14, <2>2 DEF Send, OnlySend, At, Steps
  <2> QED
    BY <1>14, <2>1, <2>2 DEF Send, At
<1>15. CASE SyncStart(t)
  BY <1>6, <1>15 DEF SyncStart, OnlySend, At, Steps
<1>16. CASE PingStop(t)
  BY <1>6, <1>16 DEF PingStop, OnlySend, At, Steps
<1>17. CASE PutPing(t)
  <2>1. thread[t].kid \in Kids /\ StateOf(t) \in ChildStates
    BY <1>3, <1>17 DEF PutPing, At
  <2>2. Offer(thread[t].kid, "ping") /\ Reply(t, Answer("200", StateOf(t))) /\ mu' = NoThread
        /\ thread[t].op = "put" /\ UNCHANGED <<server, forced, children, owner, term>>
    BY <1>17 DEF PutPing, At
  <2> QED
    <3>1. /\ thread' \in [Threads -> ThreadStates]
          /\ thread'[t] = [Idler EXCEPT !.answer = Answer("200", StateOf(t))]
          /\ \A u \in Threads \ {t} : thread'[u] = thread[u]
      BY <2>1, <2>2, ReplyType
    <3>2. HandlerOK(thread'[t]) /\ thread'[t].op = "child"
      BY <2>1, <3>1, IdleServes
    <3> DEFINE k == thread[t].kid
    <3>3. /\ kid' \in [Kids -> KidStates]
          /\ kid'[k] = [kid[k] EXCEPT !.cmd = "ping"]
          /\ \A j \in Kids \ {k} : kid'[j] = kid[j]
      BY <2>1, <2>2, OfferType
    <3>4. kid'[k].name = kid[k].name /\ kid'[k].mgr = kid[k].mgr /\ kid'[k].cmd = "ping"
      BY <1>1, <2>1, <3>3 DEF KidStates
    <3>5. \A j \in Kids : ~Sender(t, j)
      BY <2>2 DEF Sender
    <3> QED
      BY <1>1, <1>2, <2>1, <2>2, <3>1, <3>2, <3>3, <3>4, <3>5 DEF Serves
<1>18. CASE Put(t) /\ children[thread[t].name] # NoKid
  BY <1>4, <1>7, <1>18 DEF Put, Refuse, At
<1> QED
  BY <1>8, <1>9, <1>10, <1>11, <1>12, <1>13, <1>14, <1>15, <1>16, <1>17, <1>18

-----------------------------------------------------------------------------
\* A manager's steps keep the invariant.
LEMMA TendsKeeps ==
  ASSUME IInv, NEW k \in Kids, Tends(k)
  PROVE  IInv'
<1> USE DEF IInv
<1>1. TypeOK'
  BY DEF TypeOK, Tends
<1>2. HandlersInv'
  BY DEF HandlersInv, Tends, HandlerOK
<1>3. StartsInv'
  BY DEF StartsInv, Tends, Sender
<1>4. MapInv'
  <2>1. \A j \in Kids : kid'[j].name = kid[j].name
    BY DEF Tends
  <2>2. \A j \in Kids : Alive(j)' => Alive(j)
    BY DEF Tends, Alive
  <2>3. \A j \in Kids : kid[j].mgr \in {"running", "deleted", "panicked"} =>
                        kid'[j].mgr \in {"running", "deleted", "panicked"}
    BY DEF Tends
  <2>4. children' = children /\ owner' = owner
    BY DEF Tends
  <2>5. \A j \in Kids : kid'[j].mgr = "panicked" => server' = "crashed"
    BY DEF Tends, MapInv, Up
  <2>6. \A n \in Names : children[n] # NoKid => children[n] \in Kids
    BY DEF TypeOK
  <2> QED
    BY <2>1, <2>2, <2>3, <2>4, <2>5, <2>6 DEF MapInv, Taken
<1>5. TakenInv'
  <2>1. \A j \in Kids : Waited(j) => Waited(j)'
    BY DEF Tends, Waited
  <2> QED
    BY <2>1 DEF TakenInv, Tends, Taken
<1>6. CloseInv'
  BY DEF CloseInv, Closed, Tends, Up
<1> QED
  BY <1>1, <1>2, <1>3, <1>4, <1>5, <1>6

\* So do a handler's but those below.
LEMMA ServesKeeps ==
  ASSUME IInv, NEW t \in Threads, Serves(t)
  PROVE  IInv'
<1> USE DEF IInv
<1>1. TypeOK'
  BY DEF TypeOK, Serves
<1>2. HandlersInv'
  BY MainAssumption DEF HandlersInv, Serves, Threads
<1>3. StartsInv'
  <2>1. \A u \in Requests, k \in Kids : Sender(u, k) /\ u # t => Sender(u, k)'
    BY DEF Serves, Sender, Threads
  <2>2. t \in Requests /\ \A k \in Kids : kid'[k].cmd = "start" =>
          (kid[k].cmd = "start" /\ ~Sender(t, k)) \/ Sender(t, k)'
    BY DEF Serves
  <2> QED
    BY <2>1, <2>2 DEF StartsInv
<1>4. MapInv'
  <2>1. \A n \in Names : children[n] # NoKid => children[n] \in Kids
    BY DEF TypeOK
  <2> QED
    BY <2>1 DEF MapInv, Serves, Taken, Alive
<1>5. TakenInv'
  <2>1. \A j \in Kids : Waited(j) => Waited(j)'
    BY DEF Serves, Waited
  <2> QED
    BY <2>1 DEF TakenInv, Serves, Taken, TypeOK
<1>6. CloseInv'
  BY MainAssumption DEF CloseInv, Closed, Serves, Up
<1> QED
  BY <1>1, <1>2, <1>3, <1>4, <1>5, <1>6

\* A put that succeeds: nothing else that runs under the name was in the map
\* (daemon.go:89-109).
LEMMA PutKeeps ==
  ASSUME IInv, NEW t \in Threads, Put(t), children[thread[t].name] = NoKid
  PROVE  IInv'
<1> USE DEF IInv
<1> DEFINE n == thread[t].name
<1>1. /\ thread[t] \in ThreadStates /\ n \in Names /\ HandlerOK(thread[t])
      /\ thread \in [Threads -> ThreadStates] /\ kid \in [Kids -> KidStates]
      /\ children \in [Names -> Kids \cup {NoKid}]
  BY DEF TypeOK, HandlersInv, ThreadStates
<1>2. thread[t].op = "put" /\ thread[t].pc = "lock" /\ Up /\ t \in Requests
  BY DEF Put, At, HandlersInv, Threads
<1>3. PICK k \in Kids :
        /\ kid[k].mgr = "unused" /\ kid[k].name = n
        /\ children' = [children EXCEPT ![n] = k]
        /\ kid' = [kid EXCEPT ![k].mgr = "running"]
        /\ mu' = t
        /\ thread' = [thread EXCEPT ![t].kid = k, ![t].pc = "send"]
        /\ UNCHANGED <<server, forced, owner, term>>
  BY DEF Put
<1>4. /\ thread' \in [Threads -> ThreadStates]
      /\ thread'[t].op = "put" /\ HandlerOK(thread'[t])
      /\ \A u \in Threads \ {t} : thread'[u] = thread[u]
  BY <1>1, <1>2, <1>3, NilAssumption DEF ThreadStates, HandlerOK, Steps
<1>5. /\ kid' \in [Kids -> KidStates]
      /\ \A j \in Kids : kid'[j].name = kid[j].name /\ kid'[j].cmd = kid[j].cmd
      /\ \A j \in Kids \ {k} : kid'[j] = kid[j]
      /\ kid'[k].mgr = "running"
  BY <1>1, <1>3 DEF KidStates
<1>6. TypeOK'
  BY <1>1, <1>2, <1>3, <1>4, <1>5 DEF TypeOK
<1>7. HandlersInv'
  BY <1>2, <1>3, <1>4, MainAssumption DEF HandlersInv, Threads
<1>8. StartsInv'
  BY <1>2, <1>4, <1>5 DEF StartsInv, Sender, Threads
<1>9. MapInv'
  <2>1. children'[n] = k /\ \A m \in Names \ {n} : children'[m] = children[m]
    BY <1>1, <1>3
  <2>2. \A m \in Names : children[m] # NoKid => children[m] \in Kids
    BY <1>1
  <2>3. \A m \in Names : children'[m] # NoKid =>
          /\ kid'[children'[m]].name = m
          /\ kid'[children'[m]].mgr \in {"running", "deleted", "panicked"}
    BY <1>3, <1>5, <2>1, <2>2 DEF MapInv
  <2>4. \A j \in Kids \ {k} : Alive(j)' =>
          \/ children'[kid'[j].name] = j
          \/ Taken(j)'
          \/ \E i \in Kids \ {j} : kid'[i].name = kid'[j].name /\ Taken(i)'
    <3> SUFFICES ASSUME NEW j \in Kids \ {k}, Alive(j)'
                 PROVE  \/ children'[kid'[j].name] = j
                        \/ Taken(j)'
                        \/ \E i \in Kids \ {j} : kid'[i].name = kid'[j].name /\ Taken(i)'
      OBVIOUS
    <3>1. Alive(j) /\ j \in Kids /\ kid[j].name \in Names
      BY <1>1, <1>5 DEF Alive, KidStates
    <3>2. children[kid[j].name] = j => kid[j].name # n
      BY NilAssumption
    <3> QED
      BY <1>3, <1>5, <2>1, <3>1, <3>2 DEF MapInv, Taken
  <2>5. \A j \in Kids : kid'[j].mgr = "panicked" => server' = "crashed"
    BY <1>3, <1>5 DEF MapInv
  <2> QED
    BY <1>3, <1>5, <2>1, <2>3, <2>4, <2>5 DEF MapInv
<1>10. TakenInv'
  <2>1. \A j \in Kids : Waited(j) => Waited(j)'
    BY <1>3, <1>5 DEF Waited
  <2> QED
    BY <1>2, <1>3, <1>4, <2>1 DEF TakenInv, Taken, TypeOK
<1>11. CloseInv'
  BY <1>2, <1>3, <1>4, MainAssumption DEF CloseInv, Closed, Up
<1> QED
  BY <1>6, <1>7, <1>8, <1>9, <1>10, <1>11

\* The removal from the map at the end of a manager, which may be of a namesake: then
\* a Terminate took one of the two (daemon.go:96-101).
LEMMA ReapKeeps ==
  ASSUME IInv, NEW k \in Kids, Reap(k)
  PROVE  IInv'
<1> USE DEF IInv
<1> DEFINE n == kid[k].name
<1>1. kid \in [Kids -> KidStates] /\ children \in [Names -> Kids \cup {NoKid}] /\ n \in Names
  BY DEF TypeOK, KidStates
<1>2. /\ Up /\ kid[k].mgr = "deleted"
      /\ kid' = [kid EXCEPT ![k].mgr = "reaped"]
      /\ children' = [children EXCEPT ![n] = NoKid]
      /\ UNCHANGED <<server, forced, mu, owner, term, thread>>
  BY DEF Reap
<1>3. /\ kid' \in [Kids -> KidStates]
      /\ \A j \in Kids : kid'[j].name = kid[j].name /\ kid'[j].cmd = kid[j].cmd
      /\ \A j \in Kids \ {k} : kid'[j] = kid[j]
      /\ kid'[k].mgr = "reaped"
  BY <1>1, <1>2 DEF KidStates
<1>4. /\ children' \in [Names -> Kids \cup {NoKid}]
      /\ children'[n] = NoKid /\ \A m \in Names \ {n} : children'[m] = children[m]
  BY <1>1, <1>2
<1>5. TypeOK'
  BY <1>2, <1>3, <1>4 DEF TypeOK
<1>6. HandlersInv'
  BY <1>2 DEF HandlersInv
<1>7. StartsInv'
  BY <1>2, <1>3 DEF StartsInv, Sender
<1>8. MapInv'
  <2>1. \A m \in Names : children'[m] # NoKid =>
          /\ kid'[children'[m]].name = m
          /\ kid'[children'[m]].mgr \in {"running", "deleted", "panicked"}
    <3> SUFFICES ASSUME NEW m \in Names, children'[m] # NoKid
                 PROVE  /\ kid'[children'[m]].name = m
                        /\ kid'[children'[m]].mgr \in {"running", "deleted", "panicked"}
      OBVIOUS
    <3>1. m # n /\ children'[m] = children[m] /\ children[m] \in Kids
      BY <1>1, <1>4
    <3>2. kid[children[m]].name = m
      BY <3>1 DEF MapInv
    <3>3. children[m] # k
      BY <3>1, <3>2
    <3> QED
      BY <1>3, <3>1, <3>3 DEF MapInv
  <2>2. ASSUME NEW j \in Kids, Alive(j)'
        PROVE  \/ children'[kid'[j].name] = j
               \/ Taken(j)'
               \/ \E i \in Kids \ {j} : kid'[i].name = kid'[j].name /\ Taken(i)'
    <3>1. j # k /\ Alive(j) /\ kid[j].name \in Names
      BY <1>1, <1>3, <2>2 DEF Alive, KidStates
    <3>2. CASE children[kid[j].name] # j \/ kid[j].name # n
      BY <1>2, <1>3, <1>4, <3>1, <3>2 DEF MapInv, Taken
    <3>3. CASE children[n] = j /\ kid[j].name = n
      <4>1. Alive(k) /\ children[kid[k].name] # k
        BY <1>2, <3>1, <3>3 DEF Alive
      <4>2. Taken(k) \/ \E i \in Kids \ {k} : kid[i].name = n /\ Taken(i)
        BY <4>1 DEF MapInv
      <4>3. Taken(j) \/ \E i \in Kids \ {j} : kid[i].name = n /\ Taken(i)
        BY <3>1, <4>2
      <4> QED
        BY <1>2, <1>3, <3>3, <4>3 DEF Taken
    <3> QED
      BY <3>2, <3>3
  <2>3. \A j \in Kids : kid'[j].mgr = "panicked" => server' = "crashed"
    BY <1>2, <1>3 DEF MapInv
  <2> QED
    BY <2>1, <2>2, <2>3 DEF MapInv
<1>9. TakenInv'
  <2>1. \A j \in Kids : Waited(j) => Waited(j)'
    BY <1>2, <1>3 DEF Waited
  <2> QED
    BY <1>2, <2>1 DEF TakenInv, Taken
<1>10. CloseInv'
  BY <1>2, <1>4 DEF CloseInv, Closed
<1> QED
  BY <1>5, <1>6, <1>7, <1>8, <1>9, <1>10

\* What a Terminate does for each child it took (daemon.go:228-246).
LEMMA EndingKeeps ==
  ASSUME IInv, NEW k \in Kids, Ending(k)
  PROVE  IInv'
<1> USE DEF IInv
<1>1. /\ kid \in [Kids -> KidStates]
      /\ term \in [Kids -> {"none", "stop", "poll", "delete", "wait", "done"}]
  BY DEF TypeOK
<1>2. /\ Up /\ UNCHANGED <<server, forced, mu, children, owner, thread>>
      /\ term[k] # "done"
  BY DEF Ending, TermStop, TermPoll, TermDelete, TermWait, TermAt, TermGoto
<1>3. /\ kid' \in [Kids -> KidStates]
      /\ \A j \in Kids : kid'[j].name = kid[j].name /\ kid'[j].mgr = kid[j].mgr
      /\ \A j \in Kids : kid'[j].cmd = "start" => kid[j].cmd = "start"
  <2>1. CASE kid' = kid
    BY <1>1, <2>1
  <2>2. CASE Offer(k, "stop") \/ Offer(k, "delete")
    <3>1. PICK c \in {"stop", "delete"} : Offer(k, c)
      BY <2>2
    <3>2. /\ kid' \in [Kids -> KidStates]
          /\ kid'[k] = [kid[k] EXCEPT !.cmd = c]
          /\ \A j \in Kids \ {k} : kid'[j] = kid[j]
      BY <3>1, OfferType
    <3>3. kid'[k].name = kid[k].name /\ kid'[k].mgr = kid[k].mgr /\ kid'[k].cmd = c
      BY <1>1, <3>2 DEF KidStates
    <3> QED
      BY <3>2, <3>3
  <2> QED
    BY <2>1, <2>2 DEF Ending, TermStop, TermPoll, TermDelete, TermWait
<1>4. /\ term' \in [Kids -> {"none", "stop", "poll", "delete", "wait", "done"}]
      /\ \A j \in Kids \ {k} : term'[j] = term[j]
      /\ term'[k] = "done" => Waited(k)
  BY <1>1 DEF Ending, TermStop, TermPoll, TermDelete, TermWait, TermGoto
<1>5. TypeOK'
  BY <1>2, <1>3, <1>4 DEF TypeOK
<1>6. HandlersInv'
  BY <1>2 DEF HandlersInv
<1>7. StartsInv'
  BY <1>2, <1>3 DEF StartsInv, Sender
<1>8. MapInv'
  <2>1. \A n \in Names : children[n] # NoKid => children[n] \in Kids
    BY DEF TypeOK
  <2> QED
    BY <1>2, <1>3, <2>1 DEF MapInv, Taken, Alive
<1>9. TakenInv'
  <2>1. \A j \in Kids : Waited(j) => Waited(j)'
    BY <1>3 DEF Waited
  <2> QED
    BY <1>2, <1>4, <2>1 DEF TakenInv, Taken
<1>10. CloseInv'
  BY <1>2 DEF CloseInv, Closed
<1> QED
  BY <1>5, <1>6, <1>7, <1>8, <1>9, <1>10

\* Where only handlers move, the children and what a Terminate does for each stay.
LEMMA OnlyHandlersMove ==
  ASSUME IInv, UNCHANGED <<children, kid, owner, term>>,
         server = "crashed" => server' = "crashed",
         server # "serving" => server' # "serving",
         thread' \in [Threads -> ThreadStates],
         NEW t \in Threads, \A u \in Threads \ {t} : thread'[u] = thread[u],
         thread[t].pc \in {"idle", "cancel"} \/ \A k \in Kids : owner[k] = t => term[k] = "done",
         ~(thread[t].op = "start" /\ thread[t].pc = "ping"),
         thread'[t].op = "terminate" /\ thread'[t].pc # "cancel" => server' # "serving"
  PROVE  StartsInv' /\ MapInv' /\ TakenInv'
<1>1. StartsInv'
  <2>1. \A u \in Requests, k \in Kids : Sender(u, k) => Sender(u, k)'
    BY DEF Sender, Threads
  <2> QED
    BY <2>1 DEF IInv, StartsInv
<1>2. MapInv'
  BY DEF IInv, MapInv, Taken, Alive
<1>3. TakenInv'
  BY DEF IInv, TakenInv, Taken, Waited, TypeOK
<1> QED
  BY <1>1, <1>2, <1>3

\* A Terminate tells HTTP.Run to shut down.
LEMMA CancelKeeps ==
  ASSUME IInv, NEW t \in Threads, Cancel(t)
  PROVE  IInv'
<1>1. /\ TypeOK /\ HandlersInv /\ CloseInv /\ Up
      /\ thread[t] \in ThreadStates /\ HandlerOK(thread[t])
      /\ thread[t].op = "terminate" /\ thread[t].pc = "cancel"
  BY DEF IInv, TypeOK, HandlersInv, Cancel, At
<1>2. /\ thread' \in [Threads -> ThreadStates]
      /\ thread'[t] = [thread[t] EXCEPT !.pc = "lock"]
      /\ \A u \in Threads \ {t} : thread'[u] = thread[u]
  BY <1>1, GotoType DEF Cancel
<1>3. /\ server' = IF server = "serving" THEN "draining" ELSE server
      /\ UNCHANGED <<forced, mu, children, kid, owner, term>>
  BY DEF Cancel
<1>4. /\ thread'[t].op = "terminate" /\ thread'[t].pc = "lock"
      /\ thread'[t].answer = thread[t].answer /\ HandlerOK(thread'[t])
  BY <1>1, <1>2 DEF ThreadStates, HandlerOK, Steps
<1>5. TypeOK'
  BY <1>1, <1>2, <1>3 DEF TypeOK
<1>6. HandlersInv'
  BY <1>1, <1>2, <1>3, <1>4 DEF HandlersInv, Threads
<1>7. StartsInv' /\ MapInv' /\ TakenInv'
  BY <1>1, <1>2, <1>3, <1>4, OnlyHandlersMove DEF Up
<1>8. CloseInv'
  BY <1>1, <1>2, <1>3, <1>4, MainAssumption DEF CloseInv, Closed, Threads, HandlerOK
<1> QED
  BY <1>5, <1>6, <1>7, <1>8 DEF IInv

\* A Terminate takes the children out of the map.
LEMMA SnapshotKeeps ==
  ASSUME IInv, NEW t \in Threads, Snapshot(t)
  PROVE  IInv'
<1> DEFINE mine == {children[n] : n \in Names} \ {NoKid}
<1>1. /\ TypeOK /\ HandlersInv /\ StartsInv /\ MapInv /\ TakenInv /\ CloseInv /\ Up
      /\ thread[t] \in ThreadStates /\ HandlerOK(thread[t])
      /\ thread[t].op = "terminate" /\ thread[t].pc = "lock" /\ server # "serving"
  BY DEF IInv, TypeOK, HandlersInv, Snapshot, At, TakenInv
<1>2. /\ thread' \in [Threads -> ThreadStates]
      /\ thread'[t] = [thread[t] EXCEPT !.pc = "wait"]
      /\ \A u \in Threads \ {t} : thread'[u] = thread[u]
  BY <1>1, GotoType DEF Snapshot
<1>3. /\ \A k \in Kids : owner'[k] = IF k \in mine THEN t ELSE owner[k]
      /\ \A k \in Kids : term'[k] = IF k \in mine THEN "stop" ELSE term[k]
      /\ owner' \in [Kids -> Threads \cup {NoThread}]
      /\ term' \in [Kids -> {"none", "stop", "poll", "delete", "wait", "done"}]
      /\ children' \in [Names -> Kids \cup {NoKid}]
      /\ \A n \in Names : children'[n] = NoKid
      /\ UNCHANGED <<server, forced, mu, kid>>
  BY <1>1 DEF Snapshot, TypeOK
<1>4. /\ thread'[t].op = "terminate" /\ thread'[t].pc = "wait"
      /\ thread'[t].answer = thread[t].answer /\ HandlerOK(thread'[t])
  BY <1>1, <1>2 DEF ThreadStates, HandlerOK, Steps
<1>5. TypeOK'
  BY <1>1, <1>2, <1>3 DEF TypeOK
<1>6. HandlersInv'
  BY <1>1, <1>2, <1>3, <1>4 DEF HandlersInv, Threads
<1>7. StartsInv'
  <2>1. \A u \in Requests, k \in Kids : Sender(u, k) => Sender(u, k)'
    BY <1>1, <1>2 DEF Sender, Threads
  <2> QED
    BY <1>1, <1>3, <2>1 DEF StartsInv
<1>8. MapInv'
  <2>1. \A k \in Kids : k \in mine \/ Taken(k) => Taken(k)'
    BY <1>3, NilAssumption DEF Taken
  <2>2. \A k \in Kids : kid[k].name \in Names
    BY <1>1 DEF TypeOK, KidStates
  <2>3. \A k \in Kids : children[kid[k].name] = k => k \in mine
    BY <2>2, NilAssumption
  <2> HIDE DEF mine
  <2> QED
    BY <1>1, <1>3, <2>1, <2>3 DEF MapInv, Alive
<1>9. TakenInv'
  <2> HIDE DEF mine
  <2>1. \A k \in Kids : Taken(k)' /\ term'[k] # "done" =>
          k \in mine \/ (Taken(k) /\ term[k] # "done" /\ owner'[k] = owner[k])
    <3>1. \A k \in Kids : k \notin mine => owner'[k] = owner[k] /\ term'[k] = term[k]
      BY <1>3
    <3> QED
      BY <3>1 DEF Taken
  <2>2. \A k \in Kids : Taken(k)' /\ term'[k] # "done" =>
          thread'[owner'[k]].op = "terminate" /\ thread'[owner'[k]].pc = "wait"
    <3>1. \A k \in Kids : k \in mine => owner'[k] = t
      BY <1>3
    <3>2. \A k \in Kids : Taken(k) /\ term[k] # "done" =>
            /\ owner[k] \in Threads
            /\ thread[owner[k]].op = "terminate" /\ thread[owner[k]].pc = "wait"
      BY <1>1 DEF TakenInv, Taken, TypeOK
    <3>3. \A k \in Kids : Taken(k) /\ term[k] # "done" => thread'[owner[k]] = thread[owner[k]]
      BY <1>1, <1>2, <3>2
    <3> QED
      BY <1>4, <2>1, <3>1, <3>2, <3>3
  <2>3. \A k \in Kids : term'[k] = "done" => term[k] = "done" /\ Waited(k)'
    BY <1>1, <1>3 DEF TakenInv, Waited
  <2> QED
    BY <1>1, <1>2, <1>3, <1>4, <2>2, <2>3 DEF TakenInv
<1>10. CloseInv'
  BY <1>1, <1>2, <1>3, <1>4 DEF CloseInv, Closed, Threads, Up
<1> QED
  BY <1>5, <1>6, <1>7, <1>8, <1>9, <1>10 DEF IInv

\* A Terminate ends when all that it took has.
LEMMA JoinKeeps ==
  ASSUME IInv, NEW t \in Threads, Join(t)
  PROVE  IInv'
<1>1. /\ TypeOK /\ HandlersInv /\ CloseInv /\ Up
      /\ thread[t] \in ThreadStates
      /\ thread[t].op = "terminate" /\ thread[t].pc = "wait" /\ server # "serving"
  BY DEF IInv, TypeOK, HandlersInv, Join, At, TakenInv
<1>2. /\ thread' \in [Threads -> ThreadStates]
      /\ thread'[t] = [Idler EXCEPT !.answer = Answer("204", "stopped")]
      /\ \A u \in Threads \ {t} : thread'[u] = thread[u]
      /\ UNCHANGED <<server, forced, mu, children, kid, owner, term>>
  BY <1>1, ReplyType DEF Join, OnlyThread, ChildStates, Idle
<1>3. /\ thread'[t].op = "child" /\ thread'[t].pc = "idle" /\ thread'[t].answer.code = "204"
      /\ HandlerOK(thread'[t])
  BY <1>2, IdlerType DEF Idler, Answer, HandlerOK, Steps, ThreadStates
<1>4. \A k \in Kids : owner[k] = t => term[k] = "done"
  BY DEF Join
<1>5. TypeOK'
  BY <1>1, <1>2 DEF TypeOK
<1>6. HandlersInv'
  BY <1>1, <1>2, <1>3 DEF HandlersInv, Threads
<1>7. StartsInv' /\ MapInv' /\ TakenInv'
  BY <1>1, <1>2, <1>3, <1>4, OnlyHandlersMove
<1>8. CloseInv'
  BY <1>1, <1>2, <1>3 DEF CloseInv, Closed, Threads, Up
<1> QED
  BY <1>5, <1>6, <1>7, <1>8 DEF IInv

\* A request comes in.
LEMMA ArrivalKeeps ==
  ASSUME IInv, Arrival
  PROVE  IInv'
<1>1. PICK t \in Requests, n \in Names, op \in AllOps : Call(t, op, n)
  BY DEF Arrival
<1> DEFINE h == [op |-> op, name |-> n, kid |-> NoKid,
                 pc |-> IF op = "terminate" THEN "cancel" ELSE "lock", answer |-> NoAnswer]
<1>2. /\ server = "serving" /\ thread[t].pc = "idle" /\ thread' = [thread EXCEPT ![t] = h]
      /\ UNCHANGED <<server, forced, mu, children, kid, owner, term>>
  BY <1>1 DEF Call, OnlyThread
<1>3. TypeOK /\ HandlersInv /\ t \in Threads /\ t # Main
  BY MainAssumption DEF IInv, Threads
<1>4. h \in ThreadStates /\ HandlerOK(h)
  BY DEF ThreadStates, HandlerOK, Steps, NoAnswer, Answer, ChildStates, Idle, AllOps
<1>5. h.op = "terminate" => h.pc = "cancel"
  OBVIOUS
<1> HIDE DEF h
<1>6. /\ thread' \in [Threads -> ThreadStates] /\ thread'[t] = h
      /\ \A u \in Threads \ {t} : thread'[u] = thread[u]
  BY <1>2, <1>3, <1>4 DEF TypeOK
<1>7. TypeOK'
  BY <1>2, <1>3, <1>6 DEF TypeOK
<1>8. HandlersInv'
  BY <1>2, <1>3, <1>4, <1>6 DEF HandlersInv
<1>9. StartsInv' /\ MapInv' /\ TakenInv'
  BY <1>2, <1>3, <1>5, <1>6, OnlyHandlersMove
<1>10. CloseInv'
  BY <1>2 DEF CloseInv, Closed
<1> QED
  BY <1>7, <1>8, <1>9, <1>10 DEF IInv

\* The steps of HTTP.Run (http.go:56-82).
LEMMA RunningKeeps ==
  ASSUME IInv, Running
  PROVE  IInv'
<1>1. TypeOK /\ HandlersInv /\ CloseInv /\ TakenInv /\ Main \in Threads /\ Main \notin Requests
  BY MainAssumption DEF IInv, Threads
<1>2. CASE Signal
  <2>1. /\ server = "serving" /\ server' = "draining"
        /\ UNCHANGED <<forced, mu, children, kid, owner, term, thread>>
    BY <1>2 DEF Signal
  <2>2. TypeOK' /\ HandlersInv' /\ CloseInv'
    BY <1>1, <2>1 DEF TypeOK, HandlersInv, CloseInv, Closed
  <2>3. StartsInv' /\ MapInv' /\ TakenInv'
    BY <2>1 DEF IInv, StartsInv, Sender, MapInv, Alive, Taken, TakenInv, Waited
  <2> QED
    BY <2>2, <2>3 DEF IInv
<1>3. CASE Drained \/ DrainTimeout
  <2>1. /\ server = "draining" /\ server' = "closed"
        /\ thread' = [thread EXCEPT ![Main].op = "terminate", ![Main].pc = "cancel"]
        /\ UNCHANGED <<mu, children, kid, owner, term>>
        /\ forced' \in BOOLEAN
        /\ ~forced' => \A t \in Requests : thread[t].pc = "idle"
    BY <1>1, <1>3 DEF Drained, DrainTimeout, TypeOK
  <2>2. /\ thread' \in [Threads -> ThreadStates]
        /\ thread'[Main].op = "terminate" /\ thread'[Main].pc = "cancel"
        /\ thread'[Main].answer = thread[Main].answer
        /\ \A u \in Threads \ {Main} : thread'[u] = thread[u]
    <3> DEFINE h == [thread[Main] EXCEPT !.op = "terminate", !.pc = "cancel"]
    <3>1. thread[Main] \in ThreadStates /\ thread \in [Threads -> ThreadStates]
      BY <1>1 DEF TypeOK
    <3>2. /\ h \in ThreadStates /\ h.op = "terminate" /\ h.pc = "cancel"
          /\ h.answer = thread[Main].answer
      BY <3>1 DEF ThreadStates, AllOps
    <3>3. thread' = [thread EXCEPT ![Main] = h]
      BY <1>1, <2>1, <3>1 DEF ThreadStates
    <3> HIDE DEF h
    <3> QED
      BY <1>1, <3>1, <3>2, <3>3
  <2>3. thread[Main].pc = "idle" /\ thread[Main].answer.code = "none"
    BY <1>1, <2>1 DEF HandlersInv
  <2>4. HandlerOK(thread'[Main])
    BY <2>2, <2>3 DEF HandlerOK, Steps
  <2>5. TypeOK'
    BY <1>1, <2>1, <2>2 DEF TypeOK
  <2>6. HandlersInv'
    BY <1>1, <2>1, <2>2, <2>4 DEF HandlersInv
  <2>7. StartsInv' /\ MapInv' /\ TakenInv'
    BY <1>1, <2>1, <2>2, <2>3, OnlyHandlersMove
  <2>8. CloseInv'
    BY <1>1, <2>1, <2>2, <2>3 DEF CloseInv, Closed, Threads
  <2> QED
    BY <2>5, <2>6, <2>7, <2>8 DEF IInv
<1>4. CASE Exit
  <2>1. /\ server = "closed" /\ server' = "exited" /\ thread[Main].answer.code = "204"
        /\ UNCHANGED <<forced, mu, children, kid, owner, term, thread>>
    BY <1>4 DEF Exit
  <2>2. TypeOK' /\ HandlersInv' /\ CloseInv'
    BY <1>1, <2>1 DEF TypeOK, HandlersInv, CloseInv, Closed
  <2>3. StartsInv' /\ MapInv' /\ TakenInv'
    BY <2>1 DEF IInv, StartsInv, Sender, MapInv, Alive, Taken, TakenInv, Waited
  <2> QED
    BY <2>2, <2>3 DEF IInv
<1> QED
  BY <1>2, <1>3, <1>4 DEF Running

-----------------------------------------------------------------------------
\* The invariant holds of the daemon that starts.
LEMMA Established == Init => IInv
<1> SUFFICES ASSUME Init PROVE IInv
  OBVIOUS
<1>1. Idler \in ThreadStates /\ Main \in Threads
  BY IdlerType DEF Threads
<1>2. HandlerOK(Idler) /\ Idler.pc = "idle" /\ Idler.op = "child" /\ Idler.answer.code = "none"
  BY DEF Idler, HandlerOK, Steps, NoAnswer, Answer
<1>3. \A n \in Names, d \in Defs :
        /\ NewKid(n, d) \in KidStates
        /\ NewKid(n, d).mgr = "unused" /\ NewKid(n, d).cmd = "none"
  BY DEF NewKid, KidStates, ChildStates, Idle
<1>4. /\ kid \in [Kids -> KidStates]
      /\ \A k \in Kids : kid[k].mgr = "unused" /\ kid[k].cmd = "none"
  BY <1>3 DEF Init
<1>5. TypeOK
  BY <1>1, <1>4 DEF Init, TypeOK
<1>6. HandlersInv
  BY <1>1, <1>2 DEF Init, HandlersInv
<1>7. StartsInv /\ MapInv
  BY <1>4 DEF Init, StartsInv, MapInv, Alive
<1>8. TakenInv /\ CloseInv
  BY <1>2 DEF Init, TakenInv, Taken, CloseInv, Closed
<1> QED
  BY <1>5, <1>6, <1>7, <1>8 DEF IInv

\* Every step keeps it.
LEMMA StepKeeps == IInv /\ [Step \/ Arrival]_vars => IInv'
<1> SUFFICES ASSUME IInv, [Step \/ Arrival]_vars PROVE IInv'
  OBVIOUS
<1>1. ASSUME NEW k \in Kids, Manager(k) PROVE IInv'
  BY <1>1, ManagerTends, TendsKeeps, ReapKeeps DEF Manager, IInv
<1>2. ASSUME NEW t \in Threads, Handler(t) PROVE IInv'
  <2>1. CASE Put(t) /\ children[thread[t].name] = NoKid
    BY <2>1, PutKeeps
  <2>2. CASE Cancel(t) \/ Snapshot(t) \/ Join(t)
    BY <2>2, CancelKeeps, SnapshotKeeps, JoinKeeps
  <2>3. CASE \/ Find(t) \/ Show(t) \/ Check(t) \/ Look(t) \/ Cancelled(t) \/ Deleted(t)
             \/ Send(t) \/ SyncStart(t) \/ PingStop(t) \/ PutPing(t)
             \/ Put(t) /\ children[thread[t].name] # NoKid
    <3>1. Serves(t)
      BY <2>3, HandlerServes DEF IInv
    <3> QED
      BY <3>1, ServesKeeps
  <2> QED
    BY <1>2, <2>1, <2>2, <2>3 DEF Handler, Blocking, Local, Waiting
<1>3. CASE UNCHANGED vars
  BY <1>3 DEF vars, IInv, TypeOK, HandlersInv, StartsInv, Sender, MapInv, Alive, Taken, TakenInv,
              Waited, CloseInv, Closed
<1> QED
  BY <1>1, <1>2, <1>3, EndingKeeps, RunningKeeps, ArrivalKeeps DEF Step

\* The requests of a configuration are among those considered.
LEMMA NextArrives == Next => Step \/ Arrival
BY OpsAssumption DEF Next, Arrival

\* At the exit a manager that is left is in the map, which is empty if the server closed with
\* no request in flight, or a Terminate's that has not ended, or its namesake was taken.
LEMMA ExitHolds == IInv => ExitLeavesNothing
<1> SUFFICES ASSUME IInv, server = "exited", NEW k \in Kids, kid[k].mgr = "running",
                    ~(/\ owner[k] = NoThread
                      /\ \E j \in Kids \ {k} : kid[j].name = kid[k].name /\ owner[j] # NoThread)
             PROVE  /\ forced
                    /\ IF owner[k] = NoThread
                       THEN children[kid[k].name] = k
                       ELSE owner[k] \in Requests /\ thread[owner[k]].pc = "wait"
  BY DEF ExitLeavesNothing
<1>1. /\ thread[Main].answer.code = "204" /\ thread[Main].pc = "idle"
      /\ kid[k].name \in Names /\ kid[k].mgr # "deleted" /\ Alive(k)
  BY DEF IInv, CloseInv, HandlersInv, HandlerOK, Threads, TypeOK, KidStates, Alive
<1>2. CASE owner[k] = NoThread
  <2>1. children[kid[k].name] = k
    BY <1>1, <1>2 DEF IInv, MapInv, Taken
  <2>2. children[kid[k].name] # NoKid
    BY <2>1, NilAssumption
  <2>3. forced
    BY <1>1, <2>2 DEF IInv, CloseInv, Closed
  <2> QED
    BY <1>2, <2>1, <2>3
<1>3. CASE owner[k] # NoThread
  <2>1. term[k] # "done"
    BY <1>1 DEF IInv, TakenInv, Waited
  <2>2. owner[k] \in Threads /\ thread[owner[k]].pc = "wait"
    BY <1>3, <2>1 DEF IInv, TakenInv, Taken, TypeOK
  <2>3. owner[k] \in Requests
    BY <1>1, <2>2 DEF Threads
  <2>4. forced
    BY <2>2, <2>3 DEF IInv, CloseInv, Closed
  <2> QED
    BY <1>3, <2>2, <2>3, <2>4
<1> QED
  BY <1>2, <1>3

-----------------------------------------------------------------------------
\* A manager goes on as it was, begins, or is done with.
SameManager(k) ==
  \/ kid'[k].mgr = kid[k].mgr
  \/ kid[k].mgr = "unused" /\ kid'[k].mgr = "running"
  \/ kid[k].mgr = "deleted" /\ kid'[k].mgr = "reaped"

\* A send changes no manager's life.
LEMMA OfferSameManager ==
  ASSUME TypeOK, NEW k \in Kids, NEW c \in {"ping", "start", "stop", "delete"}, Offer(k, c)
  PROVE  \A j \in Kids : SameManager(j)
<1>1. kid'[k] = [kid[k] EXCEPT !.cmd = c] /\ \A j \in Kids \ {k} : kid'[j] = kid[j]
  BY OfferType
<1>2. kid[k] \in KidStates
  BY DEF TypeOK
<1> QED
  BY <1>1, <1>2 DEF SameManager, KidStates

\* No step of a handler does.
LEMMA HandlerSameManager ==
  ASSUME TypeOK, HandlersInv, NEW t \in Threads, Handler(t)
  PROVE  \A k \in Kids : SameManager(k)
<1>1. CASE kid' = kid
  BY <1>1 DEF SameManager
<1>2. CASE \E c \in {"ping", "start", "stop", "delete"} :
             /\ Offer(thread[t].kid, c) /\ At(t, Plain, thread[t].pc)
             /\ thread[t].pc \notin {"idle", "lock"}
  <2>1. thread[t].kid \in Kids
    BY <1>2, SendServes DEF HandlersInv, At, Plain, AllOps
  <2> QED
    BY <1>2, <2>1, OfferSameManager
<1>3. CASE \E k \in Kids : kid[k].mgr = "unused" /\ kid' = [kid EXCEPT ![k].mgr = "running"]
  <2>1. kid \in [Kids -> KidStates]
    BY DEF TypeOK
  <2> QED
    BY <1>3, <2>1 DEF SameManager, KidStates
<1>4. kid' = kid \/ \E c \in {"ping", "start", "stop", "delete"} :
          /\ Offer(thread[t].kid, c) /\ At(t, Plain, thread[t].pc)
          /\ thread[t].pc \notin {"idle", "lock"}
        \/ \E k \in Kids : kid[k].mgr = "unused" /\ kid' = [kid EXCEPT ![k].mgr = "running"]
  <2>1. CASE Find(t) \/ Snapshot(t) \/ Local(t) \/ Waiting(t) \/ Cancelled(t)
    BY <2>1 DEF Find, Snapshot, Local, Show, Check, Look, Cancel, Waiting, Deleted, Join, Cancelled,
                OnlyThread
  <2>2. CASE Put(t)
    BY <2>2 DEF Put
  <2>3. CASE Send(t) \/ SyncStart(t) \/ PingStop(t) \/ PutPing(t)
    BY <2>3 DEF Send, SyncStart, PingStop, PutPing, At, Plain, AllOps
  <2> QED
    BY <2>1, <2>2, <2>3 DEF Handler, Blocking
<1> QED
  BY <1>1, <1>2, <1>3, <1>4

-----------------------------------------------------------------------------
\* A handler moves alone.
LEMMA HandlerAlone ==
  ASSUME TypeOK, NEW t \in Threads, Handler(t)
  PROVE  \A u \in Threads \ {t} : thread'[u] = thread[u]
<1>1. thread \in [Threads -> ThreadStates]
  BY DEF TypeOK
<1> QED
  BY <1>1
     DEF Handler, Blocking, Local, Waiting, Find, Put, Snapshot, Send, SyncStart, PingStop, PutPing,
         Show, Check, Look, Cancel, Deleted, Join, Cancelled, Goto, Reply, Refuse

\* A step of the daemon leaves a request alone, or is its handler's.
LEMMA StepAlone ==
  ASSUME IInv, Step, NEW t \in Requests
  PROVE  thread'[t] = thread[t] \/ Handler(t)
<1>1. t \in Threads /\ t # Main /\ thread \in [Threads -> ThreadStates] /\ TypeOK
  BY MainAssumption DEF IInv, TypeOK, Threads
<1>2. ASSUME NEW k \in Kids, Manager(k) \/ Ending(k) PROVE thread' = thread
  BY <1>2 DEF Manager, Handle, Exited, Kill, Restart, Panic, Reap, OnlyKid, Ending, TermStop,
              TermPoll, TermDelete, TermWait, TermGoto
<1>3. Running => thread'[t] = thread[t]
  BY <1>1 DEF Running, Signal, Drained, DrainTimeout, Exit
<1> QED
  BY <1>1, <1>2, <1>3, HandlerAlone DEF Step

\* A start that is over has seen its own command handled: another that is pending has
\* a sender that is before its ping.
LEMMA StartSynced ==
  ASSUME IInv, [Step \/ Arrival]_vars, NEW t \in Requests,
         At(t, {"start"}, thread[t].pc), thread[t].kid # NoKid,
         thread'[t].pc = "idle", kid[thread[t].kid].cmd = "start"
  PROVE  \E u \in Requests \ {t} :
           thread[u].op = "start" /\ thread[u].kid = thread[t].kid
<1>1. /\ thread[t].op = "start" /\ thread[t].pc # "idle" /\ t \in Threads /\ t # Main
      /\ thread[t].kid \in Kids /\ thread[t] \in ThreadStates
      /\ thread \in [Threads -> ThreadStates]
  BY MainAssumption DEF IInv, HandlersInv, HandlerOK, Steps, At, Threads, TypeOK, ThreadStates
<1>2. PICK u \in Requests : Sender(u, thread[t].kid)
  BY <1>1 DEF IInv, StartsInv
<1>3. u # t
  <2> SUFFICES ASSUME thread[t].pc = "ping" PROVE thread'[t].pc # "idle"
    BY <1>2 DEF Sender
  <2>1. CASE thread'[t] = thread[t]
    BY <1>1, <2>1
  <2>2. ASSUME NEW v \in Threads, Handler(v) PROVE thread'[t].pc # "idle"
    <3>1. CASE v = t
      <4>1. SyncStart(t)
        BY <1>1, <2>2, <3>1
           DEF Handler, Blocking, Local, Waiting, Find, Put, Snapshot, Send, PingStop, PutPing,
               Show, Check, Look, Cancel, Deleted, Join, Cancelled, At
      <4> QED
        BY <1>1, <4>1, GotoType DEF SyncStart, IInv, ThreadStates
    <3> QED
      BY <1>1, <2>1, <2>2, <3>1, HandlerAlone DEF IInv
  <2>3. ASSUME NEW k \in Kids, Manager(k) \/ Ending(k) PROVE thread'[t] = thread[t]
    BY <2>3 DEF Manager, Handle, Exited, Kill, Restart, Panic, Reap, OnlyKid, Ending, TermStop,
                TermPoll, TermDelete, TermWait, TermGoto
  <2>4. CASE Running
    BY <1>1, <2>1, <2>4 DEF Running, Signal, Drained, DrainTimeout, Exit
  <2>5. CASE Arrival
    BY <1>1, <2>1, <2>5 DEF Arrival, Call
  <2> QED
    BY <2>1, <2>2, <2>3, <2>4, <2>5 DEF Step, vars
<1> QED
  BY <1>2, <1>3 DEF Sender

-----------------------------------------------------------------------------
\* A child object no command, timer or Terminate has got to.
Fresh(k) ==
  /\ kid[k].cmd = "none" /\ kid[k].state = "stopped"
  /\ ~kid[k].armed /\ ~kid[k].killing /\ ~kid[k].doubled
  /\ owner[k] = NoThread /\ term[k] = "none"

\* A put that has made its child and is about to ping its manager.
Holder(t) == thread[t].op = "put" /\ thread[t].pc = "send"

\* It holds the mutex, and its child is in the map and fresh, and no other handler's; and so
\* are the objects no put has made a child of yet, which are no handler's at all.
FreshInv ==
  /\ \A k \in Kids : kid[k].mgr = "unused" =>
       Fresh(k) /\ \A u \in Threads : thread[u].kid # k
  /\ \A t \in Threads : Holder(t) =>
       /\ mu = t /\ children[thread[t].name] = thread[t].kid
       /\ kid[thread[t].kid].mgr = "running" /\ Fresh(thread[t].kid)
       /\ \A u \in Threads \ {t} : thread[u].kid # thread[t].kid

Untouched(k) == kid'[k] = kid[k] /\ owner'[k] = owner[k] /\ term'[k] = term[k]

\* The child of a put is a child.
LEMMA HolderHas ==
  ASSUME TypeOK, HandlersInv, NEW t \in Threads, Holder(t)
  PROVE  thread[t].kid \in Kids
BY DEF TypeOK, HandlersInv, HandlerOK, Holder, ThreadStates

\* While no put holds the mutex there is none that has a child.
LEMMA NoHolder ==
  ASSUME FreshInv, mu = NoThread
  PROVE  \A t \in Threads : ~Holder(t)
BY NilAssumption DEF FreshInv

\* What a step touches is neither unused nor a put's, and it gives no handler such a child.
Apart ==
  /\ \A u \in Threads : Holder(u)' =>
       /\ Holder(u) /\ thread'[u] = thread[u] /\ mu' = mu
       /\ children'[thread[u].name] = children[thread[u].name]
  /\ \A k \in Kids, u \in Threads :
       thread'[u].kid = k => thread[u].kid = k \/ (kid[k].mgr # "unused" /\ mu = NoThread)
  /\ \A k \in Kids :
       \/ Untouched(k)
       \/ /\ kid[k].mgr # "unused" /\ kid'[k].mgr # "unused"
          /\ \A u \in Threads : Holder(u)' => thread[u].kid # k

\* Such a step keeps it.
LEMMA FreshFrame ==
  ASSUME TypeOK, HandlersInv, FreshInv, Apart
  PROVE  FreshInv'
<1> USE DEF Apart
<1>1. ASSUME NEW k \in Kids, kid'[k].mgr = "unused"
      PROVE  Fresh(k)' /\ \A u \in Threads : thread'[u].kid # k
  BY <1>1 DEF FreshInv, Fresh, Untouched
<1>2. ASSUME NEW t \in Threads, Holder(t)'
      PROVE  /\ mu' = t /\ children'[thread'[t].name] = thread'[t].kid
             /\ kid'[thread'[t].kid].mgr = "running" /\ Fresh(thread[t].kid)'
             /\ thread'[t].kid = thread[t].kid
             /\ \A u \in Threads \ {t} : thread'[u].kid # thread'[t].kid
  <2> DEFINE k == thread[t].kid
  <2>1. /\ Holder(t) /\ thread'[t] = thread[t] /\ mu' = mu /\ k \in Kids
        /\ children'[thread[t].name] = children[thread[t].name]
    BY <1>2, HolderHas
  <2>2. /\ mu = t /\ children[thread[t].name] = k /\ kid[k].mgr = "running" /\ Fresh(k)
        /\ \A u \in Threads \ {t} : thread[u].kid # k
    BY <2>1 DEF FreshInv
  <2>3. Untouched(k)
    BY <1>2, <2>1
  <2>4. Fresh(k)' /\ kid'[k].mgr = "running"
    BY <2>1, <2>2, <2>3 DEF Fresh, Untouched
  <2>5. mu # NoThread
    BY <2>2, NilAssumption
  <2>6. \A u \in Threads \ {t} : thread'[u].kid # k
    BY <2>1, <2>2, <2>5
  <2> QED
    BY <2>1, <2>2, <2>4, <2>6
<1>3. \A t \in Threads : Holder(t)' => Fresh(thread[t].kid)' /\ thread'[t].kid = thread[t].kid
  BY <1>2
<1> QED
  BY <1>1, <1>2, <1>3 DEF FreshInv, Fresh

\* A manager does nothing to a child that is fresh but end it, which it has then been told to.
LEMMA ManagerTouches ==
  ASSUME TypeOK, NEW k \in Kids, Manager(k)
  PROVE  /\ ~(Fresh(k) /\ kid[k].mgr = "running") /\ kid[k].mgr \in {"running", "deleted"}
         /\ \A j \in Kids \ {k} : Untouched(j)
         /\ kid'[k].mgr # "unused" /\ thread' = thread /\ mu' = mu
         /\ children' = children \/ mu = NoThread
<1>1. /\ \A j \in Kids \ {k} : kid'[j] = kid[j]
      /\ thread' = thread /\ mu' = mu /\ owner' = owner /\ term' = term
      /\ children' = children \/ mu = NoThread
      /\ kid'[k].mgr # "unused"
  <2>1. CASE Reap(k)
    BY <2>1 DEF Reap, TypeOK, KidStates
  <2>2. CASE Tends(k)
    BY <2>2 DEF Tends
  <2> QED
    BY <2>1, <2>2, ManagerTends DEF Manager
<1>2. kid[k].mgr = "running" => ~Fresh(k)
  BY DEF Manager, Handle, Exited, Kill, Restart, Panic, Reap, Fresh, Active
<1>3. kid[k].mgr \in {"running", "deleted"}
  BY DEF Manager, Handle, Exited, Kill, Restart, Panic, Reap, Selecting
<1> QED
  BY <1>1, <1>2, <1>3 DEF Untouched

\* What each step of a handler does to what a put and the unused objects rest on.
LEMMA HandlerTouches ==
  ASSUME IInv, FreshInv, NEW t \in Threads, Handler(t),
         ~(Put(t) /\ children[thread[t].name] = NoKid)
  PROVE  FreshInv'
<1>1. /\ TypeOK /\ HandlersInv /\ thread \in [Threads -> ThreadStates] /\ MapInv
      /\ thread[t] \in ThreadStates /\ HandlerOK(thread[t])
      /\ \A u \in Threads \ {t} : thread'[u] = thread[u]
  BY HandlerAlone DEF IInv, TypeOK, HandlersInv
<1>2. ASSUME NEW c, NEW s, Reply(t, Answer(c, s))
      PROVE  thread'[t].kid = NoKid /\ thread'[t].op = "child"
  <2>1. thread'[t] = [Idler EXCEPT !.answer = Answer(c, s)]
    BY <1>1, <1>2 DEF Reply
  <2> QED
    BY <2>1 DEF Idler
<1>3. ASSUME NEW pc, Goto(t, pc)
      PROVE  thread'[t].kid = thread[t].kid /\ thread'[t].op = thread[t].op
  <2>1. thread'[t] = [thread[t] EXCEPT !.pc = pc]
    BY <1>1, <1>3 DEF Goto
  <2> QED
    BY <1>1, <2>1 DEF ThreadStates
\* the steps that answer or go on
<1>4. ASSUME thread'[t].kid \in {thread[t].kid, NoKid}, thread'[t].op # "put",
             UNCHANGED <<mu, children, kid, owner, term>>
      PROVE  FreshInv'
  <2>1. \A u \in Threads : Holder(u)' => u # t
    BY <1>4 DEF Holder
  <2>2. \A u \in Threads : Holder(u)' => Holder(u) /\ thread'[u] = thread[u]
    BY <1>1, <2>1 DEF Holder
  <2>3. \A k \in Kids, u \in Threads : thread'[u].kid = k => thread[u].kid = k
    BY <1>1, <1>4, NilAssumption
  <2>9. Apart
    BY <1>4, <2>2, <2>3 DEF Apart, Untouched
  <2> QED
    BY <1>1, <2>9, FreshFrame
\* the sends
<1>5. ASSUME NEW c \in {"ping", "start", "stop", "delete"}, NEW pc,
             Offer(thread[t].kid, c), Goto(t, pc), thread[t].op \notin {"put", "terminate"},
             thread[t].pc \notin {"idle", "lock"}, UNCHANGED <<mu, children, owner, term>>
      PROVE  FreshInv'
  <2> DEFINE k == thread[t].kid
  <2>1. k \in Kids /\ thread'[t].kid = k /\ thread'[t].op # "put"
    BY <1>1, <1>3, <1>5, SendServes
  <2>2. /\ kid[k].mgr = "running" /\ kid' = [kid EXCEPT ![k].cmd = c]
        /\ kid'[k].mgr = "running" /\ \A j \in Kids \ {k} : kid'[j] = kid[j]
    BY <1>1, <1>5, <2>1 DEF Offer, Selecting, TypeOK, KidStates
  <2>3. \A u \in Threads : Holder(u)' => u # t /\ Holder(u) /\ thread'[u] = thread[u]
    BY <1>1, <2>1 DEF Holder
  <2>4. \A u \in Threads : Holder(u)' => thread[u].kid # k
    BY <1>1, <2>3 DEF FreshInv
  <2>5. \A j \in Kids, u \in Threads : thread'[u].kid = j => thread[u].kid = j
    BY <1>1, <2>1
  <2>6. \A j \in Kids : Untouched(j) \/ j = k
    BY <1>5, <2>2 DEF Untouched
  <2> HIDE DEF k
  <2>9. Apart
    BY <1>5, <2>2, <2>3, <2>4, <2>5, <2>6 DEF Apart, Untouched
  <2> QED
    BY <1>1, <2>9, FreshFrame
<1>6. CASE Find(t)
  <2> DEFINE k == children[thread[t].name]
  <2>1. mu = NoThread /\ thread[t].op # "put" /\ UNCHANGED <<mu, children, kid, owner, term>>
    BY <1>6 DEF Find, At, OnlyThread
  <2>2. CASE k = NoKid
    BY <1>2, <1>4, <1>6, <2>1, <2>2 DEF Find, Refuse
  <2>3. CASE k # NoKid
    <3>1. thread'[t].kid = k /\ thread'[t].op = thread[t].op
      BY <1>1, <1>6, <2>3 DEF Find, ThreadStates
    <3>2. kid[k].mgr # "unused"
      BY <1>1, <2>3 DEF MapInv, ThreadStates
    <3>3. \A u \in Threads : ~Holder(u)'
      BY <1>1, <2>1, <3>1, NoHolder DEF Holder
    <3>4. \A j \in Kids, u \in Threads :
            thread'[u].kid = j => thread[u].kid = j \/ (kid[j].mgr # "unused" /\ mu = NoThread)
      BY <1>1, <2>1, <3>1, <3>2
    <3> QED
      BY <1>1, <2>1, <3>3, <3>4, FreshFrame DEF Untouched, Apart
  <2> QED
    BY <2>2, <2>3
<1>7. CASE Show(t) \/ Cancelled(t) \/ Deleted(t) \/ Join(t)
  BY <1>2, <1>4, <1>7 DEF Show, Cancelled, Deleted, Join, Refuse, OnlyThread
<1>8. CASE Check(t)
  BY <1>2, <1>3, <1>4, <1>8 DEF Check, Refuse, OnlyThread, At
<1>9. CASE Look(t)
  BY <1>2, <1>3, <1>4, <1>9 DEF Look, OnlyThread, At
<1>10. CASE Cancel(t)
  BY <1>3, <1>4, <1>10 DEF Cancel, At
<1>11. CASE Send(t) \/ SyncStart(t) \/ PingStop(t)
  BY <1>5, <1>11 DEF Send, SyncStart, PingStop, OnlySend, At
<1>12. CASE Put(t)
  <2>1. Refuse(t, "409") /\ UNCHANGED <<mu, children, kid, owner, term>>
    BY <1>12 DEF Put
  <2> QED
    BY <1>2, <1>4, <2>1 DEF Refuse
\* the child of a put is let go of with the mutex
<1>13. CASE PutPing(t)
  <2>1. /\ Holder(t) /\ Offer(thread[t].kid, "ping") /\ mu' = NoThread
        /\ UNCHANGED <<children, owner, term>>
        /\ thread'[t].kid = NoKid /\ thread'[t].op = "child"
    BY <1>2, <1>13 DEF PutPing, At, Holder
  <2>2. thread[t].kid \in Kids /\ mu = t
    BY <1>1, <2>1, HolderHas DEF FreshInv
  <2>3. \A u \in Threads : ~Holder(u)'
    BY <1>1, <2>1, <2>2 DEF Holder, FreshInv
  <2>4. /\ kid[thread[t].kid].mgr = "running" /\ kid'[thread[t].kid].mgr = "running"
        /\ \A j \in Kids \ {thread[t].kid} : kid'[j] = kid[j]
    BY <1>1, <2>1, <2>2 DEF Offer, Selecting, TypeOK, KidStates
  <2>5. \A j \in Kids, u \in Threads : thread'[u].kid = j => thread[u].kid = j
    BY <1>1, <2>1, NilAssumption
  <2>6. \A j \in Kids : Untouched(j) \/ j = thread[t].kid
    BY <2>1, <2>4 DEF Untouched
  <2>9. Apart
    BY <2>2, <2>3, <2>4, <2>5, <2>6 DEF Apart, Untouched
  <2> QED
    BY <1>1, <2>9, FreshFrame
\* what a Terminate takes is in the map, and no put's while the mutex is free
<1>14. CASE Snapshot(t)
  <2> DEFINE mine == {children[n] : n \in Names} \ {NoKid}
  <2>1. /\ mu = NoThread /\ UNCHANGED <<mu, kid>> /\ thread[t].op = "terminate" /\ Goto(t, "wait")
        /\ owner' = [k \in Kids |-> IF k \in mine THEN t ELSE owner[k]]
        /\ term' = [k \in Kids |-> IF k \in mine THEN "stop" ELSE term[k]]
    BY <1>14 DEF Snapshot, At
  <2>2. \A k \in Kids : k \in mine => kid[k].mgr # "unused"
    BY <1>1 DEF MapInv
  <2>3. thread'[t].kid = thread[t].kid /\ thread'[t].op = "terminate"
    BY <1>3, <2>1
  <2>4. \A u \in Threads : ~Holder(u)'
    BY <1>1, <2>1, <2>3, NoHolder DEF Holder
  <2>5. \A k \in Kids : Untouched(k) \/ k \in mine
    BY <2>1 DEF Untouched
  <2>6. \A k \in Kids, u \in Threads : thread'[u].kid = k => thread[u].kid = k
    BY <1>1, <2>3
  <2> HIDE DEF mine
  <2>9. Apart
    BY <2>1, <2>2, <2>4, <2>5, <2>6 DEF Apart, Untouched
  <2> QED
    BY <1>1, <2>9, FreshFrame
<1> QED
  BY <1>6, <1>7, <1>8, <1>9, <1>10, <1>11, <1>12, <1>13, <1>14 DEF Handler, Blocking, Local, Waiting

\* A put takes an unused object under the mutex, and so has it to itself.
LEMMA PutFresh ==
  ASSUME IInv, FreshInv, NEW t \in Threads, Put(t), children[thread[t].name] = NoKid
  PROVE  FreshInv'
<1>1. TypeOK /\ thread \in [Threads -> ThreadStates] /\ kid \in [Kids -> KidStates]
      /\ thread[t] \in ThreadStates /\ thread[t].name \in Names
      /\ children \in [Names -> Kids \cup {NoKid}]
  BY DEF IInv, TypeOK, ThreadStates
<1>2. PICK k \in Kids :
        /\ kid[k].mgr = "unused" /\ kid' = [kid EXCEPT ![k].mgr = "running"]
        /\ children' = [children EXCEPT ![thread[t].name] = k]
        /\ mu' = t /\ UNCHANGED <<owner, term>>
        /\ thread' = [thread EXCEPT ![t].kid = k, ![t].pc = "send"]
  BY DEF Put
<1>3. /\ thread'[t].kid = k /\ thread'[t].name = thread[t].name
      /\ \A u \in Threads \ {t} : thread'[u] = thread[u]
  BY <1>1, <1>2 DEF ThreadStates
<1>4. kid'[k] = [kid[k] EXCEPT !.mgr = "running"] /\ \A j \in Kids \ {k} : kid'[j] = kid[j]
  BY <1>1, <1>2
<1>5. \A u \in Threads : ~Holder(u)
  BY NoHolder DEF Put
<1>6. Fresh(k) /\ \A u \in Threads : thread[u].kid # k
  BY <1>2 DEF FreshInv
<1>7. Fresh(k)' /\ kid'[k].mgr = "running"
  BY <1>1, <1>2, <1>4, <1>6 DEF Fresh, KidStates
<1>8. \A u \in Threads : Holder(u)' => u = t
  BY <1>3, <1>5 DEF Holder
<1>9. ASSUME NEW j \in Kids, kid'[j].mgr = "unused"
      PROVE  Fresh(j)' /\ \A u \in Threads : thread'[u].kid # j
  <2>1. j # k /\ kid'[j] = kid[j]
    BY <1>4, <1>7, <1>9
  <2>2. Fresh(j) /\ \A u \in Threads : thread[u].kid # j
    BY <1>9, <2>1 DEF FreshInv
  <2>3. Fresh(j)'
    BY <1>2, <2>1, <2>2 DEF Fresh
  <2> QED
    BY <1>3, <2>1, <2>2, <2>3
<1>10. children'[thread'[t].name] = k
  BY <1>1, <1>2, <1>3
<1>11. \A u \in Threads \ {t} : thread'[u].kid # k
  BY <1>3, <1>6
<1>12. ASSUME NEW u \in Threads, Holder(u)'
       PROVE  /\ mu' = u /\ children'[thread'[u].name] = thread'[u].kid
              /\ kid'[thread'[u].kid].mgr = "running" /\ Fresh(thread[u].kid)'
              /\ \A v \in Threads \ {u} : thread'[v].kid # thread'[u].kid
  <2>1. u = t /\ thread'[u].kid = k
    BY <1>3, <1>8, <1>12
  <2>2. Fresh(thread[u].kid)'
    BY <1>7, <2>1 DEF Fresh
  <2> QED
    BY <1>2, <1>7, <1>10, <1>11, <2>1, <2>2
<1> QED
  BY <1>9, <1>12 DEF FreshInv

\* Every step keeps it.
LEMMA FreshKeeps == IInv /\ FreshInv /\ [Step \/ Arrival]_vars => FreshInv'
<1> SUFFICES ASSUME IInv, FreshInv, [Step \/ Arrival]_vars PROVE FreshInv'
  OBVIOUS
<1>1. TypeOK /\ HandlersInv
  BY DEF IInv
<1>2. ASSUME NEW k \in Kids, Manager(k) PROVE FreshInv'
  <2>1. /\ ~(Fresh(k) /\ kid[k].mgr = "running") /\ kid[k].mgr \in {"running", "deleted"}
        /\ \A j \in Kids \ {k} : Untouched(j)
        /\ kid'[k].mgr # "unused" /\ thread' = thread /\ mu' = mu
        /\ children' = children \/ mu = NoThread
    BY <1>1, <1>2, ManagerTouches
  <2>2. \A u \in Threads : Holder(u)' => Holder(u) /\ thread[u].kid # k /\ mu # NoThread
    BY <2>1, NilAssumption DEF Holder, FreshInv
  <2>3. \A j \in Kids \ {k} : kid'[j] = kid[j]
    BY <2>1 DEF Untouched
  <2>9. Apart
    BY <2>1, <2>2, <2>3 DEF Apart, Untouched
  <2> QED
    BY <1>1, <2>9, FreshFrame
<1>3. ASSUME NEW k \in Kids, Ending(k) PROVE FreshInv'
  <2>1. term[k] # "none" /\ UNCHANGED <<mu, children, owner, thread>>
    BY <1>3 DEF Ending, TermStop, TermPoll, TermDelete, TermWait, TermAt, TermGoto
  <2>2. \A j \in Kids \ {k} : term'[j] = term[j] /\ kid'[j] = kid[j]
    BY <1>1, <1>3
       DEF Ending, TermStop, TermPoll, TermDelete, TermWait, TermAt, TermGoto, Offer, TypeOK
  <2>3. kid'[k].mgr = kid[k].mgr
    BY <1>1, <1>3 DEF Ending, TermStop, TermPoll, TermDelete, TermWait, Offer, TypeOK, KidStates
  <2>4. kid[k].mgr # "unused" /\ \A u \in Threads : Holder(u) => thread[u].kid # k
    BY <2>1 DEF FreshInv, Fresh
  <2>9. Apart
    BY <2>1, <2>2, <2>3, <2>4 DEF Apart, Untouched, Holder
  <2> QED
    BY <1>1, <2>9, FreshFrame
<1>4. ASSUME NEW t \in Threads, Handler(t) PROVE FreshInv'
  BY <1>4, HandlerTouches, PutFresh
<1>5. ASSUME NEW t \in Threads, \A u \in Threads \ {t} : thread'[u] = thread[u],
             thread'[t].kid \in {thread[t].kid, NoKid}, ~Holder(t)',
             UNCHANGED <<mu, children, kid, owner, term>>
      PROVE  FreshInv'
  <2>1. \A u \in Threads : Holder(u)' => u # t /\ Holder(u) /\ thread'[u] = thread[u]
    BY <1>5 DEF Holder
  <2>2. \A k \in Kids, u \in Threads : thread'[u].kid = k => thread[u].kid = k
    BY <1>5, NilAssumption
  <2>9. Apart
    BY <1>5, <2>1, <2>2 DEF Apart, Untouched
  <2> QED
    BY <1>1, <2>9, FreshFrame
<1>6. CASE Running
  <2>1. CASE Signal \/ Exit
    <3>1. Apart
      BY <2>1 DEF Signal, Exit, Untouched, Holder, Apart
    <3> QED
      BY <1>1, <3>1, FreshFrame
  <2>2. CASE Drained \/ DrainTimeout
    <3>1. /\ thread' = [thread EXCEPT ![Main].op = "terminate", ![Main].pc = "cancel"]
          /\ UNCHANGED <<mu, children, kid, owner, term>>
      BY <2>2 DEF Drained, DrainTimeout
    <3>2. Main \in Threads /\ thread \in [Threads -> ThreadStates]
      BY <1>1 DEF TypeOK, Threads
    <3>3. thread'[Main].op = "terminate" /\ thread'[Main].kid = thread[Main].kid
      BY <3>1, <3>2 DEF ThreadStates
    <3> QED
      BY <1>5, <3>1, <3>2, <3>3 DEF Holder
  <2> QED
    BY <1>6, <2>1, <2>2 DEF Running
<1>7. CASE Arrival
  <2>1. PICK t \in Requests, n \in Names, op \in AllOps : Call(t, op, n)
    BY <1>7 DEF Arrival
  <2>2. /\ t \in Threads /\ thread'[t].kid = NoKid /\ thread'[t].pc \in {"cancel", "lock"}
        /\ \A u \in Threads \ {t} : thread'[u] = thread[u]
        /\ UNCHANGED <<mu, children, kid, owner, term>>
    BY <1>1, <2>1 DEF Call, OnlyThread, TypeOK, Threads
  <2> QED
    BY <1>5, <2>2 DEF Holder
<1>8. CASE UNCHANGED vars
  <2>1. Apart
    BY <1>8 DEF vars, Untouched, Holder, Apart
  <2> QED
    BY <1>1, <2>1, FreshFrame
<1> QED
  BY <1>2, <1>3, <1>4, <1>6, <1>7, <1>8 DEF Step

\* It holds of the daemon that starts.
LEMMA FreshAtFirst == Init => FreshInv
<1> SUFFICES ASSUME Init PROVE FreshInv
  OBVIOUS
<1>1. Idler.op = "child" /\ Idler.kid = NoKid
  BY DEF Idler
<1>2. \A k \in Kids : /\ kid[k].mgr = "unused" /\ kid[k].cmd = "none" /\ kid[k].state = "stopped"
                      /\ ~kid[k].armed /\ ~kid[k].killing /\ ~kid[k].doubled
  BY DEF Init, NewKid
<1> QED
  BY <1>1, <1>2, NilAssumption DEF Init, FreshInv, Fresh, Holder

\* A put that answers 200 is the end of PutPing.
LEMMA PutAnswered ==
  ASSUME IInv, FreshInv, [Step \/ Arrival]_vars, NEW t \in Requests,
         thread[t].op = "put", thread'[t].pc = "idle", thread'[t].answer.code = "200"
  PROVE  LET k == thread[t].kid IN
           /\ children'[thread[t].name] = k /\ owner'[k] = NoThread
           /\ kid'[k].mgr = "running" /\ kid'[k].state = "stopped"
           /\ thread'[t].answer.state = "stopped"
           /\ \A u \in Threads \ {t} : thread'[u].kid # k
<1>1. /\ TypeOK /\ HandlersInv /\ t \in Threads /\ t # Main
      /\ thread \in [Threads -> ThreadStates] /\ thread[t].pc # "idle"
  BY MainAssumption DEF IInv, TypeOK, HandlersInv, HandlerOK, Steps, Threads
<1>2. thread'[t] # thread[t]
  BY <1>1
<1>3. Handler(t)
  <2>1. CASE Step
    BY <1>2, <2>1, StepAlone
  <2>2. CASE Arrival
    BY <1>1, <1>2, <2>2 DEF Arrival, Call
  <2>3. CASE UNCHANGED vars
    BY <1>2, <2>3 DEF vars
  <2> QED
    BY <2>1, <2>2, <2>3
<1>4. PutPing(t)
  <2>1. PutPing(t) \/ Put(t)
    BY <1>3 DEF Handler, Blocking, Local, Waiting, Find, Snapshot, Send, SyncStart, PingStop,
                Show, Check, Look, Cancel, Deleted, Join, Cancelled, At
  <2>2. ASSUME Put(t) PROVE FALSE
    <3>1. CASE children[thread[t].name] # NoKid
      <4>1. thread'[t] = [Idler EXCEPT !.answer = Answer("409", "stopped")]
        BY <1>1, <2>2, <3>1 DEF Put, Refuse, Reply
      <4> QED
        BY <4>1 DEF Idler, Answer
    <3>2. CASE children[thread[t].name] = NoKid
      BY <1>1, <2>2, <3>2 DEF Put, ThreadStates
    <3> QED
      BY <3>1, <3>2
  <2> QED
    BY <2>1, <2>2
<1> DEFINE k == thread[t].kid
<1>5. /\ Holder(t) /\ k \in Kids
      /\ Offer(k, "ping") /\ Reply(t, Answer("200", StateOf(t))) /\ UNCHANGED <<children, owner>>
  BY <1>1, <1>4, HolderHas DEF PutPing, At, Holder
<1>6. /\ children[thread[t].name] = k /\ kid[k].mgr = "running" /\ Fresh(k)
      /\ \A u \in Threads \ {t} : thread[u].kid # k
  BY <1>1, <1>5 DEF FreshInv
<1>7. kid'[k].mgr = "running" /\ kid'[k].state = "stopped"
  BY <1>1, <1>5, <1>6 DEF Offer, TypeOK, KidStates, Fresh
<1>8. thread'[t].answer.state = kid[k].state /\ \A u \in Threads \ {t} : thread'[u] = thread[u]
  <2>1. thread'[t] = [Idler EXCEPT !.answer = Answer("200", kid[k].state)]
    BY <1>1, <1>5 DEF Reply, StateOf
  <2> QED
    BY <1>1, <1>5, <2>1 DEF Reply, Answer, Idler
<1> QED
  BY <1>5, <1>6, <1>7, <1>8 DEF Fresh

-----------------------------------------------------------------------------
Gone(k) == Waited(k) \/ Taken(k)
CallOf(t) == IF script[t].step = "await" THEN "child" ELSE script[t].step

\* A client that met a child which is still there.
StillMet(t) ==
  LET m == script[t].met IN
  /\ children[Child] = m
  /\ \A j \in Kids \ {m} : kid[j].name = Child => ~Alive(j)
  /\ script[t].step \in {"child", "stop", "delete"} \/ script[t].kept
  /\ thread[t].pc = "idle" => Code(t) # "404" /\ ~(script[t].step = "delete" /\ Code(t) = "200")
  /\ thread[t].op = "delete" /\ thread[t].pc # "lock" => thread[t].kid = m

ClientsInv ==
  /\ CTypeOK
  /\ \A t \in Requests : Calling(t) =>
       /\ script[t].goal # "raw"
       /\ thread[t].pc # "idle" => thread[t].op = CallOf(t) /\ thread[t].name = Child
  /\ \A t \in Requests :
       Calling(t) /\ script[t].met # NoKid /\ ~Gone(script[t].met) => StillMet(t)

CInv == IInv /\ ClientsInv

\* A child whose manager has returned, or that a Terminate took, stays so.
LEMMA GoneStays ==
  ASSUME IInv, Step, NEW m \in Kids, Gone(m)
  PROVE  Gone(m)'
<1> USE DEF IInv
<1>1. ASSUME NEW k \in Kids, Manager(k) PROVE Gone(m)'
  <2>1. CASE Tends(k)
    BY <2>1 DEF Tends, Gone, Waited, Taken
  <2>2. CASE Reap(k)
    BY <2>2 DEF Reap, Gone, Waited, Taken, TypeOK, KidStates
  <2> QED
    BY <1>1, <2>1, <2>2, ManagerTends DEF Manager
<1>2. ASSUME NEW k \in Kids, Ending(k) PROVE Gone(m)'
  <2>1. SameManager(m) /\ owner' = owner
    BY <1>2, OfferSameManager DEF Ending, TermStop, TermPoll, TermDelete, TermWait, TermGoto, SameManager
  <2> QED
    BY <2>1 DEF SameManager, Gone, Waited, Taken
<1>3. ASSUME NEW t \in Threads, Handler(t) PROVE Gone(m)'
  <2>1. SameManager(m)
    BY <1>3, HandlerSameManager
  <2>2. owner'[m] \in {owner[m], t}
    BY <1>3
       DEF Handler, Blocking, Local, Waiting, Find, Put, Snapshot, Send, SyncStart, PingStop, PutPing,
           Show, Check, Look, Cancel, Deleted, Join, Cancelled, OnlyThread, OnlySend
  <2> QED
    BY <2>1, <2>2, NilAssumption DEF SameManager, Gone, Waited, Taken
<1>4. CASE Running
  BY <1>4 DEF Running, Signal, Drained, DrainTimeout, Exit, Gone, Waited, Taken
<1> QED
  BY <1>1, <1>2, <1>3, <1>4 DEF Step

\* What the daemon's steps do to the map, seen from one name.
LEMMA MapMoves ==
  ASSUME IInv, Step, NEW m \in Kids, ~Gone(m)', children[Child] = m,
         \A j \in Kids \ {m} : kid[j].name = Child => ~Alive(j)
  PROVE  /\ ~Gone(m) /\ children'[Child] = m
         /\ \A j \in Kids \ {m} : kid'[j].name = Child => ~Alive(j)'
<1> USE DEF IInv
<1>1. /\ kid \in [Kids -> KidStates] /\ children \in [Names -> Kids \cup {NoKid}]
      /\ Child \in Names /\ kid[m].name = Child /\ m # NoKid
  BY ErrandsAssumption, NilAssumption DEF TypeOK, MapInv
<1>2. ASSUME UNCHANGED <<children, owner>>,
             \A j \in Kids : kid'[j].name = kid[j].name,
             \A j \in Kids : Alive(j)' => Alive(j), Waited(m) => Waited(m)'
      PROVE  /\ ~Gone(m) /\ children'[Child] = m
             /\ \A j \in Kids \ {m} : kid'[j].name = Child => ~Alive(j)'
  BY <1>2 DEF Gone, Taken
<1>3. ASSUME NEW k \in Kids, Tends(k)
      PROVE  /\ ~Gone(m) /\ children'[Child] = m
             /\ \A j \in Kids \ {m} : kid'[j].name = Child => ~Alive(j)'
  <2>1. \A j \in Kids : /\ kid'[j].name = kid[j].name
                        /\ Alive(j)' => Alive(j)
                        /\ Waited(j) => Waited(j)'
    BY <1>3 DEF Tends, Alive, Waited
  <2> QED
    BY <1>2, <1>3, <2>1 DEF Tends
<1>4. ASSUME NEW k \in Kids, Reap(k)
      PROVE  /\ ~Gone(m) /\ children'[Child] = m
             /\ \A j \in Kids \ {m} : kid'[j].name = Child => ~Alive(j)'
  <2>1. /\ kid[k].mgr = "deleted" /\ kid' = [kid EXCEPT ![k].mgr = "reaped"]
        /\ children' = [children EXCEPT ![kid[k].name] = NoKid]
        /\ UNCHANGED owner
    BY <1>4 DEF Reap
  <2>2. k # m
    BY <1>1, <2>1 DEF Gone, Waited, KidStates
  <2>3. kid[k].name # Child
    BY <2>1, <2>2 DEF Alive
  <2>4. /\ \A j \in Kids : kid'[j].name = kid[j].name
        /\ \A j \in Kids : Alive(j)' => Alive(j)
        /\ kid'[m] = kid[m]
    BY <1>1, <2>1, <2>2 DEF KidStates, Alive
  <2>5. children'[Child] = m
    BY <1>1, <2>1, <2>3
  <2> QED
    BY <2>1, <2>4, <2>5 DEF Gone, Taken, Waited
<1>5. ASSUME NEW k \in Kids, Ending(k)
      PROVE  /\ ~Gone(m) /\ children'[Child] = m
             /\ \A j \in Kids \ {m} : kid'[j].name = Child => ~Alive(j)'
  <2>1. UNCHANGED <<children, owner>>
    BY <1>5 DEF Ending, TermStop, TermPoll, TermDelete, TermWait, TermGoto
  <2>2. kid' = kid \/ Offer(k, "stop") \/ Offer(k, "delete")
    BY <1>5 DEF Ending, TermStop, TermPoll, TermDelete, TermWait
  <2>3. \A j \in Kids : kid'[j].name = kid[j].name /\ kid'[j].mgr = kid[j].mgr
    <3>1. ASSUME NEW c \in {"stop", "delete"}, Offer(k, c)
          PROVE  \A j \in Kids : kid'[j].name = kid[j].name /\ kid'[j].mgr = kid[j].mgr
      <4>1. kid'[k] = [kid[k] EXCEPT !.cmd = c] /\ \A j \in Kids \ {k} : kid'[j] = kid[j]
        BY <3>1, OfferType
      <4> QED
        BY <1>1, <4>1 DEF KidStates
    <3> QED
      BY <2>2, <3>1
  <2> QED
    BY <1>2, <2>1, <2>3 DEF Alive, Waited
<1>6. ASSUME NEW t \in Threads, Serves(t)
      PROVE  /\ ~Gone(m) /\ children'[Child] = m
             /\ \A j \in Kids \ {m} : kid'[j].name = Child => ~Alive(j)'
  BY <1>2, <1>6 DEF Serves, Alive, Waited
<1>7. ASSUME NEW t \in Threads, Put(t), children[thread[t].name] = NoKid
      PROVE  /\ ~Gone(m) /\ children'[Child] = m
             /\ \A j \in Kids \ {m} : kid'[j].name = Child => ~Alive(j)'
  <2>1. PICK k \in Kids :
          /\ kid[k].mgr = "unused" /\ kid[k].name = thread[t].name
          /\ children' = [children EXCEPT ![thread[t].name] = k]
          /\ kid' = [kid EXCEPT ![k].mgr = "running"]
          /\ UNCHANGED owner
    BY <1>7 DEF Put
  <2>2. kid[k].name # Child /\ k # m
    BY <1>1, <1>7, <2>1
  <2>3. /\ \A j \in Kids : kid'[j].name = kid[j].name
        /\ \A j \in Kids \ {k} : kid'[j] = kid[j]
    BY <1>1, <2>1 DEF KidStates
  <2>4. children'[Child] = m
    BY <1>1, <2>1, <2>2
  <2> QED
    BY <2>1, <2>2, <2>3, <2>4 DEF Gone, Taken, Waited, Alive
<1>8. ASSUME NEW t \in Threads, Cancel(t) \/ Join(t)
      PROVE  /\ ~Gone(m) /\ children'[Child] = m
             /\ \A j \in Kids \ {m} : kid'[j].name = Child => ~Alive(j)'
  BY <1>2, <1>8 DEF Cancel, Join, OnlyThread, Alive, Waited
<1>9. ASSUME NEW t \in Threads, Snapshot(t)
      PROVE  FALSE
  <2>1. m \in {children[n] : n \in Names} \ {NoKid}
    BY <1>1
  <2>2. owner'[m] = t
    BY <1>9, <2>1 DEF Snapshot
  <2> QED
    BY <2>2, NilAssumption DEF Gone, Taken
<1>10. CASE Running
  BY <1>2, <1>10 DEF Running, Signal, Drained, DrainTimeout, Exit, Alive, Waited
<1>11. ASSUME NEW k \in Kids, Manager(k)
       PROVE  Reap(k) \/ Tends(k)
  BY <1>11, ManagerTends DEF Manager
<1>12. ASSUME NEW t \in Threads, Handler(t)
       PROVE  \/ Serves(t) \/ Cancel(t) \/ Join(t) \/ Snapshot(t)
              \/ Put(t) /\ children[thread[t].name] = NoKid
  BY <1>12, HandlerServes DEF Handler, Blocking, Local, Waiting
<1> QED
  BY <1>3, <1>4, <1>5, <1>6, <1>7, <1>8, <1>9, <1>10, <1>11, <1>12 DEF Step

\* What a handler's own step can lead to: the child it holds is from the map, 404 says
\* that the map had none, and a delete that is answered that the child has ended.
LEMMA OwnStep ==
  ASSUME IInv, NEW t \in Requests, Handler(t), thread[t].op # "terminate"
  PROVE  /\ thread[t].pc # "idle"
         /\ thread'[t].pc # "idle" =>
              /\ thread'[t].op = thread[t].op /\ thread'[t].name = thread[t].name
              /\ thread[t].op = "delete" =>
                   \/ thread[t].pc # "lock" /\ thread'[t].kid = thread[t].kid
                   \/ thread'[t].kid = children[thread[t].name]
         /\ thread'[t].pc = "idle" /\ thread'[t].answer.code = "404" =>
              children[thread[t].name] = NoKid
         /\ thread'[t].pc = "idle" /\ thread[t].op = "delete" /\ thread'[t].answer.code = "200" =>
              thread[t].pc = "wait" /\ Waited(thread[t].kid)
         /\ thread'[t].pc = "idle" => thread'[t].op # "delete"
<1>1. /\ thread[t] \in ThreadStates /\ thread \in [Threads -> ThreadStates]
      /\ t \in Threads /\ TypeOK
  BY DEF IInv, TypeOK, Threads
<1>2. ASSUME NEW c, NEW s, Reply(t, Answer(c, s))
      PROVE  thread'[t].pc = "idle" /\ thread'[t].answer.code = c /\ thread'[t].op = "child"
  <2>1. thread'[t] = [Idler EXCEPT !.answer = Answer(c, s)]
    BY <1>1, <1>2 DEF Reply
  <2> QED
    BY <2>1 DEF Idler, Answer
<1>3. ASSUME NEW pc \in {"check", "send", "ping", "look", "show", "wait"}, Goto(t, pc)
      PROVE  /\ thread'[t].pc = pc /\ thread'[t].op = thread[t].op
             /\ thread'[t].name = thread[t].name /\ thread'[t].kid = thread[t].kid
  <2>1. thread'[t] = [thread[t] EXCEPT !.pc = pc]
    BY <1>1, <1>3 DEF Goto
  <2> QED
    BY <1>1, <2>1 DEF ThreadStates
<1>4. CASE Find(t)
  <2>1. CASE children[thread[t].name] = NoKid
    BY <1>2, <1>4, <2>1 DEF Find, Refuse, At
  <2>2. CASE children[thread[t].name] # NoKid
    <3>1. thread' = [thread EXCEPT ![t].kid = children[thread[t].name], ![t].pc = "check"]
      BY <1>4, <2>2 DEF Find
    <3>2. /\ thread'[t].pc = "check" /\ thread'[t].op = thread[t].op
          /\ thread'[t].name = thread[t].name /\ thread'[t].kid = children[thread[t].name]
      BY <1>1, <3>1 DEF ThreadStates
    <3> QED
      BY <1>4, <3>2 DEF Find, At
  <2> QED
    BY <2>1, <2>2
<1>5. CASE Show(t) \/ Look(t) \/ Cancelled(t)
  BY <1>2, <1>3, <1>5 DEF Show, Look, Cancelled, Refuse, At
<1>6. CASE Check(t)
  BY <1>2, <1>3, <1>6 DEF Check, Refuse, At
<1>7. CASE Deleted(t)
  BY <1>2, <1>7 DEF Deleted, At
<1>8. CASE Send(t) \/ SyncStart(t) \/ PingStop(t)
  BY <1>3, <1>8 DEF Send, SyncStart, PingStop, At
<1>9. CASE PutPing(t)
  BY <1>2, <1>9 DEF PutPing, At
<1>10. CASE Put(t)
  <2>1. CASE children[thread[t].name] # NoKid
    BY <1>2, <1>10, <2>1 DEF Put, Refuse, At
  <2>2. CASE children[thread[t].name] = NoKid
    <3>1. PICK k \in Kids : thread' = [thread EXCEPT ![t].kid = k, ![t].pc = "send"]
      BY <1>10, <2>2 DEF Put
    <3>2. /\ thread'[t].pc = "send" /\ thread'[t].op = thread[t].op
          /\ thread'[t].name = thread[t].name
      BY <1>1, <3>1 DEF ThreadStates
    <3> QED
      BY <1>10, <3>2 DEF Put, At
  <2> QED
    BY <2>1, <2>2
<1>11. ~(Cancel(t) \/ Snapshot(t) \/ Join(t))
  BY DEF Cancel, Snapshot, Join, At
<1> QED
  BY <1>4, <1>5, <1>6, <1>7, <1>8, <1>9, <1>10, <1>11 DEF Handler, Blocking, Local, Waiting

\* The daemon's steps keep what the clients know.
LEMMA DaemonKeepsClients ==
  ASSUME CInv, Step, UNCHANGED script
  PROVE  ClientsInv'
<1>1. IInv /\ ClientsInv /\ TypeOK
  BY DEF CInv, IInv
<1>2. CTypeOK'
  BY <1>1 DEF ClientsInv, CTypeOK
<1>3. ASSUME NEW t \in Requests, Calling(t)
      PROVE  /\ script[t].goal # "raw"
             /\ thread'[t].pc # "idle" => thread'[t].op = CallOf(t) /\ thread'[t].name = Child
             /\ thread[t].op # "terminate"
  <2>1. /\ script[t].goal # "raw"
        /\ thread[t].pc # "idle" => thread[t].op = CallOf(t) /\ thread[t].name = Child
    BY <1>1, <1>3 DEF ClientsInv
  <2>2. thread[t].op # "terminate"
    BY <1>1, <1>3, <2>1 DEF IInv, HandlersInv, HandlerOK, Steps, CallOf, Calling, Calls, Threads
  <2> QED
    BY <1>1, <2>1, <2>2, StepAlone, OwnStep
<1>4. ASSUME NEW t \in Requests, Calling(t), script[t].met # NoKid, ~Gone(script[t].met)'
      PROVE  StillMet(t)'
  <2> DEFINE m == script[t].met
  <2>1. m \in Kids /\ (m)' = m
    BY <1>1, <1>4 DEF ClientsInv, CTypeOK, Scripts
  <2>2. CASE ~Gone(m)
    <3>1. StillMet(t)
      BY <1>1, <1>4, <2>2 DEF ClientsInv
    <3>2. /\ children[Child] = m
          /\ \A j \in Kids \ {m} : kid[j].name = Child => ~Alive(j)
          /\ script[t].step \in {"child", "stop", "delete"} \/ script[t].kept
          /\ thread[t].pc = "idle" => thread[t].answer.code # "404"
                                        /\ ~(script[t].step = "delete" /\ thread[t].answer.code = "200")
          /\ thread[t].op = "delete" /\ thread[t].pc # "lock" => thread[t].kid = m
      BY <3>1 DEF StillMet, Code
    <3> HIDE DEF m
    <3>3. ~Gone(m)'
      BY <1>4, <2>1 DEF m
    <3>4. /\ children'[Child] = m
          /\ \A j \in Kids \ {m} : kid'[j].name = Child => ~Alive(j)'
      BY <1>1, <2>1, <3>2, <3>3, MapMoves
    <3>5. /\ thread'[t].pc = "idle" => thread'[t].answer.code # "404"
                                        /\ ~(script[t].step = "delete" /\ thread'[t].answer.code = "200")
          /\ thread'[t].op = "delete" /\ thread'[t].pc # "lock" => thread'[t].kid = m
      <4>1. CASE thread'[t] = thread[t]
        BY <3>2, <4>1
      <4>2. CASE Handler(t)
        <5>1. thread[t].pc # "idle" /\ thread[t].op = CallOf(t) /\ thread[t].name = Child
          BY <1>1, <1>3, <1>4, <4>2, OwnStep DEF ClientsInv
        <5>2. script[t].step = "delete" => thread[t].op = "delete"
          BY <5>1 DEF CallOf
        <5>3. Waited(thread[t].kid) => thread[t].kid # m
          BY <2>2 DEF Gone
        <5> QED
          BY <1>1, <1>3, <1>4, <2>1, <3>2, <4>2, <5>1, <5>2, <5>3, OwnStep, NilAssumption
      <4> QED
        BY <1>1, <4>1, <4>2, StepAlone
    <3> QED
      BY <3>2, <3>4, <3>5, <2>1 DEF StillMet, Code, m
  <2>3. CASE Gone(m)
    <3>1. Gone(m)'
      BY <1>1, <2>1, <2>3, GoneStays
    <3> QED
      BY <1>4, <2>1, <3>1
  <2> QED
    BY <2>2, <2>3
<1>5. \A t \in Requests : Calling(t)' = Calling(t) /\ CallOf(t)' = CallOf(t)
                            /\ script'[t] = script[t]
  BY DEF Calling, CallOf
<1> QED
  BY <1>2, <1>3, <1>4, <1>5 DEF ClientsInv

\* What a call does to the handlers.
LEMMA CallMoves ==
  ASSUME TypeOK, NEW t \in Requests, NEW op \in AllOps \ {"terminate"}, Call(t, op, Child)
  PROVE  /\ server = "serving" /\ thread[t].pc = "idle"
         /\ thread'[t].op = op /\ thread'[t].name = Child /\ thread'[t].pc = "lock"
         /\ \A u \in Threads \ {t} : thread'[u] = thread[u]
         /\ UNCHANGED <<server, forced, mu, children, kid, owner, term>>
BY DEF Call, OnlyThread, TypeOK, Threads

\* A client's own step: what the others are, and the children, stay as they are.
LEMMA ClientAlone ==
  ASSUME CInv, NEW t \in Requests, UNCHANGED <<children, kid, owner>>,
         \A u \in Threads \ {t} : thread'[u] = thread[u],
         script' \in [Requests -> Scripts],
         \A u \in Requests \ {t} : script'[u] = script[u],
         Calling(t)' =>
           /\ script'[t].goal # "raw"
           /\ thread'[t].pc = "lock" /\ thread'[t].op = CallOf(t)' /\ thread'[t].name = Child,
         Calling(t)' /\ script'[t].met # NoKid /\ ~Gone(script'[t].met) =>
           /\ children[Child] = script'[t].met
           /\ \A j \in Kids \ {script'[t].met} : kid[j].name = Child => ~Alive(j)
           /\ script'[t].step \in {"child", "stop", "delete"} \/ script'[t].kept
  PROVE  ClientsInv'
<1>1. CTypeOK'
  BY DEF CTypeOK
<1>2. \A k : Gone(k)' = Gone(k) /\ Alive(k)' = Alive(k)
  BY DEF Gone, Waited, Taken, Alive
<1>3. \A u \in Requests \ {t} : /\ Calling(u)' = Calling(u) /\ CallOf(u)' = CallOf(u)
                                /\ thread'[u] = thread[u]
  BY DEF Calling, CallOf, Threads
<1>4. \A u \in Requests \ {t} : Calling(u)' =>
        /\ script'[u].goal # "raw"
        /\ thread'[u].pc # "idle" => thread'[u].op = CallOf(u)' /\ thread'[u].name = Child
  BY <1>3 DEF CInv, ClientsInv
<1>5. \A u \in Requests \ {t} :
        Calling(u)' /\ script'[u].met # NoKid /\ ~Gone(script[u].met)' => StillMet(u)'
  BY <1>2, <1>3 DEF CInv, ClientsInv, StillMet, Code
<1>6. Calling(t)' /\ script'[t].met # NoKid /\ ~Gone(script[t].met)' => StillMet(t)'
  BY <1>2 DEF StillMet
<1> QED
  BY <1>1, <1>4, <1>5, <1>6 DEF ClientsInv

\* The client goes on with a call.
LEMMA CallGoesOn ==
  ASSUME CInv, NEW t \in Requests, NEW step \in Calls, NEW kept \in BOOLEAN,
         Calling(t), Call(t, IF step = "await" THEN "child" ELSE step, Child),
         script' = [script EXCEPT ![t].step = step, ![t].kept = kept],
         script[t].met # NoKid /\ ~Gone(script[t].met) =>
           step \in {"child", "stop", "delete"} \/ kept
  PROVE  ClientsInv'
<1>1. IInv /\ ClientsInv /\ TypeOK
  BY DEF CInv, IInv
<1>2. /\ thread'[t].op = (IF step = "await" THEN "child" ELSE step)
      /\ thread'[t].name = Child /\ thread'[t].pc = "lock"
      /\ \A u \in Threads \ {t} : thread'[u] = thread[u]
      /\ UNCHANGED <<children, kid, owner>>
  BY <1>1, CallMoves DEF Calls, AllOps
<1>3. script[t].goal # "raw"
  BY <1>1 DEF ClientsInv
<1>4. /\ script' \in [Requests -> Scripts]
      /\ \A u \in Requests \ {t} : script'[u] = script[u]
      /\ script'[t].goal = script[t].goal /\ script'[t].met = script[t].met
      /\ script'[t].step = step /\ script'[t].kept = kept
  BY <1>1 DEF ClientsInv, CTypeOK, Scripts
<1>5. CallOf(t)' = (IF step = "await" THEN "child" ELSE step)
  BY <1>4 DEF CallOf
<1>6. script[t].met # NoKid /\ ~Gone(script[t].met) => StillMet(t)
  BY <1>1 DEF ClientsInv
<1> QED
  BY <1>2, <1>3, <1>4, <1>5, <1>6, ClientAlone DEF StillMet

\* A client that returns is no longer bound to what it met.
LEMMA ReturnKeeps ==
  ASSUME CInv, NEW t \in Requests, NEW how \in {"ok", "failed"}, Return(t, how)
  PROVE  ClientsInv'
<1>1. /\ script' \in [Requests -> Scripts]
      /\ \A u \in Requests \ {t} : script'[u] = script[u]
      /\ script'[t].step = how
  BY DEF CInv, ClientsInv, CTypeOK, Scripts, Return
<1>2. ~Calling(t)'
  BY <1>1 DEF Calling, Calls
<1> QED
  BY <1>1, <1>2, ClientAlone DEF Return, vars

\* A client that sets out meets what is in the map; no Terminate has taken a child yet,
\* so that nothing else of that name is alive.
LEMMA BeginKeeps ==
  ASSUME CInv, NEW t \in Requests, NEW e \in Errands, Begin(t, e)
  PROVE  ClientsInv'
<1>1. IInv /\ ClientsInv /\ TypeOK /\ Child \in Names
  BY ErrandsAssumption DEF CInv, IInv
<1>2. /\ server = "serving" /\ thread'[t].op = "child" /\ thread'[t].name = Child
      /\ thread'[t].pc = "lock"
      /\ \A u \in Threads \ {t} : thread'[u] = thread[u]
      /\ UNCHANGED <<children, kid, owner>>
  BY <1>1, CallMoves DEF Begin, AllOps
<1> DEFINE c == [goal |-> e.goal, step |-> "child", kept |-> e.kept, wait |-> e.wait,
                 met |-> children[Child]]
<1>3. e.goal \in {"start", "stop"} /\ e.kept \in BOOLEAN /\ e.wait \in BOOLEAN
  BY ErrandsAssumption
<1>4. children[Child] \in Kids \cup {NoKid}
  BY <1>1 DEF TypeOK
<1>5. c \in Scripts
  BY <1>3, <1>4 DEF Calls, Scripts
<1>6. c.goal # "raw" /\ c.step = "child" /\ c.met = children[Child]
  BY <1>3
<1>7. script' = [script EXCEPT ![t] = c]
  BY DEF Begin
<1> HIDE DEF c
<1>8. /\ script' \in [Requests -> Scripts]
      /\ script'[t] = c /\ \A u \in Requests \ {t} : script'[u] = script[u]
  BY <1>1, <1>5, <1>7 DEF ClientsInv, CTypeOK
<1>9. ASSUME children[Child] # NoKid, ~Gone(children[Child])
      PROVE  \A j \in Kids \ {children[Child]} : kid[j].name = Child => ~Alive(j)
  BY <1>1, <1>2 DEF IInv, TakenInv, MapInv
<1>10. CallOf(t)' = "child"
  BY <1>6, <1>8 DEF CallOf
<1> QED
  BY <1>2, <1>6, <1>8, <1>9, <1>10, ClientAlone

\* A raw client knows nothing.
LEMMA RawKeeps ==
  ASSUME CInv, NEW t \in Requests, NEW op \in AllOps, RawCall(t, op)
  PROVE  ClientsInv'
<1>1. ~Calling(t) /\ TypeOK /\ ClientsInv
  BY DEF RawCall, CInv, ClientsInv, IInv
<1>2. /\ UNCHANGED <<children, kid, owner, script>>
      /\ \A u \in Threads \ {t} : thread'[u] = thread[u]
  BY <1>1 DEF RawCall, Call, OnlyThread, TypeOK
<1>3. ~Calling(t)'
  BY <1>1, <1>2 DEF Calling
<1> QED
  BY <1>1, <1>2, <1>3, ClientAlone DEF ClientsInv, CTypeOK

\* A client's next call.
LEMMA ThenKeeps ==
  ASSUME CInv, NEW t \in Requests, NEW step \in Calls, Calling(t), Then(t, step),
         script[t].met # NoKid /\ ~Gone(script[t].met) =>
           step \in {"child", "stop", "delete"} \/ script[t].kept
  PROVE  ClientsInv'
<1>1. script[t].kept \in BOOLEAN /\ script \in [Requests -> Scripts]
  BY DEF CInv, ClientsInv, CTypeOK, Scripts
<1>2. script' = [script EXCEPT ![t].step = step, ![t].kept = script[t].kept]
  BY <1>1 DEF Then
<1> QED
  BY <1>1, <1>2, CallGoesOn DEF Then

\* The end of PM.Start.
LEMMA AwaitKeeps ==
  ASSUME CInv, NEW t \in Requests, Calling(t), Await(t),
         script[t].met # NoKid /\ ~Gone(script[t].met) => script[t].kept
  PROVE  ClientsInv'
<1>1. CASE Return(t, "ok") \/ Return(t, "failed")
  BY <1>1, ReturnKeeps
<1>2. CASE Then(t, "await")
  BY <1>2, ThenKeeps DEF Calls
<1> QED
  BY <1>1, <1>2 DEF Await

\* Whatever a client decides on an answer (resource-pm.go:54-161).
LEMMA DecideKeeps ==
  ASSUME CInv, NEW t \in Requests, Decide(t)
  PROVE  ClientsInv'
<1>1. Calling(t)
  BY DEF Decide, StartLooks, StartMoves, StartFails, StopMoves, StopEnds404, StopFails, Disconnected,
         Answered, Calling, Calls
<1>2. script[t].met # NoKid /\ ~Gone(script[t].met) => StillMet(t)
  BY <1>1 DEF CInv, ClientsInv
<1>3. CASE StartLooks(t)
  <2>1. ASSUME NEW step \in {"put", "delete", "stop"}, Anew(t, step),
               step = "put" => Code(t) = "404"
        PROVE  ClientsInv'
    <3>1. script' = [script EXCEPT ![t].step = step, ![t].kept = FALSE]
      BY <2>1 DEF Anew
    <3>2. script[t].met # NoKid /\ ~Gone(script[t].met) => step \in {"child", "stop", "delete"}
      BY <1>2, <1>3, <2>1 DEF StillMet, StartLooks, Answered
    <3> QED
      BY <1>1, <2>1, <3>1, <3>2, CallGoesOn DEF Anew, Calls
  <2>2. CASE script[t].kept /\ Await(t)
    BY <1>1, <2>2, AwaitKeeps
  <2> QED
    BY <1>3, <2>1, <2>2 DEF StartLooks
<1>4. CASE StartMoves(t)
  <2>1. CASE script[t].step = "stop" /\ Then(t, "delete")
    BY <1>1, <2>1, ThenKeeps DEF Calls
  <2>2. CASE script[t].step = "delete" /\ Then(t, "put")
    BY <1>1, <1>2, <1>4, <2>2, ThenKeeps DEF Calls, StillMet, StartMoves, Answered
  <2>3. CASE script[t].step = "put" /\ Then(t, "start")
    BY <1>1, <1>2, <2>3, ThenKeeps DEF Calls, StillMet
  <2>4. CASE script[t].step \notin {"stop", "delete", "put", "child"} /\ Await(t)
    BY <1>1, <1>2, <2>4, AwaitKeeps DEF StillMet
  <2> QED
    BY <1>4, <2>1, <2>2, <2>3, <2>4 DEF StartMoves, Answered
<1>5. CASE StopMoves(t)
  <2>1. PICK step \in {"delete", "child", "stop"} : Then(t, step)
    BY <1>5 DEF StopMoves
  <2> QED
    BY <1>1, <2>1, ThenKeeps DEF Calls
<1>6. CASE StartFails(t) \/ StopEnds404(t) \/ StopFails(t) \/ Disconnected(t)
  BY <1>6, ReturnKeeps DEF StartFails, StopEnds404, StopFails, Disconnected
<1> QED
  BY <1>3, <1>4, <1>5, <1>6 DEF Decide

-----------------------------------------------------------------------------
\* A step of the daemon and its clients is a step of the daemon, or of no one in it.
LEMMA ClientsCall == TypeOK /\ [CNext]_cvars => [Step \/ Arrival]_vars
<1> SUFFICES ASSUME TypeOK, [CNext]_cvars PROVE [Step \/ Arrival]_vars
  OBVIOUS
<1>1. ASSUME NEW t \in Requests, NEW op \in AllOps, Call(t, op, Child) PROVE Arrival
  BY <1>1, ErrandsAssumption DEF Arrival
<1>2. ASSUME NEW t \in Requests, NEW step \in Calls, Then(t, step) PROVE Arrival
  BY <1>1, <1>2 DEF Then, Calls, AllOps
<1>3. ASSUME NEW t \in Requests, Await(t) PROVE Arrival \/ UNCHANGED vars
  BY <1>2, <1>3 DEF Await, Return, Calls
<1>4. ASSUME NEW t \in Requests, Decide(t) PROVE Arrival \/ UNCHANGED vars
  <2>1. CASE StartLooks(t)
    BY <1>1, <1>3, <2>1 DEF StartLooks, Anew, AllOps
  <2>2. CASE StartMoves(t)
    BY <1>2, <1>3, <2>2 DEF StartMoves, Calls
  <2>3. CASE StopMoves(t)
    BY <1>2, <2>3 DEF StopMoves, Return, Calls
  <2>4. CASE StartFails(t) \/ StopEnds404(t) \/ StopFails(t) \/ Disconnected(t)
    BY <2>4 DEF StartFails, StopEnds404, StopFails, Disconnected, Return
  <2> QED
    BY <1>4, <2>1, <2>2, <2>3, <2>4 DEF Decide
<1>5. ASSUME NEW t \in Requests, NEW e \in Errands, Begin(t, e) PROVE Arrival
  BY <1>1, <1>5 DEF Begin, AllOps
<1>6. ASSUME NEW t \in Requests, NEW op \in Ops[t], RawCall(t, op) PROVE Arrival
  BY <1>1, <1>6, OpsAssumption DEF RawCall
<1> QED
  BY <1>4, <1>5, <1>6 DEF CNext, cvars

\* The invariant of the daemon and its clients holds at first.
LEMMA CEstablished == CInit => CInv
<1> SUFFICES ASSUME CInit PROVE CInv
  OBVIOUS
<1>1. IInv
  BY Established DEF CInit
<1>2. script \in [Requests -> {Resting, [Resting EXCEPT !.goal = "raw"]}]
  BY DEF CInit
<1>3. \A t \in Requests : ~Calling(t)
  BY <1>2 DEF Calling, Resting, Calls
<1>4. CTypeOK
  <2>1. Resting \in Scripts
    BY DEF Resting, Scripts
  <2>2. [Resting EXCEPT !.goal = "raw"] \in Scripts
    BY <2>1 DEF Scripts
  <2> QED
    BY <1>2, <2>1, <2>2 DEF CTypeOK
<1> QED
  BY <1>1, <1>3, <1>4 DEF CInv, ClientsInv

\* Every step of either keeps it.
LEMMA CStepKeeps == CInv /\ [CNext]_cvars => CInv'
<1> SUFFICES ASSUME CInv, [CNext]_cvars PROVE CInv'
  OBVIOUS
<1>1. IInv'
  BY ClientsCall, StepKeeps DEF CInv, IInv
<1>2. ClientsInv'
  <2>1. CASE Step /\ UNCHANGED script
    BY <2>1, DaemonKeepsClients
  <2>2. ASSUME NEW t \in Requests, NEW op \in Ops[t], RawCall(t, op) PROVE ClientsInv'
    BY <2>2, OpsAssumption, RawKeeps
  <2>3. CASE UNCHANGED cvars
    BY <2>3 DEF cvars, vars, CInv, ClientsInv, CTypeOK, StillMet, Calling, CallOf, Gone, Waited,
                Taken, Alive, Code
  <2> QED
    BY <2>1, <2>2, <2>3, DecideKeeps, BeginKeeps DEF CNext
<1> QED
  BY <1>1, <1>2 DEF CInv

\* The inductive invariants hold of the daemon, and of the daemon with its clients.
THEOREM DaemonInductive == (Spec => []IInv) /\ (CSpec => []CInv)
<1>1. IInv /\ [Next]_vars => IInv'
  BY StepKeeps, NextArrives
<1> QED
  BY <1>1, Established, CEstablished, CStepKeeps, PTL DEF Spec, CSpec

\* The one contains the other.
LEMMA CInvHasIInv == CInv => IInv
BY DEF CInv

\* However many children, clients and Terminates there are: when Run returns, no child is left
\* running but one put during a Terminate and removed by the end of its namesake, and, if the
\* server had to be closed over requests in flight, one such a request put too late, or one
\* that a Terminate among them has taken and waits for (daemon.go:214-250, http.go:56-82).
THEOREM ExitLeavesNothingCorrect ==
  (Spec => []ExitLeavesNothing) /\ (CSpec => []ExitLeavesNothing)
BY DaemonInductive, CInvHasIInv, ExitHolds, PTL

\* When PutChild answers that it made the child, the child is under its name, its manager
\* runs, and no one has got to it yet: the mutex is held until the manager has answered
\* the ping (daemon.go:89-108).
THEOREM PutIsThereCorrect == (Spec => PutIsThere) /\ (CSpec => PutIsThere)
<1> DEFINE There ==
      \A t \in Requests :
        thread[t].op = "put" /\ thread'[t].pc = "idle" /\ thread'[t].answer.code = "200" =>
          LET k == thread[t].kid IN
            /\ children'[thread[t].name] = k /\ owner'[k] = NoThread
            /\ kid'[k].mgr = "running" /\ kid'[k].state = "stopped"
            /\ thread'[t].answer.state = "stopped"
            /\ \A u \in Threads \ {t} : thread'[u].kid # k
<1>1. IInv /\ FreshInv /\ [Step \/ Arrival]_vars => There
  BY PutAnswered
<1>2. Init => FreshInv
  BY FreshAtFirst
<1>3. CInit => FreshInv
  BY FreshAtFirst DEF CInit
<1>4. IInv /\ FreshInv /\ [Next]_vars => FreshInv' /\ [There]_vars
  BY <1>1, FreshKeeps, NextArrives
<1>5. CInv /\ FreshInv /\ [CNext]_cvars => FreshInv' /\ [There]_vars
  BY <1>1, FreshKeeps, ClientsCall DEF CInv, IInv
<1> QED
  BY <1>2, <1>3, <1>4, <1>5, DaemonInductive, PTL DEF Spec, CSpec, PutIsThere

\* When StartChild answers, the start that may still be pending is another request's
\* (daemon.go:133).
THEOREM StartIsSyncedCorrect == (Spec => StartIsSynced) /\ (CSpec => StartIsSynced)
<1> DEFINE Synced ==
      \A t \in Requests :
        At(t, {"start"}, thread[t].pc) /\ thread[t].kid # NoKid
          /\ thread'[t].pc = "idle" /\ thread'[t].answer.code = "200"
          /\ kid[thread[t].kid].cmd = "start"
        => \E u \in Requests \ {t} :
             thread[u].op = "start" /\ thread[u].kid = thread[t].kid
<1>1. IInv /\ [Step \/ Arrival]_vars => Synced
  BY StartSynced
<1>2. IInv /\ [Next]_vars => [Synced]_vars
  BY <1>1, NextArrives
<1>3. CInv /\ [CNext]_cvars => [Synced]_vars
  BY <1>1, ClientsCall DEF CInv, IInv
<1> QED
  BY <1>2, <1>3, DaemonInductive, PTL DEF Spec, CSpec, StartIsSynced

\* When PM.Stop, or PM.Start without keeping what it found, returns without an error, the
\* child it met has no manager any more or is a Terminate's, whatever the other clients did
\* (resource-pm.go:54-161).
THEOREM ReplacedCorrect == CSpec => Replaced
<1> DEFINE Ended ==
      \A t \in Requests :
        Calling(t) /\ script'[t].step = "ok" /\ ~script[t].kept /\ script[t].met # NoKid =>
          \/ kid[script[t].met].mgr \notin {"running", "panicked"}
          \/ owner[script[t].met] # NoThread
<1>1. CInv /\ [CNext]_cvars => Ended
  <2> SUFFICES ASSUME CInv, [CNext]_cvars, NEW t \in Requests, Calling(t),
                      script'[t].step = "ok", ~script[t].kept, script[t].met # NoKid,
                      ~Gone(script[t].met)
               PROVE  FALSE
    BY DEF Gone, Waited, Taken
  <2>1. StillMet(t) /\ script[t].step # "ok" /\ CTypeOK
    BY DEF CInv, ClientsInv, Calling, Calls
  <2>2. script'[t] # script[t]
    BY <2>1
  <2>3. ASSUME NEW u \in Requests, NEW step \in Calls, Then(u, step) \/ Anew(u, step)
        PROVE  FALSE
    BY <2>1, <2>2, <2>3 DEF Then, Anew, CTypeOK, Scripts, Calls
  <2>4. ASSUME NEW u \in Requests, u # t, NEW how, Return(u, how)
        PROVE  FALSE
    BY <2>1, <2>2, <2>4 DEF Return, CTypeOK
  <2>5. ASSUME Return(t, "failed")
        PROVE  FALSE
    BY <2>1, <2>5 DEF Return, CTypeOK
  <2>6. ASSUME NEW u \in Requests, NEW e \in Errands, Begin(u, e)
        PROVE  FALSE
    BY <2>1, <2>2, <2>6 DEF Begin, CTypeOK
  <2>7. ASSUME NEW u \in Requests, Await(u), u # t \/ script[t].step \in {"put", "start", "await"}
        PROVE  FALSE
    BY <2>1, <2>3, <2>4, <2>7 DEF Await, StillMet, Calls
  <2>8. ASSUME NEW u \in Requests, Decide(u)
        PROVE  FALSE
    <3>1. CASE StartLooks(u)
      BY <2>3, <2>7, <3>1 DEF StartLooks, Calls
    <3>2. CASE StartMoves(u)
      BY <2>3, <2>7, <3>2 DEF StartMoves, Answered, Calls
    <3>3. CASE StopMoves(u)
      BY <2>3, <3>3 DEF StopMoves, Calls
    <3>4. CASE StopEnds404(u)
      BY <2>1, <2>4, <3>4 DEF StopEnds404, StillMet, Answered
    <3>5. CASE StartFails(u) \/ StopFails(u) \/ Disconnected(u)
      BY <2>4, <2>5, <3>5 DEF StartFails, StopFails, Disconnected
    <3> QED
      BY <2>8, <3>1, <3>2, <3>3, <3>4, <3>5 DEF Decide
  <2>9. CASE UNCHANGED script
    BY <2>2, <2>9
  <2> QED
    BY <2>6, <2>8, <2>9 DEF CNext, cvars, RawCall
<1>2. CInv /\ [CNext]_cvars => [Ended]_cvars
  BY <1>1
<1> QED
  BY <1>2, DaemonInductive, PTL DEF CSpec, Replaced
=============================================================================
