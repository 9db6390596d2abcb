-------------------------------- MODULE Stack --------------------------------
(***************************************************************************)
(* Starting and stopping the stack (addons/stack/start.go, stop.go): the   *)
(* commands "start" and "stop", with the modes of the services             *)
(* (service/basic.go) and the anti-resources they give rise to             *)
(* (resource/resource-anti.go).                                            *)
(*                                                                         *)
(* A command works on a stage at a time, infrastructure or stack.  Start   *)
(* starts the resources of a stage in their order and then waits for those *)
(* of the stack to be ready; stop runs a goroutine per resource, in the    *)
(* reverse order, whose errors come back over a channel.  Commands are     *)
(* processes of their own and may overlap; any may be killed.              *)
(*                                                                         *)
(* What a resource does is in Resources, which services there are and what *)
(* they consist of in StackServices.                                       *)
(***************************************************************************)
EXTENDS Integers, Sequences, FiniteSets, Resources

CONSTANTS
  Services,
  Parts,      \* the registered resources, in order: of which service and stage, in which mode
  Commands,   \* processes
  Killable,   \* those that may be killed before they return
  Options     \* what each of them may be run with

Modes  == {"default", "local", "debug", "disabled"}
Stages == {"infrastructure", "stack"}

AnyPart    == [svc : Services, stage : Stages, mode : {"any", "default", "local", "debug"}, res : Resources]
AnyOptions == [op : {"start"}, modes : [Services -> Modes], wait : BOOLEAN]
                \cup [op : {"stop"}, exclude : SUBSET Services, full : BOOLEAN, parallel : BOOLEAN]

ASSUME PartsAssumption   == Parts \in Seq(AnyPart)
\* Kubernetes' API and its nodes are no resources of a service: they are only waited for.
ASSUME ClusterAssumption == \A i \in DOMAIN Parts : Kind[Parts[i].res] \notin Cluster
ASSUME OptionsAssumption == Options \in [Commands -> (SUBSET AnyOptions) \ {{}}]

VARIABLE cmd  \* each command's state

vars == <<world, cmd>>

Indices == DOMAIN Parts
Res(i)  == Parts[i].res
At(stage) == {i \in Indices : Parts[i].stage = stage}

\* In a start with the options o the resource is wrapped in an Anti: the mode of its
\* service is not the one it is for, or the service is disabled.
IsAnti(o, i) ==
  LET mode == o.modes[Parts[i].svc] IN
  mode = "disabled" \/ Parts[i].mode \notin {"any", mode}

\* A command that has just begun, but for what is given.
Fresh(pc, o, others) ==
  [pc |-> pc, opts |-> o, stage |-> IF o.op = "start" THEN "infrastructure" ELSE "stack",
   left |-> {}, busy |-> {}, sending |-> {}, chan |-> {}, errs |-> {}, ok |-> TRUE,
   failed |-> {}, disturbed |-> others]

Idle(c) == Fresh("idle", CHOOSE o \in Options[c] : TRUE, {})

Init ==
  /\ InitWorld
  /\ cmd = [c \in Commands |-> Idle(c)]

Active(c)    == cmd[c].pc \notin {"idle", "end"}
Starting(c)  == cmd[c].opts.op = "start"
Disturb(d, by) == IF Active(d) THEN [cmd[d] EXCEPT !.disturbed = @ \cup {by}] ELSE cmd[d]

Comes(r) == Appear(r) /\ UNCHANGED cmd
Fades(r) == Fade(r) /\ UNCHANGED cmd
Falls(r) == Fall(r) /\ cmd' = [d \in Commands |-> Disturb(d, "crash")]

-----------------------------------------------------------------------------
(***************************************************************************)
(* A command begins and ends; (history) the others under way are disturbed *)
(* by it, and it by them.                                                  *)
(***************************************************************************)

Run(c) ==
  /\ cmd[c].pc = "idle"
  /\ \E o \in Options[c], prepared \in BOOLEAN :
       LET others == {cmd[d].opts.op : d \in {d \in Commands \ {c} : Active(d)}}
           new    == Fresh("gather", o, others) IN
       cmd' = [d \in Commands |->
                IF d # c THEN Disturb(d, o.op)
                ELSE IF prepared THEN new ELSE [new EXCEPT !.pc = "end", !.ok = FALSE]]
  /\ UNCHANGED world

\* It has returned, or is killed.
Exit(c) ==
  /\ IF c \in Killable THEN cmd[c].pc # "idle" ELSE cmd[c].pc = "end"
  /\ cmd' = [cmd EXCEPT ![c] = Idle(c)]
  /\ UNCHANGED world

\* What a loop over resources turns to next.
First(c) == {i \in cmd[c].left : \A j \in cmd[c].left : i <= j}
Last(c)  == {i \in cmd[c].left : \A j \in cmd[c].left : i >= j}

EndWith(c, ok) == cmd' = [cmd EXCEPT ![c].pc = "end", ![c].ok = ok, ![c].left = {}]

-----------------------------------------------------------------------------
(***************************************************************************)
(* Start: StartServices for infrastructure, then for the stack.            *)
(***************************************************************************)

\* An error of any function that lists a service's resources ends the start.
StartGather(c) ==
  /\ Starting(c) /\ cmd[c].pc = "gather"
  /\ \/ cmd' = [cmd EXCEPT ![c].pc = "act", ![c].left = At(cmd[c].stage)]
     \/ \E i \in At(cmd[c].stage) :
          /\ Res(i) \in Faulty
          /\ cmd' = [cmd EXCEPT ![c].pc = "end", ![c].ok = FALSE, ![c].left = {},
                                ![c].failed = {i}]
  /\ UNCHANGED world

\* The next in order is started, or stopped if it is an Anti; (history) whether that
\* failed for no reason.
StartNext(c) ==
  /\ Starting(c) /\ cmd[c].pc = "act"
  /\ \E i \in First(c) :
          LET r     == Res(i)
              anti  == IsAnti(cmd[c].opts, i)
              after == IF anti THEN Stopped(r) ELSE Started(r) IN
          /\ anti \/ ~Blocks(r)
          /\ \/ /\ \E s \in after : Set(r, s)
                /\ cmd' = [cmd EXCEPT ![c].left = @ \ {i}]
             \/ /\ Fails(r, after)
                /\ cmd' = [cmd EXCEPT ![c].pc = "end", ![c].ok = FALSE, ![c].left = {},
                                      ![c].failed = IF r \in Faulty THEN {i} ELSE {}]

\* Infrastructure is not waited for.
StartedAll(c) ==
  /\ Starting(c) /\ cmd[c].pc = "act" /\ cmd[c].left = {}
  /\ \/ /\ cmd[c].stage = "infrastructure"
        /\ cmd' = [cmd EXCEPT ![c].pc = "gather", ![c].stage = "stack"]
     \/ /\ cmd[c].stage = "stack" /\ cmd[c].opts.wait
        /\ cmd' = [cmd EXCEPT ![c].pc = "look", ![c].left = At("stack")]
     \/ /\ cmd[c].stage = "stack" /\ ~cmd[c].opts.wait
        /\ EndWith(c, TRUE)
  /\ UNCHANGED world

\* Mutant of Look: only an error is looked at.
LookAtErrors(c) ==
  /\ cmd[c].pc = "look"
  /\ \E i \in First(c) :
       IF Ready(Res(i)) = "error" /\ ~IsAnti(cmd[c].opts, i) THEN EndWith(c, FALSE)
       ELSE cmd' = [cmd EXCEPT ![c].left = @ \ {i}]
  /\ UNCHANGED world

\* waitResources, which polls one resource after the other.  An Anti is ready unless
\* the resource says it is; an error is as good as a no.
Look(c) ==
  /\ cmd[c].pc = "look"
  /\ \E i \in First(c) :
          LET anti == IsAnti(cmd[c].opts, i) IN
          \/ /\ (Ready(Res(i)) = "yes") # anti /\ (Ready(Res(i)) = "error" => anti)
             /\ cmd' = [cmd EXCEPT ![c].left = @ \ {i}]
          \/ Ready(Res(i)) = "error" /\ ~anti /\ EndWith(c, FALSE)
  /\ UNCHANGED world

\* The call fails, or the context is done; an Anti is taken to be ready by the first.
LookFails(c) ==
  /\ cmd[c].pc = "look"
  /\ \E i \in First(c) :
          \/ /\ IsAnti(cmd[c].opts, i) /\ Res(i) \in Faulty
             /\ cmd' = [cmd EXCEPT ![c].left = @ \ {i}]
          \/ cmd' = [cmd EXCEPT ![c].pc = "end", ![c].ok = FALSE, ![c].left = {},
                                ![c].failed = {i}]
  /\ UNCHANGED world

LookedAtAll(c) ==
  /\ cmd[c].pc = "look" /\ cmd[c].left = {}
  /\ EndWith(c, TRUE)
  /\ UNCHANGED world

-----------------------------------------------------------------------------
(***************************************************************************)
(* Stop: StopServices for the stack and then, if nothing failed and it was *)
(* asked for, for infrastructure.                                          *)
(***************************************************************************)

InScope(c) == {i \in At(cmd[c].stage) : Parts[i].svc \notin cmd[c].opts.exclude}

\* The functions that fail are remembered, what the others list is stopped.
StopGather(c) ==
  /\ ~Starting(c) /\ cmd[c].pc = "gather"
  /\ \E bad \in SUBSET {i \in InScope(c) : Res(i) \in Faulty} :
       cmd' = [cmd EXCEPT ![c].pc = "act", ![c].left = InScope(c) \ bad,
                          ![c].errs = @ \cup bad, ![c].failed = @ \cup bad]
  /\ UNCHANGED world

\* A goroutine of the command is not done.
Running(c) == cmd[c].busy \cup cmd[c].sending # {}

\* The next, from the last to the first, gets its goroutine; one at a time unless in
\* parallel.
Launch(c) ==
  /\ ~Starting(c) /\ cmd[c].pc = "act"
  /\ cmd[c].opts.parallel \/ (~Running(c) /\ cmd[c].chan = {})
  /\ \E i \in Last(c) :
          cmd' = [cmd EXCEPT ![c].left = @ \ {i}, ![c].busy = @ \cup {i}]
  /\ UNCHANGED world

\* A goroutine: its Stop returns, perhaps with an error, which it is to send.
StopReturns(c, i) ==
  /\ i \in cmd[c].busy
  /\ \/ /\ \E s \in Stopped(Res(i)) : Set(Res(i), s)
        /\ cmd' = [cmd EXCEPT ![c].busy = @ \ {i}]
     \/ /\ Fails(Res(i), Stopped(Res(i)))
        /\ cmd' = [cmd EXCEPT ![c].busy = @ \ {i}, ![c].sending = @ \cup {i},
                              ![c].failed = @ \cup {i}]

\* Mutant of Send: the goroutine does not wait for room.
SendOrDrop(c, i) ==
  /\ i \in cmd[c].sending
  /\ cmd' = [cmd EXCEPT ![c].sending = @ \ {i}, ![c].chan = IF @ = {} THEN {i} ELSE @]
  /\ UNCHANGED world

\* errCh has room for one.
Send(c, i) ==
  /\ i \in cmd[c].sending /\ cmd[c].chan = {}
  /\ cmd' = [cmd EXCEPT ![c].sending = @ \ {i}, ![c].chan = {i}]
  /\ UNCHANGED world

\* Mutant of Receive: in parallel, too, it is taken when all are done.
ReceiveAfterWait(c) ==
  /\ cmd[c].chan # {}
  /\ cmd[c].opts.parallel => cmd[c].left = {}
  /\ ~Running(c)
  /\ cmd' = [cmd EXCEPT ![c].errs = @ \cup cmd[c].chan, ![c].chan = {}]
  /\ UNCHANGED world

\* The error is taken when the goroutine is done or, in parallel, when all have begun.
Receive(c) ==
  /\ cmd[c].chan # {}
  /\ IF cmd[c].opts.parallel THEN cmd[c].left = {} ELSE ~Running(c)
  /\ cmd' = [cmd EXCEPT ![c].errs = @ \cup cmd[c].chan, ![c].chan = {}]
  /\ UNCHANGED world

\* Mutant of StoppedAll: infrastructure is stopped whatever the errors.
StoppedAllAnyway(c) ==
  /\ ~Starting(c) /\ cmd[c].pc = "act" /\ cmd[c].left = {}
  /\ ~Running(c) /\ cmd[c].chan = {}
  /\ IF cmd[c].stage = "stack" /\ cmd[c].opts.full
     THEN cmd' = [cmd EXCEPT ![c].pc = "gather", ![c].stage = "infrastructure"]
     ELSE EndWith(c, cmd[c].errs = {})
  /\ UNCHANGED world

\* wg.Wait returned and, in parallel, errCh was closed and is empty.
StoppedAll(c) ==
  /\ ~Starting(c) /\ cmd[c].pc = "act" /\ cmd[c].left = {}
  /\ ~Running(c) /\ cmd[c].chan = {}
  /\ \/ /\ cmd[c].stage = "stack" /\ cmd[c].opts.full /\ cmd[c].errs = {}
        /\ cmd' = [cmd EXCEPT ![c].pc = "gather", ![c].stage = "infrastructure"]
     \/ /\ cmd[c].stage = "infrastructure" \/ ~cmd[c].opts.full \/ cmd[c].errs # {}
        /\ EndWith(c, cmd[c].errs = {})
  /\ UNCHANGED world

-----------------------------------------------------------------------------
Step(c) ==
  \/ StartGather(c) \/ StartNext(c) \/ StartedAll(c) \/ Look(c) \/ LookedAtAll(c)
  \/ StopGather(c) \/ Launch(c) \/ Receive(c) \/ StoppedAll(c)
  \/ \E i \in Indices : StopReturns(c, i) \/ Send(c, i)

Next ==
  \/ \E c \in Commands : Run(c) \/ Step(c) \/ LookFails(c) \/ Exit(c)
  \/ \E r \in Resources : Comes(r) \/ Fades(r) \/ Falls(r)

Spec == Init /\ [][Next]_vars

\* A command under way goes on, and what was started gets ready.
FairSpec ==
  /\ Spec
  /\ \A c \in Commands : WF_vars(Step(c))
  /\ WF_vars(\E r \in Resources : Comes(r))

-----------------------------------------------------------------------------
(***************************************************************************)
(* Properties.                                                             *)
(***************************************************************************)

\* The values of the variables; only a stop has goroutines, and the channel keeps to
\* its capacity.
TypeOK ==
  /\ world \in [Resources -> States]
  /\ cmd \in [Commands ->
       [pc : {"idle", "gather", "act", "look", "end"}, opts : UNION {Options[c] : c \in Commands},
        stage : Stages, left : SUBSET Indices, busy : SUBSET Indices, sending : SUBSET Indices,
        chan : SUBSET Indices, errs : SUBSET Indices, ok : BOOLEAN, failed : SUBSET Indices,
        disturbed : SUBSET {"crash", "start", "stop"}]]
  /\ \A c \in Commands :
       /\ cmd[c].opts \in Options[c]
       /\ cmd[c].chan \cup cmd[c].sending \cup cmd[c].busy # {} =>
            ~Starting(c) /\ cmd[c].pc = "act"
       /\ \A i, j \in cmd[c].chan : i = j

\* A stop returns the error of every function and of every Stop that failed, in
\* whatever order the goroutines finish and send, and no other.
StopReportsAll ==
  \A c \in Commands : cmd[c].pc = "end" /\ ~Starting(c) =>
    cmd[c].errs = cmd[c].failed /\ (cmd[c].ok => cmd[c].failed = {})

Ends(c) == Active(c) /\ cmd'[c].pc = "end"

\* Which parts ask for the resource, and which for its absence.
For(o, r)     == {i \in Indices : Res(i) = r /\ ~IsAnti(o, i)}
Against(o, r) == {i \in Indices : Res(i) = r /\ IsAnti(o, i)}

\* The stages a stop has come to, and what of them it is to stop.
Asked(c) ==
  {i \in Indices : /\ Parts[i].svc \notin cmd[c].opts.exclude
                   /\ cmd[c].stage \in {Parts[i].stage, "infrastructure"}}

\* A service whose pods are not looked at before it: its endpoint may go again until
\* they are ready.
MayFade(o, i) ==
  /\ Kind[Res(i)] = "service"
  /\ \E w \in Needs[Res(i)] :
       /\ Types[Kind[w]].fails
       /\ \A j \in At("stack") : Res(j) = w /\ j < i => Against(o, w) # {}

\* A start that succeeds, while nothing else starts, stops or fails, leaves what it
\* wants up, or on its way if it does not wait for it, and what it does not want
\* down.
StartDelivers(c) ==
  cmd'[c].ok /\ cmd[c].disturbed = {} =>
    \A i \in Indices :
      LET o == cmd[c].opts IN
      /\ Against(o, Res(i)) = {} =>
           \/ Kind[Res(i)] = "waiter"
           \/ world[Res(i)] \in {"up"} \cup
                 IF o.wait /\ Parts[i].stage = "stack" /\ ~MayFade(o, i)
                 THEN {} ELSE {"coming"}
      /\ For(o, Res(i)) = {} => Kind[Res(i)] \in Lasting \/ world[Res(i)] = "down"

\* A stop, while nothing is started, leaves down all it was asked to stop but what it
\* could not stop: an error keeps it from nothing else of the stage.
StopDelivers(c) ==
  "start" \notin cmd[c].disturbed =>
    \A i \in Asked(c) \ cmd[c].failed : Kind[Res(i)] \in Lasting \/ world[Res(i)] = "down"

EndsAsAsked ==
  [][\A c \in Commands : Ends(c) => IF Starting(c) THEN StartDelivers(c)
                                                  ELSE StopDelivers(c)]_vars

\* A start of which no call fails, and which nothing disturbs, succeeds: what it starts
\* comes in an order in which each finds there what it needs and waits for.  Only a
\* container of a stack that was not stopped is in its way.
StartSucceeds ==
  [][\A c \in Commands :
       Ends(c) /\ Starting(c) /\ cmd[c].disturbed = {} /\ cmd'[c].failed = {} =>
         \/ cmd'[c].ok
         \/ \E i \in First(c) : Kind[Res(i)] = "container" /\ world[Res(i)] # "down"]_vars

\* The part j has its turn before i; which parts of a start wait for another resource,
\* and what it has waited for before the turn of i.
Precedes(j, i) ==
  IF Parts[j].stage = Parts[i].stage THEN j < i ELSE Parts[j].stage = "infrastructure"
Waits(o, j)   == Kind[Res(j)] = "waiter" /\ ~IsAnti(o, j)
Awaited(o, i) == UNION {Needs[Res(j)] : j \in {j \in Indices : Waits(o, j) /\ Precedes(j, i)}}

\* It waited for what serves the kubernetes that r is asked of.
Served(o, i, r) ==
  \A a \in {r} \cup Needs[r] : Kind[a] \in Cluster => Needs[a] \subseteq Awaited(o, i)

\* The rules of the order in which services list their resources.  Before each the start
\* waited for the kubernetes it is an object of, or the server its databases are made in;
\* what it waits for is of kubernetes or was started before, and a service's workloads were
\* waited for; no later part touches what was waited for, and none is unwanted that
\* another wants.
InOrder(o) ==
  \A i \in Indices :
    /\ Served(o, i, Res(i))
    /\ Kind[Res(i)] = "databases" => Needs[Res(i)] \subseteq Awaited(o, i)
    /\ Waits(o, i) =>
         \A t \in Needs[Res(i)] :
           /\ Served(o, i, t)
           /\ \/ Kind[t] \in Cluster
              \/ \E j \in Indices : Res(j) = t /\ Precedes(j, i) /\ ~IsAnti(o, j)
           /\ Kind[t] = "service" =>
                {w \in Needs[t] : Types[Kind[w]].fails} \subseteq Awaited(o, i)
    /\ \A t \in Awaited(o, i) : Res(i) # t /\ (Kind[t] \in Cluster => Res(i) \notin Needs[t])
    /\ ~IsAnti(o, i) => Against(o, Res(i)) = {}
AllInOrder == \A c \in Commands : \A o \in Options[c] : o.op = "start" => InOrder(o)

\* What comes after i in the order of starting, as far as stop is to keep to it, and
\* has no reason to be up.
Dependents(c, i) ==
  {j \in Indices \ {i} :
     /\ Parts[j].svc \notin cmd[c].opts.exclude /\ Kind[Res(j)] \notin Lasting
     /\ \/ Parts[i].stage = "infrastructure" /\ Parts[j].stage = "stack"
        \/ /\ Parts[i].stage = Parts[j].stage /\ i < j
           /\ ~cmd[c].opts.parallel /\ j \notin cmd[c].failed}

\* Nothing that is up is stopped before what depends on it, "infra after services
\* because we stop things in reverse of start order" (stop.go:35), unless what
\* depends on it was started meanwhile, could not be stopped, or is of the same stage
\* and stopped in parallel.  Infrastructure is kept when any service's stop failed.
DependentsFirst ==
  [][\A c \in Commands : \A i \in cmd[c].busy \ cmd'[c].busy :
       cmd'[c].pc = "act" /\ "start" \notin cmd[c].disturbed =>
         \A j \in Dependents(c, i) : world[Res(j)] = "down"]_vars

\* Nothing makes a wait of this start futile: that part of the stack is to be stopped
\* which says it is ready for ever, or is wanted by another part.
Futile(o) ==
  /\ o.op = "start" /\ o.wait
  /\ \E i \in At("stack") : IsAnti(o, i) /\
       (Kind[Res(i)] \in Lasting \cup {"container"} \/ For(o, Res(i)) # {})

\* Every stop ends, and every start that waits for what can be, unless another start
\* undoes what it did or a resource fails again and again.
CommandsEnd ==
  \A c \in Commands :
    Active(c) ~> \/ ~Active(c)
                 \/ Starting(c) /\ (Futile(cmd[c].opts) \/ cmd[c].disturbed \cap {"start", "crash"} # {})
=============================================================================
