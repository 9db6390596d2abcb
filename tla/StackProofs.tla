----------------------------- MODULE StackProofs -----------------------------
(***************************************************************************)
(* Proofs about Stack, for any services, any resources and any number of   *)
(* commands at once.  TypeOK, and that a stop loses no error, are of one   *)
(* command's record at a time, and follow from Good, which every step of a *)
(* command keeps of its own record and every other step of all.  What a    *)
(* stop and a start come to relates the record to the world: StopInv and   *)
(* StartInv say what a command has done so far, as long as no other        *)
(* disturbs it, which Overlap says it would know of.  TurnInv and HoldInv  *)
(* add in which order a start comes to its parts, and that what it waited  *)
(* for stays up.                                                           *)
(***************************************************************************)
EXTENDS Stack, TLAPS

USE DEF vars

\* What a command's record holds.
Command ==
  [pc : {"idle", "gather", "act", "look", "end"}, opts : UNION {Options[c] : c \in Commands},
   stage : Stages, left : SUBSET Indices, busy : SUBSET Indices, sending : SUBSET Indices,
   chan : SUBSET Indices, errs : SUBSET Indices, ok : BOOLEAN, failed : SUBSET Indices,
   disturbed : SUBSET {"crash", "start", "stop"}]

\* What TypeOK says of a command c whose record is k.
Typed(c, k) ==
  /\ k \in Command
  /\ k.opts \in Options[c]
  /\ k.chan \cup k.sending \cup k.busy # {} => k.opts.op # "start" /\ k.pc = "act"
  /\ \A i, j \in k.chan : i = j

\* Every failure of a stop is on its way: about to be sent, in the channel, or
\* received; and it succeeds only if none was received.  A stop does not wait.
Accounted(k) ==
  k.opts.op # "start" =>
    /\ k.failed = k.errs \cup k.sending \cup k.chan
    /\ k.pc = "end" /\ k.ok => k.errs = {}
    /\ k.pc # "look"

Good(c, k) == Typed(c, k) /\ Accounted(k)

IInv ==
  /\ world \in [Resources -> States]
  /\ cmd \in [Commands -> Command]
  /\ \A c \in Commands : Good(c, cmd[c])

LEMMA IInvMeans == IInv => TypeOK /\ StopReportsAll
<1>1. IInv => TypeOK
  BY DEF IInv, Good, TypeOK, Typed, Command, Starting
<1>2. IInv => StopReportsAll
  BY DEF IInv, Good, Typed, Accounted, StopReportsAll, Starting
<1>3. QED
  BY <1>1, <1>2

-----------------------------------------------------------------------------
LEMMA OptionsHaveOp ==
  ASSUME NEW c \in Commands, NEW o \in Options[c]
  PROVE  o \in AnyOptions /\ o.op \in {"start", "stop"}
BY OptionsAssumption DEF AnyOptions

\* A command that has just begun is good.
LEMMA FreshGood ==
  ASSUME NEW c \in Commands, NEW o \in Options[c], NEW pc \in {"idle", "gather"},
         NEW others \in SUBSET {"crash", "start", "stop"}
  PROVE  /\ Good(c, Fresh(pc, o, others))
         /\ Good(c, [Fresh(pc, o, others) EXCEPT !.pc = "end", !.ok = FALSE])
BY OptionsHaveOp DEF Fresh, Good, Typed, Accounted, Command, Stages

LEMMA IdleGood ==
  ASSUME NEW c \in Commands
  PROVE  Good(c, Idle(c))
<1>1. Options[c] # {}
  <2>1. Options[c] \in (SUBSET AnyOptions) \ {{}}
    BY OptionsAssumption
  <2>2. QED
    BY <2>1
<1>2. (CHOOSE o \in Options[c] : TRUE) \in Options[c]
  BY <1>1
<1>3. QED
  BY <1>2, FreshGood DEF Idle

\* A step that changes one command's record, and one that changes several.
LEMMA OneGood ==
  ASSUME IInv, NEW c \in Commands, NEW k, Good(c, k), cmd' = [cmd EXCEPT ![c] = k],
         world' \in [Resources -> States]
  PROVE  IInv'
BY DEF IInv, Good, Typed

LEMMA AllGood ==
  ASSUME NEW f, cmd' = [d \in Commands |-> f[d]], \A d \in Commands : Good(d, f[d]),
         world' \in [Resources -> States]
  PROVE  IInv'
BY DEF IInv, Good, Typed

\* Who disturbs a command leaves it good.
LEMMA DisturbGood ==
  ASSUME IInv, NEW d \in Commands, NEW by \in {"crash", "start", "stop"}
  PROVE  Good(d, Disturb(d, by))
<1>1. Good(d, cmd[d])
  BY DEF IInv
<1>2. QED
  BY <1>1 DEF Disturb, Good, Typed, Accounted, Command

LEMMA PartTyped ==
  ASSUME NEW i \in Indices
  PROVE  Res(i) \in Resources /\ Parts[i].stage \in Stages
<1>1. Parts[i] \in AnyPart
  BY PartsAssumption DEF Indices
<1>2. QED
  BY <1>1 DEF AnyPart, Res

\* What Start and Stop make of a resource are states.
LEMMA TypesTyped ==
  ASSUME NEW k \in DOMAIN Types, NEW s \in States
  PROVE  Types[k].start[s] \subseteq States /\ Types[k].stop[s] \subseteq States
<1>1. /\ Apply({})[s] \subseteq States /\ Apply({"coming"})[s] \subseteq States
      /\ Made[s] \subseteq States /\ Delete[s] \subseteq States /\ Keep[s] \subseteq States
  BY DEF Apply, Made, Delete, Keep, States
<1>2. /\ Container.start[s] \subseteq States /\ Container.stop = Delete
  BY DEF Container, States
<1>3. \A t \in {accStatefulSet, accDeployment, PM} : t.start = Apply({"coming"}) /\ t.stop = Delete
  BY DEF accStatefulSet, accDeployment, PM
<1>4. \A t \in {accBatchJob, accService} : t.start = Apply({}) /\ t.stop = Delete
  BY DEF accBatchJob, accService
<1>5. \A t \in {accCronJob, accConfigMap, accSecret} : t.start = Made /\ t.stop = Delete
  BY DEF accCronJob, accConfigMap, accSecret
<1>6. \A t \in {healthClient, accNode, Waiter} : t.start = Keep /\ t.stop = Keep
  BY DEF healthClient, accNode, Waiter
<1>7. accPVC.start = Apply({}) /\ accPVC.stop = Keep
  BY DEF accPVC
<1>8. \A t \in {Volume, InitDBs} : t.start = Made /\ t.stop = Keep
  BY DEF Volume, InitDBs
<1> DEFINE All == {accStatefulSet, accDeployment, PM, accBatchJob, accService, accCronJob,
                   accConfigMap, accSecret, healthClient, accNode, Waiter, accPVC, Volume,
                   InitDBs, Container}
<1>9. \A t \in All : t.start[s] \subseteq States /\ t.stop[s] \subseteq States
  BY <1>1, <1>2, <1>3, <1>4, <1>5, <1>6, <1>7, <1>8
<1>10. Types[k] \in All
  BY DEF Types
<1>11. QED
  BY <1>9, <1>10

\* The world keeps its type.
LEMMA WorldTyped ==
  ASSUME world \in [Resources -> States], NEW r \in Resources
  PROVE  /\ Stopped(r) \subseteq States
         /\ Started(r) \subseteq States
         /\ \A s \in States : Set(r, s) => world' \in [Resources -> States]
<1>1. Kind[r] \in DOMAIN Types /\ world[r] \in States
  BY KindAssumption
<1>2. /\ Types[Kind[r]].start[world[r]] \subseteq States
      /\ Types[Kind[r]].stop[world[r]] \subseteq States
  BY <1>1, TypesTyped
<1>3. Stopped(r) \subseteq States /\ Started(r) \subseteq States
  BY <1>2 DEF Stopped, Started
<1>4. \A s \in States : Set(r, s) => world' \in [Resources -> States]
  BY DEF Set, States
<1>5. QED
  BY <1>3, <1>4

LEMMA FailsTyped ==
  ASSUME world \in [Resources -> States], NEW r \in Resources,
         NEW after \in SUBSET States, Fails(r, after)
  PROVE  world' \in [Resources -> States]
<1>1. CASE UNCHANGED world
  BY <1>1
<1>2. ASSUME NEW s \in after \cup {"down"}, Set(r, s) PROVE world' \in [Resources -> States]
  <2>1. s \in States
    BY <1>2 DEF States
  <2>2. QED
    BY <1>2, <2>1, WorldTyped
<1>3. QED
  BY <1>1, <1>2 DEF Fails

LEMMA Ended ==
  ASSUME IInv, NEW c \in Commands, NEW ok \in BOOLEAN, EndWith(c, ok),
         world' \in [Resources -> States],
         Active(c), cmd[c].busy = {}, cmd[c].sending = {}, cmd[c].chan = {},
         Starting(c) \/ (ok => cmd[c].errs = {})
  PROVE  IInv'
<1> DEFINE k == [cmd[c] EXCEPT !.pc = "end", !.ok = ok, !.left = {}]
<1>1. cmd[c] \in Command /\ Good(c, cmd[c])
  BY DEF IInv
<1>2. Good(c, k)
  BY <1>1 DEF Good, Typed, Accounted, Command, Starting
<1>3. cmd' = [cmd EXCEPT ![c] = k]
  BY DEF EndWith
<1> HIDE DEF k
<1>4. QED
  BY <1>2, <1>3, OneGood

\* A start may end with the resource that failed on record.
LEMMA StartFailed ==
  ASSUME IInv, NEW c \in Commands, Starting(c), cmd[c].pc # "end", NEW failed \in SUBSET Indices,
         world' \in [Resources -> States],
         cmd[c].busy = {}, cmd[c].sending = {}, cmd[c].chan = {},
         cmd' = [cmd EXCEPT ![c].pc = "end", ![c].ok = FALSE, ![c].left = {}, ![c].failed = failed]
  PROVE  IInv'
<1> DEFINE k == [cmd[c] EXCEPT !.pc = "end", !.ok = FALSE, !.left = {}, !.failed = failed]
<1>1. cmd[c] \in Command /\ Good(c, cmd[c])
  BY DEF IInv
<1>2. Good(c, k)
  BY <1>1 DEF Good, Typed, Accounted, Command, Starting
<1>3. cmd' = [cmd EXCEPT ![c] = k]
  OBVIOUS
<1> HIDE DEF k
<1>4. QED
  BY <1>2, <1>3, OneGood

-----------------------------------------------------------------------------
LEMMA InitGood == Init => IInv
<1>1. ASSUME Init PROVE IInv
  <2>1. \A c \in Commands : Good(c, Idle(c))
    BY IdleGood
  <2>2. world \in [Resources -> States]
    BY <1>1 DEF Init, InitWorld, States
  <2>3. QED
    BY <1>1, <2>1, <2>2 DEF Init, IInv, Good, Typed
<1>2. QED
  BY <1>1

\* The steps that are not of a command under way.
LEMMA OutsideGood ==
  ASSUME IInv
  PROVE  /\ \A r \in Resources : Comes(r) \/ Fades(r) \/ Falls(r) => IInv'
         /\ \A c \in Commands : Run(c) \/ Exit(c) => IInv'
<1>1. ASSUME NEW r \in Resources, Comes(r) \/ Fades(r) PROVE IInv'
  <2>1. PICK s \in {"up", "coming"} : Set(r, s)
    BY <1>1 DEF Comes, Fades, Appear, Fade
  <2>2. world' \in [Resources -> States]
    BY <2>1, WorldTyped DEF IInv, States
  <2>3. QED
    BY <1>1, <2>2 DEF Comes, Fades, IInv
<1>2. ASSUME NEW r \in Resources, Falls(r) PROVE IInv'
  <2>1. world' \in [Resources -> States]
    BY <1>2, WorldTyped DEF Falls, Fall, IInv, States
  <2>2. \A d \in Commands : Good(d, Disturb(d, "crash"))
    BY DisturbGood
  <2>3. cmd' = [d \in Commands |-> [e \in Commands |-> Disturb(e, "crash")][d]]
    BY <1>2 DEF Falls
  <2>4. QED
    BY <2>1, <2>2, <2>3, AllGood
<1>3. ASSUME NEW c \in Commands, Run(c) PROVE IInv'
  <2>1. PICK o \in Options[c], prepared \in BOOLEAN :
          LET others == {cmd[d].opts.op : d \in {d \in Commands \ {c} : Active(d)}}
              new    == Fresh("gather", o, others) IN
          cmd' = [d \in Commands |->
                   IF d # c THEN Disturb(d, o.op)
                   ELSE IF prepared THEN new ELSE [new EXCEPT !.pc = "end", !.ok = FALSE]]
    BY <1>3 DEF Run
  <2> DEFINE others == {cmd[d].opts.op : d \in {d \in Commands \ {c} : Active(d)}}
             new    == Fresh("gather", o, others)
             f      == [d \in Commands |->
                         IF d # c THEN Disturb(d, o.op)
                         ELSE IF prepared THEN new ELSE [new EXCEPT !.pc = "end", !.ok = FALSE]]
  <2>2. others \in SUBSET {"crash", "start", "stop"}
    <3>1. \A d \in Commands : cmd[d].opts \in Options[d]
      BY DEF IInv, Good, Typed
    <3>2. \A d \in Commands : cmd[d].opts.op \in {"start", "stop"}
      BY <3>1, OptionsHaveOp
    <3>3. QED
      BY <3>2
  <2>3. Good(c, f[c])
    BY <2>2, FreshGood
  <2>4. \A d \in Commands \ {c} : Good(d, f[d])
    BY OptionsHaveOp, DisturbGood
  <2>5. cmd' = f
    BY <2>1
  <2>6. world' \in [Resources -> States]
    BY <1>3 DEF Run, IInv
  <2> HIDE DEF f
  <2>7. cmd' = [d \in Commands |-> f[d]]
    BY <2>5 DEF f
  <2>8. \A d \in Commands : Good(d, f[d])
    BY <2>3, <2>4
  <2>9. QED
    BY <2>6, <2>7, <2>8, AllGood
<1>4. ASSUME NEW c \in Commands, Exit(c) PROVE IInv'
  <2>1. world' \in [Resources -> States]
    BY <1>4 DEF Exit, IInv
  <2>2. QED
    BY <1>4, <2>1, IdleGood, OneGood DEF Exit
<1>5. QED
  BY <1>1, <1>2, <1>3, <1>4

\* A start has no goroutines.
LEMMA StartIsAlone ==
  ASSUME IInv, NEW c \in Commands, Starting(c) \/ cmd[c].pc = "look"
  PROVE  Starting(c) /\ cmd[c].busy = {} /\ cmd[c].sending = {} /\ cmd[c].chan = {}
BY DEF IInv, Good, Typed, Accounted, Starting

\* Only "left" and where the command is changes.
LEMMA OnlyLeft ==
  ASSUME IInv, NEW c \in Commands, NEW pc \in {"gather", "act", "look"}, NEW stage \in Stages,
         NEW left \in SUBSET Indices, world' \in [Resources -> States], cmd[c].pc # "end",
         pc = "look" => Starting(c),
         pc = "act" \/ (cmd[c].busy = {} /\ cmd[c].sending = {} /\ cmd[c].chan = {}),
         cmd' = [cmd EXCEPT ![c] = [cmd[c] EXCEPT !.pc = pc, !.stage = stage, !.left = left]]
  PROVE  IInv'
<1> DEFINE k == [cmd[c] EXCEPT !.pc = pc, !.stage = stage, !.left = left]
<1>1. cmd[c] \in Command /\ Good(c, cmd[c])
  BY DEF IInv
<1>2. Good(c, k)
  BY <1>1 DEF Good, Typed, Accounted, Command, Starting
<1> HIDE DEF k
<1>3. QED
  BY <1>2, OneGood DEF k

LEMMA AtTyped ==
  /\ \A stage \in Stages : At(stage) \in SUBSET Indices
  /\ \A c \in Commands : IInv => cmd[c].left \subseteq Indices /\ cmd[c].stage \in Stages
                                  /\ cmd[c] \in Command
BY DEF At, IInv, Command

LEMMA StartGood ==
  ASSUME IInv, NEW c \in Commands,
         StartGather(c) \/ StartNext(c) \/ StartedAll(c)
  PROVE  IInv'
<1>1. cmd[c] \in Command /\ cmd[c].stage \in Stages /\ cmd[c].left \subseteq Indices
  BY AtTyped
<1>2. Starting(c)
  BY DEF StartGather, StartNext, StartedAll
<1>3. cmd[c].busy = {} /\ cmd[c].sending = {} /\ cmd[c].chan = {}
  BY <1>2, StartIsAlone
<1>4. CASE StartGather(c)
  <2>1. world' \in [Resources -> States]
    BY <1>4 DEF StartGather, IInv
  <2>2. CASE cmd' = [cmd EXCEPT ![c].pc = "act", ![c].left = At(cmd[c].stage)]
    <3>1. cmd' = [cmd EXCEPT ![c] = [cmd[c] EXCEPT !.pc = "act", !.stage = cmd[c].stage,
                                                  !.left = At(cmd[c].stage)]]
      BY <1>1, <2>2 DEF Command
    <3>2. QED
      BY <1>1, <1>3, <1>4, <2>1, <3>1, AtTyped, OnlyLeft DEF StartGather
  <2>3. ASSUME NEW i \in At(cmd[c].stage),
               cmd' = [cmd EXCEPT ![c].pc = "end", ![c].ok = FALSE, ![c].left = {},
                                  ![c].failed = {i}]
        PROVE  IInv'
    <3>1. {i} \in SUBSET Indices /\ cmd[c].pc # "end"
      BY <1>1, <1>4, AtTyped DEF StartGather
    <3>2. QED
      BY <1>2, <1>3, <2>1, <2>3, <3>1, StartFailed
  <2>4. QED
    BY <1>4, <2>2, <2>3 DEF StartGather
<1>5. CASE StartNext(c)
  <2>1. PICK i \in First(c) :
          LET r     == Res(i)
              anti  == IsAnti(cmd[c].opts, i)
              after == IF anti THEN Stopped(r) ELSE Started(r) IN
          \/ /\ \E s \in after : Set(r, s)
             /\ cmd' = [cmd EXCEPT ![c].left = @ \ {i}]
          \/ /\ Fails(r, after)
             /\ cmd' = [cmd EXCEPT ![c].pc = "end", ![c].ok = FALSE, ![c].left = {},
                                   ![c].failed = IF r \in Faulty THEN {i} ELSE {}]
    BY <1>5 DEF StartNext
  <2> DEFINE after  == IF IsAnti(cmd[c].opts, i) THEN Stopped(Res(i)) ELSE Started(Res(i))
             failed == IF Res(i) \in Faulty THEN {i} ELSE {}
  <2>2. Res(i) \in Resources
    BY <1>1, PartTyped DEF First
  <2>3. after \in SUBSET States
    BY <2>2, WorldTyped DEF IInv
  <2> HIDE DEF after
  <2>4. \/ /\ \E s \in after : Set(Res(i), s)
           /\ cmd' = [cmd EXCEPT ![c].left = @ \ {i}]
        \/ /\ Fails(Res(i), after)
           /\ cmd' = [cmd EXCEPT ![c].pc = "end", ![c].ok = FALSE, ![c].left = {},
                                 ![c].failed = failed]
    BY <2>1 DEF after
  <2>5. world' \in [Resources -> States]
    <3>1. CASE \E s \in after : Set(Res(i), s)
      BY <2>2, <2>3, <3>1, WorldTyped DEF IInv
    <3>2. CASE Fails(Res(i), after)
      BY <2>2, <2>3, <3>2, FailsTyped DEF IInv
    <3>3. QED
      BY <2>4, <3>1, <3>2
  <2>6. CASE cmd' = [cmd EXCEPT ![c].left = @ \ {i}]
    <3>1. cmd' = [cmd EXCEPT ![c] = [cmd[c] EXCEPT !.pc = "act", !.stage = cmd[c].stage,
                                                  !.left = cmd[c].left \ {i}]]
      <4>1. cmd[c].pc = "act"
        BY <1>5 DEF StartNext
      <4>2. QED
        BY <1>1, <2>6, <4>1 DEF Command
    <3>2. cmd[c].left \ {i} \in SUBSET Indices
      BY <1>1
    <3>3. QED
      BY <1>1, <1>3, <1>5, <2>5, <3>1, <3>2, OnlyLeft DEF StartNext
  <2>7. CASE cmd' = [cmd EXCEPT ![c].pc = "end", ![c].ok = FALSE, ![c].left = {},
                                ![c].failed = failed]
    <3>1. failed \in SUBSET Indices
      BY <1>1 DEF First
    <3>2. cmd[c].pc # "end"
      BY <1>5 DEF StartNext
    <3> HIDE DEF failed
    <3>3. QED
      BY <1>2, <1>3, <2>5, <2>7, <3>1, <3>2, StartFailed
  <2>8. QED
    BY <2>4, <2>6, <2>7
<1>6. CASE StartedAll(c)
  <2>1. world' \in [Resources -> States]
    BY <1>6 DEF StartedAll, IInv
  <2>2. CASE cmd' = [cmd EXCEPT ![c].pc = "gather", ![c].stage = "stack"]
    <3>1. cmd' = [cmd EXCEPT ![c] = [cmd[c] EXCEPT !.pc = "gather", !.stage = "stack",
                                                  !.left = cmd[c].left]]
      BY <1>1, <2>2 DEF Command
    <3>2. cmd[c].pc # "end" /\ "stack" \in Stages
      BY <1>6 DEF StartedAll, Stages
    <3>3. QED
      BY <1>1, <1>3, <2>1, <3>1, <3>2, OnlyLeft
  <2>3. CASE cmd' = [cmd EXCEPT ![c].pc = "look", ![c].left = At("stack")]
    <3>1. cmd' = [cmd EXCEPT ![c] = [cmd[c] EXCEPT !.pc = "look", !.stage = cmd[c].stage,
                                                  !.left = At("stack")]]
      BY <1>1, <2>3 DEF Command
    <3>2. cmd[c].pc # "end" /\ At("stack") \in SUBSET Indices
      BY <1>6, AtTyped DEF StartedAll, Stages
    <3>3. QED
      BY <1>1, <1>2, <1>3, <2>1, <3>1, <3>2, OnlyLeft
  <2>4. CASE EndWith(c, TRUE)
    BY <1>2, <1>3, <1>6, <2>1, <2>4, Ended DEF StartedAll, Active
  <2>5. QED
    BY <1>6, <2>2, <2>3, <2>4 DEF StartedAll
<1>7. QED
  BY <1>4, <1>5, <1>6

LEMMA LookGood ==
  ASSUME IInv, NEW c \in Commands,
         Look(c) \/ LookFails(c) \/ LookedAtAll(c)
  PROVE  IInv'
<1>1. cmd[c] \in Command /\ cmd[c].stage \in Stages /\ cmd[c].left \subseteq Indices
  BY AtTyped
<1>2. cmd[c].pc = "look" /\ UNCHANGED world
  BY DEF Look, LookFails, LookedAtAll
<1>3. Starting(c) /\ cmd[c].busy = {} /\ cmd[c].sending = {} /\ cmd[c].chan = {}
  BY <1>2, StartIsAlone
<1>4. world' \in [Resources -> States]
  BY <1>2 DEF IInv
<1>5. ASSUME NEW i \in First(c), cmd' = [cmd EXCEPT ![c].left = @ \ {i}] PROVE IInv'
  <2>1. cmd' = [cmd EXCEPT ![c] = [cmd[c] EXCEPT !.pc = "look", !.stage = cmd[c].stage,
                                                !.left = cmd[c].left \ {i}]]
    BY <1>1, <1>2, <1>5 DEF Command
  <2>2. cmd[c].left \ {i} \in SUBSET Indices
    BY <1>1
  <2>3. QED
    BY <1>1, <1>2, <1>3, <1>4, <2>1, <2>2, OnlyLeft
<1>6. ASSUME NEW ok \in BOOLEAN, EndWith(c, ok) PROVE IInv'
  BY <1>2, <1>3, <1>4, <1>6, Ended DEF Active
<1>7. ASSUME NEW i \in First(c),
             cmd' = [cmd EXCEPT ![c].pc = "end", ![c].ok = FALSE, ![c].left = {},
                                ![c].failed = {i}]
      PROVE  IInv'
  <2>1. {i} \in SUBSET Indices
    BY <1>1 DEF First
  <2>2. QED
    BY <1>2, <1>3, <1>4, <1>7, <2>1, StartFailed
<1>8. QED
  BY <1>5, <1>6, <1>7 DEF Look, LookFails, LookedAtAll

LEMMA StopGood ==
  ASSUME IInv, NEW c \in Commands,
         StopGather(c) \/ Launch(c) \/ Receive(c) \/ StoppedAll(c)
  PROVE  IInv'
<1>1. cmd[c] \in Command /\ cmd[c].stage \in Stages /\ Good(c, cmd[c])
  BY AtTyped DEF IInv
<1>2. UNCHANGED world /\ world' \in [Resources -> States]
  BY DEF StopGather, Launch, Receive, StoppedAll, IInv
<1>3. CASE StopGather(c)
  <2>1. PICK bad \in SUBSET {i \in InScope(c) : Res(i) \in Faulty} :
          cmd' = [cmd EXCEPT ![c].pc = "act", ![c].left = InScope(c) \ bad,
                             ![c].errs = @ \cup bad, ![c].failed = @ \cup bad]
    BY <1>3 DEF StopGather
  <2>2. InScope(c) \subseteq Indices
    BY <1>1, AtTyped DEF InScope
  <2> DEFINE k == [cmd[c] EXCEPT !.pc = "act", !.left = InScope(c) \ bad,
                                 !.errs = @ \cup bad, !.failed = @ \cup bad]
  <2>3. Good(c, k)
    BY <1>1, <1>3, <2>2 DEF Good, Typed, Accounted, Command, StopGather, Starting
  <2>4. QED
    BY <1>2, <2>1, <2>3, OneGood
<1>4. CASE Launch(c)
  <2>1. PICK i \in Last(c) :
          cmd' = [cmd EXCEPT ![c].left = @ \ {i}, ![c].busy = @ \cup {i}]
    BY <1>4 DEF Launch
  <2> DEFINE k == [cmd[c] EXCEPT !.left = @ \ {i}, !.busy = @ \cup {i}]
  <2>2. Good(c, k)
    BY <1>1, <1>4 DEF Good, Typed, Accounted, Command, Launch, Last, Starting
  <2>3. QED
    BY <1>2, <2>1, <2>2, OneGood
<1>5. CASE Receive(c)
  <2> DEFINE k == [cmd[c] EXCEPT !.errs = @ \cup cmd[c].chan, !.chan = {}]
  <2>1. Good(c, k)
    BY <1>1, <1>5 DEF Good, Typed, Accounted, Command, Receive, Starting
  <2>2. cmd' = [cmd EXCEPT ![c] = k]
    BY <1>5 DEF Receive
  <2>3. QED
    BY <1>2, <2>1, <2>2, OneGood
<1>6. CASE StoppedAll(c)
  <2>1. cmd[c].busy = {} /\ cmd[c].sending = {} /\ cmd[c].chan = {} /\ cmd[c].pc = "act"
    BY <1>6 DEF StoppedAll, Running
  <2>2. CASE cmd' = [cmd EXCEPT ![c].pc = "gather", ![c].stage = "infrastructure"]
    <3>1. cmd' = [cmd EXCEPT ![c] = [cmd[c] EXCEPT !.pc = "gather", !.stage = "infrastructure",
                                                  !.left = cmd[c].left]]
      BY <1>1, <2>2 DEF Command
    <3>2. "infrastructure" \in Stages /\ cmd[c].left \in SUBSET Indices
      BY <1>1 DEF Stages, Command
    <3>3. QED
      BY <1>2, <2>1, <3>1, <3>2, OnlyLeft
  <2>3. CASE EndWith(c, cmd[c].errs = {})
    BY <1>1, <1>2, <2>1, <2>3, Ended DEF Active
  <2>4. QED
    BY <1>6, <2>2, <2>3 DEF StoppedAll
<1>7. QED
  BY <1>3, <1>4, <1>5, <1>6

LEMMA GoroutineGood ==
  ASSUME IInv, NEW c \in Commands, NEW i \in Indices, StopReturns(c, i) \/ Send(c, i)
  PROVE  IInv'
<1>1. cmd[c] \in Command /\ Good(c, cmd[c])
  BY AtTyped DEF IInv
<1>2. Res(i) \in Resources /\ world \in [Resources -> States]
  BY PartTyped DEF IInv
<1>3. CASE StopReturns(c, i)
  <2>1. Stopped(Res(i)) \in SUBSET States
    BY <1>2, WorldTyped
  <2>2. world' \in [Resources -> States]
    <3>1. ASSUME NEW t \in Stopped(Res(i)), Set(Res(i), t) PROVE world' \in [Resources -> States]
      BY <1>2, <2>1, <3>1, WorldTyped
    <3>2. CASE Fails(Res(i), Stopped(Res(i)))
      BY <1>2, <2>1, <3>2, FailsTyped
    <3>3. QED
      BY <1>3, <3>1, <3>2 DEF StopReturns
  <2> DEFINE done   == [cmd[c] EXCEPT !.busy = @ \ {i}]
             failed == [cmd[c] EXCEPT !.busy = @ \ {i}, !.sending = @ \cup {i},
                                      !.failed = @ \cup {i}]
  <2>3. Good(c, done) /\ Good(c, failed)
    BY <1>1, <1>3 DEF Good, Typed, Accounted, Command, StopReturns
  <2>4. cmd' = [cmd EXCEPT ![c] = done] \/ cmd' = [cmd EXCEPT ![c] = failed]
    BY <1>3 DEF StopReturns
  <2> HIDE DEF done, failed
  <2>5. QED
    BY <2>2, <2>3, <2>4, OneGood
<1>4. CASE Send(c, i)
  <2> DEFINE k == [cmd[c] EXCEPT !.sending = @ \ {i}, !.chan = {i}]
  <2>1. Good(c, k)
    <3>1. i \in cmd[c].sending /\ cmd[c].chan = {}
      BY <1>4 DEF Send
    <3>2. Typed(c, k)
      BY <1>1, <3>1 DEF Good, Typed, Command
    <3>3. k.errs \cup k.sending \cup k.chan = cmd[c].errs \cup cmd[c].sending \cup cmd[c].chan
      BY <1>1, <3>1 DEF Command
    <3>4. Accounted(k)
      BY <1>1, <3>3 DEF Good, Accounted, Command
    <3>5. QED
      BY <3>2, <3>4 DEF Good
  <2>2. cmd' = [cmd EXCEPT ![c] = k] /\ world' \in [Resources -> States]
    BY <1>2, <1>4 DEF Send
  <2> HIDE DEF k
  <2>3. QED
    BY <2>1, <2>2, OneGood
<1>5. QED
  BY <1>3, <1>4

LEMMA NextGood == IInv /\ [Next]_vars => IInv'
<1>1. ASSUME IInv, Next PROVE IInv'
  <2>1. ASSUME NEW c \in Commands, Run(c) \/ Step(c) \/ LookFails(c) \/ Exit(c) PROVE IInv'
    <3>1. CASE Step(c)
      BY <1>1, <3>1, StartGood, LookGood, StopGood, GoroutineGood DEF Step
    <3>2. QED
      BY <1>1, <2>1, <3>1, OutsideGood, LookGood
  <2>2. QED
    BY <1>1, <2>1, OutsideGood DEF Next
<1>2. ASSUME IInv, UNCHANGED vars PROVE IInv'
  BY <1>2 DEF IInv
<1>3. QED
  BY <1>1, <1>2

-----------------------------------------------------------------------------
\* The state of the world and of every command has its type; the channel of a stop
\* never holds more than it has room for, and only a stop that is at work has
\* goroutines.
THEOREM TypeCorrect == Spec => []TypeOK
<1>1. Spec => []IInv
  BY InitGood, NextGood, PTL DEF Spec
<1>2. QED
  BY <1>1, IInvMeans, PTL

\* Whatever number of resources a stop has, in parallel or not, and in whatever order
\* their goroutines end and send: StopServices (stop.go:67-132) loses no error, reports
\* none that did not occur, and succeeds only if there was none.
THEOREM StopReportsAllCorrect == Spec => []StopReportsAll
<1>1. Spec => []IInv
  BY InitGood, NextGood, PTL DEF Spec
<1>2. QED
  BY <1>1, IInvMeans, PTL

-----------------------------------------------------------------------------
(***************************************************************************)
(* What a step does to the commands, its own and the others.               *)
(***************************************************************************)

\* What a step of others leaves of a command: all but the record of who disturbed it.
Kept(c) ==
  /\ cmd'[c].pc = cmd[c].pc /\ cmd'[c].opts = cmd[c].opts /\ cmd'[c].stage = cmd[c].stage
  /\ cmd'[c].left = cmd[c].left /\ cmd'[c].busy = cmd[c].busy
  /\ cmd'[c].failed = cmd[c].failed
  /\ cmd[c].disturbed \subseteq cmd'[c].disturbed

LEMMA SameKept ==
  ASSUME NEW c \in Commands, cmd'[c] = cmd[c]
  PROVE  Kept(c)
BY DEF Kept

LEMMA DisturbKept ==
  ASSUME IInv, NEW c \in Commands, NEW by \in {"crash", "start", "stop"},
         cmd'[c] = Disturb(c, by)
  PROVE  Kept(c) /\ (Active(c) => by \in cmd'[c].disturbed)
<1>1. cmd[c] \in Command
  BY DEF IInv
<1>2. CASE Active(c)
  <2>1. cmd'[c] = [cmd[c] EXCEPT !.disturbed = @ \cup {by}]
    BY <1>2 DEF Disturb
  <2>2. cmd'[c].disturbed = cmd[c].disturbed \cup {by}
    BY <1>1, <2>1 DEF Command
  <2>3. /\ cmd'[c].pc = cmd[c].pc /\ cmd'[c].opts = cmd[c].opts
        /\ cmd'[c].stage = cmd[c].stage /\ cmd'[c].left = cmd[c].left
        /\ cmd'[c].busy = cmd[c].busy /\ cmd'[c].failed = cmd[c].failed
    BY <1>1, <2>1 DEF Command
  <2>4. QED
    BY <2>2, <2>3 DEF Kept
<1>3. CASE ~Active(c)
  <2>1. cmd'[c] = cmd[c]
    BY <1>3 DEF Disturb
  <2>2. QED
    BY <1>3, <2>1 DEF Kept
<1>4. QED
  BY <1>2, <1>3

\* A step of a command.
LEMMA StepFrame ==
  ASSUME IInv, NEW c \in Commands, Step(c) \/ LookFails(c)
  PROVE  /\ Active(c)
         /\ cmd'[c].opts = cmd[c].opts /\ cmd'[c].disturbed = cmd[c].disturbed
         /\ \A d \in Commands \ {c} : cmd'[d] = cmd[d]
<1>1. cmd \in [Commands -> Command] /\ cmd[c] \in Command /\ Good(c, cmd[c])
  BY DEF IInv
<1>2. CASE StartGather(c) \/ StartNext(c) \/ StartedAll(c)
  BY <1>1, <1>2 DEF StartGather, StartNext, StartedAll, EndWith, Active, Command
<1>3. CASE Look(c) \/ LookFails(c) \/ LookedAtAll(c)
  BY <1>1, <1>3 DEF Look, LookFails, LookedAtAll, EndWith, Active, Command
<1>4. CASE StopGather(c) \/ Launch(c) \/ StoppedAll(c)
  <2>1. CASE StopGather(c)
    BY <1>1, <2>1 DEF StopGather, Active, Command
  <2>2. CASE Launch(c)
    BY <1>1, <2>2 DEF Launch, Active, Command
  <2>3. CASE StoppedAll(c)
    <3>1. /\ cmd[c].pc = "act"
          /\ \/ cmd' = [cmd EXCEPT ![c].pc = "gather", ![c].stage = "infrastructure"]
             \/ EndWith(c, cmd[c].errs = {})
      BY <2>3 DEF StoppedAll
    <3>2. CASE cmd' = [cmd EXCEPT ![c].pc = "gather", ![c].stage = "infrastructure"]
      BY <1>1, <3>1, <3>2 DEF Active, Command
    <3>3. CASE EndWith(c, cmd[c].errs = {})
      <4>1. PICK ok \in BOOLEAN : ok = (cmd[c].errs = {})
        OBVIOUS
      <4>2. cmd' = [cmd EXCEPT ![c].pc = "end", ![c].ok = ok, ![c].left = {}]
        BY <3>3, <4>1 DEF EndWith
      <4>3. QED
        BY <1>1, <3>1, <4>2 DEF Active, Command
    <3>4. QED
      BY <3>1, <3>2, <3>3
  <2>4. QED
    BY <1>4, <2>1, <2>2, <2>3
<1>5. CASE Receive(c)
  <2>1. cmd[c].pc = "act"
    BY <1>1, <1>5 DEF Receive, Good, Typed
  <2>2. QED
    BY <1>1, <1>5, <2>1 DEF Receive, Active, Command
<1>6. ASSUME NEW i \in Indices, StopReturns(c, i) \/ Send(c, i)
      PROVE  /\ Active(c)
             /\ cmd'[c].opts = cmd[c].opts /\ cmd'[c].disturbed = cmd[c].disturbed
             /\ \A d \in Commands \ {c} : cmd'[d] = cmd[d]
  <2>1. cmd[c].pc = "act"
    BY <1>1, <1>6 DEF StopReturns, Send, Good, Typed
  <2>2. QED
    BY <1>1, <1>6, <2>1 DEF StopReturns, Send, Active, Command
<1>7. QED
  BY <1>2, <1>3, <1>4, <1>5, <1>6 DEF Step

\* A command that begins.
LEMMA RunFrame ==
  ASSUME IInv, NEW c \in Commands, Run(c)
  PROVE  /\ cmd[c].pc = "idle" /\ UNCHANGED world
         /\ cmd'[c].pc \in {"gather", "end"} /\ cmd'[c].opts \in Options[c]
         /\ cmd'[c].left = {} /\ cmd'[c].busy = {}
         /\ cmd'[c].stage = IF cmd'[c].opts.op = "start" THEN "infrastructure" ELSE "stack"
         /\ \A d \in Commands \ {c} :
              /\ Kept(d)
              /\ Active(d) => /\ cmd'[c].opts.op \in cmd'[d].disturbed
                              /\ cmd[d].opts.op \in cmd'[c].disturbed
<1>1. PICK o \in Options[c], prepared \in BOOLEAN :
        LET others == {cmd[d].opts.op : d \in {d \in Commands \ {c} : Active(d)}}
            new    == Fresh("gather", o, others) IN
        cmd' = [d \in Commands |->
                 IF d # c THEN Disturb(d, o.op)
                 ELSE IF prepared THEN new ELSE [new EXCEPT !.pc = "end", !.ok = FALSE]]
  BY DEF Run
<1> DEFINE others == {cmd[d].opts.op : d \in {d \in Commands \ {c} : Active(d)}}
           new    == Fresh("gather", o, others)
<1>2. cmd'[c] = new \/ cmd'[c] = [new EXCEPT !.pc = "end", !.ok = FALSE]
  BY <1>1
<1>3. \A d \in Commands \ {c} : cmd'[d] = Disturb(d, o.op)
  BY <1>1
<1>4. /\ cmd'[c].pc \in {"gather", "end"} /\ cmd'[c].opts = o
      /\ cmd'[c].left = {} /\ cmd'[c].busy = {}
      /\ cmd'[c].stage = IF o.op = "start" THEN "infrastructure" ELSE "stack"
      /\ cmd'[c].disturbed = others
  <2> HIDE DEF others
  <2>1. CASE cmd'[c] = new
    BY <2>1 DEF Fresh
  <2>2. CASE cmd'[c] = [new EXCEPT !.pc = "end", !.ok = FALSE]
    BY <2>2 DEF Fresh
  <2>3. QED
    BY <1>2, <2>1, <2>2
<1>5. o.op \in {"crash", "start", "stop"}
  BY OptionsHaveOp
<1>6. ASSUME NEW d \in Commands \ {c}
      PROVE  /\ Kept(d)
             /\ Active(d) => o.op \in cmd'[d].disturbed /\ cmd[d].opts.op \in others
  BY <1>3, <1>5, DisturbKept
<1>7. cmd[c].pc = "idle" /\ UNCHANGED world
  BY DEF Run
<1> HIDE DEF others
<1>8. QED
  BY <1>4, <1>6, <1>7

LEMMA ExitFrame ==
  ASSUME IInv, NEW c \in Commands, Exit(c)
  PROVE  cmd'[c].pc = "idle" /\ UNCHANGED world /\ \A d \in Commands \ {c} : cmd'[d] = cmd[d]
BY DEF Exit, Idle, Fresh, IInv

\* What is not a step of a command's own keeps it.
LEMMA Frame ==
  ASSUME IInv, [Next]_vars, NEW c \in Commands
  PROVE  Step(c) \/ LookFails(c) \/ Run(c) \/ Exit(c) \/ Kept(c)
<1>1. CASE UNCHANGED vars
  BY <1>1, SameKept
<1>2. ASSUME NEW r \in Resources, Comes(r) \/ Fades(r) \/ Falls(r)
      PROVE  Kept(c)
  <2>1. CASE Comes(r) \/ Fades(r)
    BY <2>1, SameKept DEF Comes, Fades
  <2>2. CASE Falls(r)
    <3>1. cmd'[c] = Disturb(c, "crash")
      BY <2>2 DEF Falls
    <3>2. QED
      BY <3>1, DisturbKept
  <2>3. QED
    BY <1>2, <2>1, <2>2
<1>3. ASSUME NEW d \in Commands \ {c}, Run(d) \/ Step(d) \/ LookFails(d) \/ Exit(d)
      PROVE  Kept(c)
  <2>1. CASE Run(d)
    BY <2>1, RunFrame
  <2>2. CASE Step(d) \/ LookFails(d) \/ Exit(d)
    <3>1. cmd'[c] = cmd[c]
      BY <2>2, StepFrame, ExitFrame
    <3>2. QED
      BY <3>1, SameKept
  <2>3. QED
    BY <1>3, <2>1, <2>2
<1>4. QED
  BY <1>1, <1>2, <1>3 DEF Next

\* Two commands under way know of each other.
Overlap ==
  \A c, d \in Commands :
    c # d /\ Active(c) /\ Active(d) => cmd[d].opts.op \in cmd[c].disturbed

LEMMA OverlapStep == IInv /\ Overlap /\ [Next]_vars => Overlap'
<1> SUFFICES ASSUME IInv, Overlap, [Next]_vars,
                    NEW c \in Commands, NEW d \in Commands, c # d, Active(c)', Active(d)'
             PROVE  cmd'[d].opts.op \in cmd'[c].disturbed
  BY DEF Overlap
<1>1. CASE Run(c)
  <2>1. cmd'[d].opts = cmd[d].opts /\ Active(d)
    BY <1>1, RunFrame DEF Kept, Active
  <2>2. QED
    BY <1>1, <2>1, RunFrame
<1>2. CASE Run(d)
  <2>1. Active(c)
    BY <1>2, RunFrame DEF Kept, Active
  <2>2. QED
    BY <1>2, <2>1, RunFrame
<1>3. CASE ~Run(c) /\ ~Run(d)
  <2>1. \A e \in {c, d} :
          Active(e) /\ cmd'[e].opts = cmd[e].opts /\ cmd[e].disturbed \subseteq cmd'[e].disturbed
    <3>1. ASSUME NEW e \in {c, d}
          PROVE  Active(e) /\ cmd'[e].opts = cmd[e].opts
                 /\ cmd[e].disturbed \subseteq cmd'[e].disturbed
      <4>1. CASE Step(e) \/ LookFails(e)
        BY <4>1, StepFrame
      <4>2. CASE Exit(e)
        BY <4>2, ExitFrame DEF Active
      <4>3. CASE Kept(e)
        BY <4>3 DEF Kept, Active
      <4>4. QED
        BY <1>3, <4>1, <4>2, <4>3, Frame
    <3>2. QED
      BY <3>1
  <2>2. QED
    BY <2>1 DEF Overlap
<1>4. QED
  BY <1>1, <1>2, <1>3

-----------------------------------------------------------------------------
(***************************************************************************)
(* What calls make of a resource.                                          *)
(***************************************************************************)

\* Stop deletes a resource or, of the lasting kinds and of kubernetes itself, keeps it.
LEMMA StopOfType ==
  ASSUME NEW k \in DOMAIN Types
  PROVE  /\ k \notin Lasting \cup Cluster => Types[k].stop = Delete
         /\ k \in Lasting \cup Cluster => Types[k].stop = Keep
<1>1. CASE k \in {"statefulset", "deployment", "job", "cronjob", "configmap", "secret"}
  BY <1>1 DEF Types, accStatefulSet, accDeployment, accBatchJob, accCronJob, accConfigMap,
              accSecret, Lasting, Cluster
<1>2. CASE k \in {"service", "process", "container"}
  BY <1>2 DEF Types, accService, PM, Container, Lasting, Cluster
<1>3. CASE k \in {"claim", "volume", "databases", "waiter", "api", "node"}
  BY <1>3 DEF Types, accPVC, Volume, InitDBs, Waiter, healthClient, accNode, Lasting, Cluster
<1>4. QED
  BY <1>1, <1>2, <1>3 DEF Types

\* What is down is not up for having been stopped.
LEMMA StoppedIs ==
  ASSUME world \in [Resources -> States], NEW r \in Resources
  PROVE  /\ Kind[r] \notin Lasting \cup Cluster => Stopped(r) \subseteq {"down"}
         /\ Stopped(r) \subseteq {"down", world[r]}
<1>1. Kind[r] \in DOMAIN Types /\ world[r] \in States
  BY KindAssumption
<1>2. Delete[world[r]] = {"down"} /\ Keep[world[r]] = {world[r]}
  BY <1>1 DEF Delete, Keep
<1>3. CASE Kind[r] \notin Lasting \cup Cluster
  <2>1. Types[Kind[r]].stop = Delete
    BY <1>1, <1>3, StopOfType
  <2>2. QED
    BY <1>2, <2>1 DEF Stopped
<1>4. CASE Kind[r] \in Lasting \cup Cluster
  <2>1. Types[Kind[r]].stop = Keep
    BY <1>1, <1>4, StopOfType
  <2>2. QED
    BY <1>2, <1>4, <2>1 DEF Stopped
<1>5. QED
  BY <1>3, <1>4

\* Kubernetes aside, a call is about one resource.
LEMMA SetOne ==
  ASSUME world \in [Resources -> States], NEW r \in Resources, NEW t, Set(r, t)
  PROVE  /\ world'[r] = t
         /\ \A q \in Resources : q # r /\ Kind[q] \notin Cluster => world'[q] = world[q]
BY DEF Set

\* What is down stays down unless it is started.
LEMMA DownStays ==
  ASSUME IInv, [Next]_vars, \A c \in Commands : ~StartNext(c),
         NEW q \in Resources, Kind[q] \notin Cluster, world[q] = "down"
  PROVE  world'[q] = "down"
<1>1. world \in [Resources -> States]
  BY DEF IInv
<1>2. CASE UNCHANGED world
  BY <1>2
<1>3. ASSUME NEW r \in Resources, Comes(r) \/ Fades(r) \/ Falls(r)
      PROVE  world'[q] = "down"
  <2>1. /\ world[r] # "down"
        /\ Set(r, "up") \/ Set(r, "coming")
    BY <1>3 DEF Comes, Fades, Falls, Appear, Fade, Fall
  <2>2. PICK t \in {"up", "coming"} : Set(r, t)
    BY <2>1
  <2>3. QED
    BY <1>1, <2>1, <2>2, SetOne
<1>4. ASSUME NEW c \in Commands, NEW i \in Indices, StopReturns(c, i)
      PROVE  world'[q] = "down"
  <2>1. Res(i) \in Resources
    BY PartTyped
  <2>2. UNCHANGED world \/ \E t \in Stopped(Res(i)) \cup {"down"} : Set(Res(i), t)
    BY <1>4 DEF StopReturns, Fails
  <2>3. ASSUME NEW t \in Stopped(Res(i)) \cup {"down"}, Set(Res(i), t)
        PROVE  world'[q] = "down"
    <3>1. t \in {"down", world[Res(i)]}
      BY <1>1, <2>1, <2>3, StoppedIs
    <3>2. QED
      BY <1>1, <2>1, <2>3, <3>1, SetOne
  <2>4. QED
    BY <2>2, <2>3
<1>5. ASSUME NEW c \in Commands, Run(c) \/ Exit(c) \/ LookFails(c)
      PROVE  UNCHANGED world
  BY <1>5 DEF Run, Exit, LookFails
<1>6. ASSUME NEW c \in Commands, Step(c)
      PROVE  world'[q] = "down"
  <2>1. CASE StartGather(c) \/ StartedAll(c) \/ Look(c) \/ LookedAtAll(c)
    BY <1>2, <2>1 DEF StartGather, StartedAll, Look, LookedAtAll
  <2>2. CASE StopGather(c) \/ Launch(c) \/ Receive(c) \/ StoppedAll(c)
    BY <1>2, <2>2 DEF StopGather, Launch, Receive, StoppedAll
  <2>3. ASSUME NEW i \in Indices, Send(c, i)
        PROVE  UNCHANGED world
    BY <2>3 DEF Send
  <2>4. QED
    BY <1>2, <1>4, <1>6, <2>1, <2>2, <2>3 DEF Step
<1>7. QED
  BY <1>2, <1>3, <1>5, <1>6 DEF Next

-----------------------------------------------------------------------------
(***************************************************************************)
(* A stop.                                                                 *)
(***************************************************************************)

\* What the stop of a part comes to.
Gone(i) == Kind[Res(i)] \in Lasting \/ world[Res(i)] = "down"

\* What a stop has left and has goroutines for is of its stage, from the end to the
\* front, one at a time unless in parallel.
StopOrder(c) ==
  /\ cmd[c].pc = "act" => cmd[c].left \cup cmd[c].busy \subseteq InScope(c)
  /\ ~cmd[c].opts.parallel =>
       /\ \A i, j \in cmd[c].busy : i = j
       /\ \A i \in cmd[c].left, j \in cmd[c].busy : i < j

\* While nothing is started: the parts of the stage before are gone, and those of this
\* stage that it is done with and that did not fail.
StopWorks(c) ==
  "start" \notin cmd[c].disturbed =>
    /\ cmd[c].stage = "infrastructure" =>
         \A i \in At("stack") : Parts[i].svc \notin cmd[c].opts.exclude => Gone(i)
    /\ cmd[c].pc = "act" =>
         \A i \in InScope(c) \ (cmd[c].left \cup cmd[c].busy \cup cmd[c].failed) : Gone(i)

StopInv == \A c \in Commands : Active(c) /\ ~Starting(c) => StopOrder(c) /\ StopWorks(c)

\* No start is under way during a stop that none disturbed.
LEMMA NoStart ==
  ASSUME IInv, Overlap, NEW c \in Commands, Active(c), ~Starting(c),
         "start" \notin cmd[c].disturbed, NEW d \in Commands
  PROVE  ~StartNext(d)
<1>1. SUFFICES ASSUME StartNext(d)
               PROVE  FALSE
  OBVIOUS
<1>2. Active(d) /\ Starting(d)
  BY <1>1 DEF StartNext, Active
<1>3. QED
  BY <1>2 DEF Overlap, Starting

\* So what is gone stays so.
LEMMA GoneStays ==
  ASSUME IInv, Overlap, [Next]_vars, NEW c \in Commands, Active(c), ~Starting(c),
         "start" \notin cmd[c].disturbed, NEW i \in Indices, Gone(i)
  PROVE  Gone(i)'
<1>1. \A d \in Commands : ~StartNext(d)
  BY NoStart
<1>2. Res(i) \in Resources /\ Kind[Res(i)] \notin Cluster
  BY PartTyped, ClusterAssumption DEF Res, Indices
<1>3. QED
  BY <1>1, <1>2, DownStays DEF Gone

\* A stop that others go on beside.
LEMMA StopKept ==
  ASSUME IInv, Overlap, [Next]_vars, NEW c \in Commands, Active(c), ~Starting(c),
         StopOrder(c), StopWorks(c), Kept(c)
  PROVE  StopOrder(c)' /\ StopWorks(c)'
<1>1. InScope(c)' = InScope(c)
  BY DEF InScope, Kept
<1>2. StopOrder(c)'
  BY <1>1 DEF StopOrder, Kept
<1>3. ASSUME "start" \notin cmd'[c].disturbed
      PROVE  \A i \in Indices : Gone(i) => Gone(i)'
  <2>1. "start" \notin cmd[c].disturbed
    BY <1>3 DEF Kept
  <2>2. QED
    BY <2>1, GoneStays
<1>4. At("stack") \subseteq Indices /\ InScope(c) \subseteq Indices
  BY DEF At, InScope
<1>5. StopWorks(c)'
  BY <1>1, <1>3, <1>4 DEF StopWorks, Kept
<1>6. QED
  BY <1>2, <1>5

LEMMA IndicesNat == Indices \subseteq Nat
BY PartsAssumption DEF Indices

\* The stop's own step, but for the functions and the goroutines.
LEMMA StopKeeps ==
  ASSUME IInv, NEW c \in Commands, Active(c), ~Starting(c), StopOrder(c), StopWorks(c),
         StopGather(c) \/ Launch(c) \/ Receive(c) \/ StoppedAll(c), Active(c)'
  PROVE  StopOrder(c)' /\ StopWorks(c)'
<1>1. /\ cmd \in [Commands -> Command] /\ cmd[c] \in Command /\ Good(c, cmd[c])
      /\ UNCHANGED world
  BY DEF IInv, StopGather, Launch, Receive, StoppedAll
<1>2. \A i : Gone(i)' = Gone(i)
  BY <1>1 DEF Gone
<1>3. CASE StopGather(c)
  <2>1. PICK bad \in SUBSET {i \in InScope(c) : Res(i) \in Faulty} :
          cmd' = [cmd EXCEPT ![c].pc = "act", ![c].left = InScope(c) \ bad,
                             ![c].errs = @ \cup bad, ![c].failed = @ \cup bad]
    BY <1>3 DEF StopGather
  <2>2. cmd[c].pc = "gather" /\ cmd[c].busy = {}
    BY <1>1, <1>3 DEF StopGather, Good, Typed
  <2>3. /\ cmd'[c].pc = "act" /\ cmd'[c].left = InScope(c) \ bad
        /\ cmd'[c].failed = cmd[c].failed \cup bad /\ cmd'[c].busy = {}
        /\ cmd'[c].opts = cmd[c].opts /\ cmd'[c].stage = cmd[c].stage
        /\ cmd'[c].disturbed = cmd[c].disturbed
    BY <1>1, <2>1, <2>2 DEF Command
  <2>4. InScope(c)' = InScope(c)
    BY <2>3 DEF InScope
  <2>5. StopOrder(c)'
    BY <2>3, <2>4 DEF StopOrder
  <2>6. InScope(c) \ (cmd'[c].left \cup cmd'[c].busy \cup cmd'[c].failed) = {}
    BY <2>3
  <2>7. StopWorks(c)'
    BY <1>2, <2>3, <2>4, <2>6 DEF StopWorks
  <2>8. QED
    BY <2>5, <2>7
<1>4. CASE Launch(c)
  <2>1. PICK i \in Last(c) : cmd' = [cmd EXCEPT ![c].left = @ \ {i}, ![c].busy = @ \cup {i}]
    BY <1>4 DEF Launch
  <2>2. /\ cmd'[c].pc = "act" /\ cmd[c].pc = "act"
        /\ cmd'[c].left = cmd[c].left \ {i} /\ cmd'[c].busy = cmd[c].busy \cup {i}
        /\ cmd'[c].opts = cmd[c].opts /\ cmd'[c].stage = cmd[c].stage
        /\ cmd'[c].failed = cmd[c].failed /\ cmd'[c].disturbed = cmd[c].disturbed
    BY <1>1, <1>4, <2>1 DEF Command, Launch
  <2>3. InScope(c)' = InScope(c)
    BY <2>2 DEF InScope
  <2>4. i \in cmd[c].left /\ \A j \in cmd[c].left : i >= j
    BY DEF Last
  <2>5. cmd'[c].left \cup cmd'[c].busy = cmd[c].left \cup cmd[c].busy
    BY <2>2, <2>4
  <2>6. ASSUME ~cmd'[c].opts.parallel
        PROVE  /\ \A j, k \in cmd'[c].busy : j = k
               /\ \A j \in cmd'[c].left, k \in cmd'[c].busy : j < k
    <3>1. cmd[c].busy = {}
      BY <1>4, <2>2, <2>6 DEF Launch, Running
    <3>2. cmd[c].left \subseteq Nat
      BY <1>1, IndicesNat DEF Command
    <3>3. QED
      BY <2>2, <2>4, <3>1, <3>2
  <2>7. StopOrder(c)'
    BY <2>2, <2>3, <2>5, <2>6 DEF StopOrder
  <2>8. StopWorks(c)'
    BY <1>2, <2>2, <2>3, <2>5 DEF StopWorks
  <2>9. QED
    BY <2>7, <2>8
<1>5. CASE Receive(c)
  <2>1. Kept(c) /\ cmd'[c].disturbed = cmd[c].disturbed
    BY <1>1, <1>5 DEF Receive, Kept, Command
  <2>2. InScope(c)' = InScope(c)
    BY <2>1 DEF InScope, Kept
  <2>3. QED
    BY <1>2, <2>1, <2>2 DEF StopOrder, StopWorks, Kept
<1>6. CASE StoppedAll(c)
  <2>1. /\ cmd[c].pc = "act" /\ cmd[c].left = {} /\ cmd[c].busy = {}
        /\ cmd[c].sending = {} /\ cmd[c].chan = {}
    BY <1>6 DEF StoppedAll, Running
  <2>2. ~EndWith(c, cmd[c].errs = {})
    <3>1. SUFFICES ASSUME EndWith(c, cmd[c].errs = {})
                   PROVE  FALSE
      OBVIOUS
    <3>2. PICK ok \in BOOLEAN : ok = (cmd[c].errs = {})
      OBVIOUS
    <3>3. cmd'[c].pc = "end"
      BY <1>1, <3>1, <3>2 DEF EndWith, Command
    <3>4. QED
      BY <3>3 DEF Active
  <2>3. /\ cmd[c].stage = "stack" /\ cmd[c].errs = {}
        /\ cmd' = [cmd EXCEPT ![c].pc = "gather", ![c].stage = "infrastructure"]
    BY <1>6, <2>2 DEF StoppedAll
  <2>4. /\ cmd'[c].pc = "gather" /\ cmd'[c].stage = "infrastructure"
        /\ cmd'[c].left = {} /\ cmd'[c].busy = {} /\ cmd'[c].opts = cmd[c].opts
        /\ cmd'[c].disturbed = cmd[c].disturbed
    BY <1>1, <2>1, <2>3 DEF Command
  <2>5. cmd[c].failed = {}
    BY <1>1, <2>1, <2>3 DEF Good, Accounted, Starting
  <2>6. StopOrder(c)'
    BY <2>4 DEF StopOrder
  <2>7. ASSUME "start" \notin cmd[c].disturbed, NEW i \in At("stack"),
               Parts[i].svc \notin cmd[c].opts.exclude
        PROVE  Gone(i)
    <3>1. i \in InScope(c)
      BY <2>3, <2>7 DEF InScope
    <3>2. QED
      BY <2>1, <2>5, <2>7, <3>1 DEF StopWorks
  <2>8. StopWorks(c)'
    BY <1>2, <2>4, <2>7 DEF StopWorks
  <2>9. QED
    BY <2>6, <2>8
<1>7. QED
  BY <1>3, <1>4, <1>5, <1>6

\* A goroutine of the stop.
LEMMA StopGoroutine ==
  ASSUME IInv, Overlap, [Next]_vars, NEW c \in Commands, Active(c), ~Starting(c),
         StopOrder(c), StopWorks(c), NEW i \in Indices, StopReturns(c, i) \/ Send(c, i)
  PROVE  StopOrder(c)' /\ StopWorks(c)'
<1>1. /\ cmd \in [Commands -> Command] /\ cmd[c] \in Command /\ Good(c, cmd[c])
      /\ world \in [Resources -> States]
  BY DEF IInv
<1>2. CASE Send(c, i)
  <2>1. Kept(c)
    BY <1>1, <1>2 DEF Send, Kept, Command
  <2>2. QED
    BY <2>1, StopKept
<1>3. CASE StopReturns(c, i)
  <2>1. i \in cmd[c].busy /\ cmd[c].pc = "act"
    BY <1>1, <1>3 DEF StopReturns, Good, Typed
  <2>2. /\ cmd'[c].pc = "act" /\ cmd'[c].left = cmd[c].left
        /\ cmd'[c].busy = cmd[c].busy \ {i}
        /\ cmd'[c].opts = cmd[c].opts /\ cmd'[c].stage = cmd[c].stage
        /\ cmd'[c].disturbed = cmd[c].disturbed
        /\ \/ cmd'[c].failed = cmd[c].failed /\ \E t \in Stopped(Res(i)) : Set(Res(i), t)
           \/ cmd'[c].failed = cmd[c].failed \cup {i}
    BY <1>1, <1>3, <2>1 DEF StopReturns, Command
  <2>3. InScope(c)' = InScope(c) /\ InScope(c) \subseteq Indices /\ At("stack") \subseteq Indices
    BY <2>2 DEF InScope, At
  <2>4. StopOrder(c)'
    BY <2>2, <2>3, <2>1 DEF StopOrder
  <2>5. Gone(i)' \/ i \in cmd'[c].failed
    <3>1. Res(i) \in Resources /\ Kind[Res(i)] \notin Cluster
      BY PartTyped, ClusterAssumption DEF Res, Indices
    <3>2. ASSUME NEW t \in Stopped(Res(i)), Set(Res(i), t), Kind[Res(i)] \notin Lasting
          PROVE  Gone(i)'
      <4>1. t = "down"
        BY <1>1, <3>1, <3>2, StoppedIs
      <4>2. world'[Res(i)] = "down"
        BY <1>1, <3>1, <3>2, <4>1, SetOne
      <4>3. QED
        BY <4>2 DEF Gone
    <3>3. Kind[Res(i)] \in Lasting => Gone(i)'
      BY DEF Gone
    <3>4. QED
      BY <2>2, <3>2, <3>3
  <2>6. cmd[c].failed \subseteq cmd'[c].failed
    BY <2>2
  <2>7. ASSUME "start" \notin cmd'[c].disturbed
        PROVE  /\ cmd'[c].stage = "infrastructure" =>
                    \A j \in At("stack") : Parts[j].svc \notin cmd'[c].opts.exclude => Gone(j)'
               /\ \A j \in InScope(c) \ (cmd'[c].left \cup cmd'[c].busy \cup cmd'[c].failed) :
                    Gone(j)'
    <3>1. \A j \in Indices : Gone(j) => Gone(j)'
      BY <2>2, <2>7, GoneStays
    <3>2. \A j \in InScope(c) \ (cmd[c].left \cup cmd[c].busy \cup cmd[c].failed) : Gone(j)
      BY <2>1, <2>2, <2>7 DEF StopWorks
    <3>3. ASSUME NEW j \in InScope(c) \ (cmd'[c].left \cup cmd'[c].busy \cup cmd'[c].failed)
          PROVE  Gone(j)'
      <4>1. CASE j = i
        BY <2>5, <3>3, <4>1
      <4>2. CASE j # i
        <5>1. j \in InScope(c) \ (cmd[c].left \cup cmd[c].busy \cup cmd[c].failed)
          BY <2>2, <2>6, <3>3, <4>2
        <5>2. QED
          BY <2>3, <3>1, <3>2, <5>1
      <4>3. QED
        BY <4>1, <4>2
    <3>4. cmd'[c].stage = "infrastructure" =>
            \A j \in At("stack") : Parts[j].svc \notin cmd'[c].opts.exclude => Gone(j)'
      BY <2>2, <2>3, <2>7, <3>1 DEF StopWorks
    <3>5. QED
      BY <3>3, <3>4
  <2>8. StopWorks(c)'
    BY <2>2, <2>3, <2>7 DEF StopWorks
  <2>9. QED
    BY <2>4, <2>8
<1>4. QED
  BY <1>2, <1>3

LEMMA StopStep == IInv /\ Overlap /\ StopInv /\ [Next]_vars => StopInv'
<1> SUFFICES ASSUME IInv, Overlap, StopInv, [Next]_vars,
                    NEW c \in Commands, Active(c)', ~Starting(c)'
             PROVE  StopOrder(c)' /\ StopWorks(c)'
  BY DEF StopInv
<1>1. Good(c, cmd[c])
  BY DEF IInv
<1>2. CASE Run(c)
  <2>1. /\ cmd'[c].pc = "gather" /\ cmd'[c].left = {} /\ cmd'[c].busy = {}
        /\ cmd'[c].stage = "stack"
    BY <1>2, RunFrame DEF Active, Starting
  <2>2. QED
    BY <2>1 DEF StopOrder, StopWorks
<1>3. CASE Exit(c)
  BY <1>3, ExitFrame DEF Active
<1>4. CASE Step(c) \/ LookFails(c)
  <2>1. Active(c) /\ ~Starting(c)
    BY <1>4, StepFrame DEF Starting
  <2>2. StopOrder(c) /\ StopWorks(c)
    BY <2>1 DEF StopInv
  <2>3. cmd[c].pc # "look"
    BY <1>1, <2>1 DEF Good, Accounted, Starting
  <2>4. ~(StartGather(c) \/ StartNext(c) \/ StartedAll(c)) /\
        ~(Look(c) \/ LookFails(c) \/ LookedAtAll(c))
    BY <2>1, <2>3 DEF StartGather, StartNext, StartedAll, Look, LookFails, LookedAtAll
  <2>5. CASE StopGather(c) \/ Launch(c) \/ Receive(c) \/ StoppedAll(c)
    BY <2>1, <2>2, <2>5, StopKeeps
  <2>6. ASSUME NEW i \in Indices, StopReturns(c, i) \/ Send(c, i)
        PROVE  StopOrder(c)' /\ StopWorks(c)'
    BY <2>1, <2>2, <2>6, StopGoroutine
  <2>7. QED
    BY <1>4, <2>4, <2>5, <2>6 DEF Step
<1>5. CASE Kept(c)
  <2>1. Active(c) /\ ~Starting(c)
    BY <1>5 DEF Kept, Active, Starting
  <2>2. QED
    BY <1>5, <2>1, StopKept DEF StopInv
<1>6. QED
  BY <1>2, <1>3, <1>4, <1>5, Frame

LEMMA NobodyActive == Init => Overlap /\ StopInv
<1> SUFFICES ASSUME Init
             PROVE  Overlap /\ StopInv
  OBVIOUS
<1>1. \A c \in Commands : ~Active(c)
  BY DEF Init, Idle, Fresh, Active
<1>2. QED
  BY <1>1 DEF Overlap, StopInv

LEMMA StopsInv == Spec => [](IInv /\ Overlap /\ StopInv)
<1>1. Init => IInv /\ Overlap /\ StopInv
  BY InitGood, NobodyActive
<1>2. IInv /\ Overlap /\ StopInv /\ [Next]_vars => IInv' /\ Overlap' /\ StopInv'
  BY NextGood, OverlapStep, StopStep
<1>3. QED
  BY <1>1, <1>2, PTL DEF Spec

\* Whatever else is stopped and whatever fails meanwhile: when the goroutine of a stop
\* is done with a resource, all that depends on it is down already, as far as the stop
\* is to see to that; and infrastructure is only stopped with all of the stack down.
THEOREM DependentsFirstCorrect == Spec => DependentsFirst
<1> DEFINE First_ ==
      \A c \in Commands : \A i \in cmd[c].busy \ cmd'[c].busy :
        cmd'[c].pc = "act" /\ "start" \notin cmd[c].disturbed =>
          \A j \in Dependents(c, i) : world[Res(j)] = "down"
<1>1. IInv /\ StopInv => First_
  <2> SUFFICES ASSUME IInv, StopInv, NEW c \in Commands, NEW i \in cmd[c].busy,
                      "start" \notin cmd[c].disturbed, NEW j \in Dependents(c, i)
               PROVE  world[Res(j)] = "down"
    OBVIOUS
  <2>1. cmd[c] \in Command /\ Good(c, cmd[c])
    BY DEF IInv
  <2>2. cmd[c].pc = "act" /\ ~Starting(c) /\ Active(c)
    BY <2>1 DEF Good, Typed, Starting, Active
  <2>3. StopOrder(c) /\ StopWorks(c)
    BY <2>2 DEF StopInv
  <2>4. /\ j \in Indices /\ j # i /\ Parts[j].svc \notin cmd[c].opts.exclude
        /\ Kind[Res(j)] \notin Lasting
        /\ \/ Parts[i].stage = "infrastructure" /\ Parts[j].stage = "stack"
           \/ /\ Parts[i].stage = Parts[j].stage /\ i < j
              /\ ~cmd[c].opts.parallel /\ j \notin cmd[c].failed
    BY DEF Dependents
  <2>5. i \in InScope(c) /\ i \in Indices /\ Parts[i].stage = cmd[c].stage
    BY <2>2, <2>3 DEF StopOrder, InScope, At
  <2>6. CASE Parts[i].stage = "infrastructure" /\ Parts[j].stage = "stack"
    <3>1. Gone(j)
      BY <2>3, <2>4, <2>5, <2>6 DEF StopWorks, At
    <3>2. QED
      BY <2>4, <3>1 DEF Gone
  <2>7. CASE /\ Parts[i].stage = Parts[j].stage /\ i < j
             /\ ~cmd[c].opts.parallel /\ j \notin cmd[c].failed
    <3>1. j \in InScope(c)
      BY <2>4, <2>5, <2>7 DEF InScope, At
    <3>2. j \notin cmd[c].busy
      BY <2>3, <2>4, <2>7 DEF StopOrder
    <3>3. j \notin cmd[c].left
      <4>1. i \in Nat /\ j \in Nat
        BY <2>4, <2>5, IndicesNat
      <4>2. QED
        BY <2>3, <2>7, <4>1 DEF StopOrder
    <3>4. Gone(j)
      BY <2>2, <2>3, <2>7, <3>1, <3>2, <3>3 DEF StopWorks
    <3>5. QED
      BY <2>4, <3>4 DEF Gone
  <2>8. QED
    BY <2>4, <2>6, <2>7
<1>2. First_ => [First_]_vars
  OBVIOUS
<1>3. QED
  BY <1>1, <1>2, StopsInv, PTL DEF DependentsFirst

\* What ends a stop.
LEMMA StopEnds ==
  ASSUME IInv, [Next]_vars, NEW c \in Commands, Ends(c), ~Starting(c)
  PROVE  StoppedAll(c)
<1>1. cmd[c] \in Command /\ Good(c, cmd[c]) /\ cmd \in [Commands -> Command]
  BY DEF IInv
<1>2. Active(c) /\ cmd[c].pc # "look" /\ cmd[c].pc # "end"
  BY <1>1 DEF Ends, Good, Accounted, Starting, Active
<1>3. ~Run(c) /\ ~Exit(c) /\ ~Kept(c)
  BY <1>2, ExitFrame, RunFrame DEF Kept, Ends, Active
<1>4. ~StopGather(c) /\ ~Launch(c) /\ ~Receive(c)
  <2>1. StopGather(c) => cmd'[c].pc = "act"
    BY <1>1 DEF StopGather, Command
  <2>2. Launch(c) => cmd'[c].pc = cmd[c].pc
    BY <1>1 DEF Launch, Command
  <2>3. Receive(c) => cmd'[c].pc = cmd[c].pc
    BY <1>1 DEF Receive, Command
  <2>4. QED
    BY <1>2, <2>1, <2>2, <2>3 DEF Ends
<1>5. \A i \in Indices : ~(StopReturns(c, i) \/ Send(c, i))
  <2>1. \A i \in Indices : StopReturns(c, i) \/ Send(c, i) => cmd'[c].pc = cmd[c].pc
    BY <1>1 DEF StopReturns, Send, Command
  <2>2. QED
    BY <1>2, <2>1 DEF Ends
<1>6. QED
  BY <1>2, <1>3, <1>4, <1>5, Frame
  DEF Step, StartGather, StartNext, StartedAll, Look, LookFails, LookedAtAll

LEMMA StopDone ==
  ASSUME IInv, StopInv, [Next]_vars, NEW c \in Commands, Ends(c), ~Starting(c)
  PROVE  StopDelivers(c)
<1>1. Good(c, cmd[c]) /\ cmd[c] \in Command
  BY DEF IInv
<1>2. StopOrder(c) /\ StopWorks(c)
  BY DEF StopInv, Ends
<1>3. /\ cmd[c].pc = "act" /\ cmd[c].left = {} /\ cmd[c].busy = {}
      /\ cmd[c].stage \in Stages
  BY <1>1, StopEnds DEF StoppedAll, Running, Command
<1>4. SUFFICES ASSUME "start" \notin cmd[c].disturbed, NEW i \in Asked(c) \ cmd[c].failed
               PROVE  Gone(i)
  BY DEF StopDelivers, Gone
<1>5. /\ i \in Indices /\ Parts[i].svc \notin cmd[c].opts.exclude
      /\ cmd[c].stage \in {Parts[i].stage, "infrastructure"}
  BY DEF Asked
<1>6. CASE Parts[i].stage = cmd[c].stage
  <2>1. i \in InScope(c)
    BY <1>5, <1>6 DEF InScope, At
  <2>2. QED
    BY <1>2, <1>3, <1>4, <2>1 DEF StopWorks
<1>7. CASE Parts[i].stage # cmd[c].stage
  <2>1. cmd[c].stage = "infrastructure" /\ Parts[i].stage = "stack"
    BY <1>5, <1>7, PartTyped DEF Stages
  <2>2. QED
    BY <1>2, <1>4, <1>5, <2>1 DEF StopWorks, At
<1>8. QED
  BY <1>6, <1>7

-----------------------------------------------------------------------------
(***************************************************************************)
(* A start.                                                                *)
(***************************************************************************)

\* What exists or does not, and is never on its way.
AtOnce == {"container", "volume", "databases"}

NoneComing == \A r \in Resources : Kind[r] \in AtOnce => world[r] # "coming"

\* Start brings a resource on its way, at least; it does nothing to what it waits for.
LEMMA StartOfType ==
  ASSUME NEW k \in DOMAIN Types, NEW s \in States
  PROVE  /\ k \notin Cluster \cup {"waiter"} => Types[k].start[s] \subseteq {"up", "coming"}
         /\ k \in AtOnce => /\ Types[k].start[s] \subseteq {"up"}
                            /\ ~Types[k].fails
         /\ k \notin AtOnce => Types[k].ready \subseteq {"up"}
         /\ Types[k].fails => k \notin {"waiter", "service"}
<1>1. /\ Apply({})[s] \subseteq {"up", "coming"} /\ Apply({"coming"})[s] \subseteq {"up", "coming"}
      /\ Made[s] = {"up"}
  BY DEF Apply, Made, States
<1>2. CASE k \in {"statefulset", "deployment", "process"}
  BY <1>1, <1>2 DEF Types, accStatefulSet, accDeployment, PM, AtOnce, Cluster
<1>3. CASE k \in {"job", "service", "claim"}
  BY <1>1, <1>3 DEF Types, accBatchJob, accService, accPVC, AtOnce, Cluster
<1>4. CASE k \in {"cronjob", "configmap", "secret"}
  BY <1>1, <1>4 DEF Types, accCronJob, accConfigMap, accSecret, AtOnce, Cluster
<1>5. CASE k \in {"volume", "databases"}
  BY <1>1, <1>5 DEF Types, Volume, InitDBs, AtOnce, Cluster
<1>6. CASE k = "container"
  <2>1. Types[k] = Container
    BY <1>6 DEF Types
  <2>2. Container.start[s] \subseteq {"up"} /\ ~Container.fails
    BY DEF Container, States
  <2>3. QED
    BY <1>6, <2>1, <2>2 DEF AtOnce, Cluster
<1>7. CASE k \in {"waiter", "api", "node"}
  BY <1>7 DEF Types, Waiter, healthClient, accNode, AtOnce, Cluster
<1>8. QED
  BY <1>2, <1>3, <1>4, <1>5, <1>6, <1>7 DEF Types

LEMMA StartedIs ==
  ASSUME world \in [Resources -> States], NEW r \in Resources
  PROVE  /\ Kind[r] \notin Cluster \cup {"waiter"} => Started(r) \subseteq {"up", "coming"}
         /\ Kind[r] \in AtOnce => Started(r) \subseteq {"up"}
<1>1. Kind[r] \in DOMAIN Types /\ world[r] \in States
  BY KindAssumption
<1>2. QED
  BY <1>1, StartOfType DEF Started

LEMMA PartKind ==
  ASSUME NEW i \in Indices
  PROVE  Res(i) \in Resources /\ Kind[Res(i)] \notin Cluster /\ Kind[Res(i)] \in DOMAIN Types
BY PartTyped, ClusterAssumption, KindAssumption DEF Res, Indices

\* All that ever happens to a resource; what is of the cluster is not called.
LEMMA Changes ==
  ASSUME IInv, [Next]_vars
  PROVE  \/ UNCHANGED world
         \/ \E r \in Resources : /\ Kind[r] \notin Cluster
                                 /\ \E t \in Stopped(r) \cup {"down"} \cup Started(r) : Set(r, t)
         \/ \E r \in Resources : Comes(r) \/ Fades(r) \/ Falls(r)
<1>1. CASE UNCHANGED vars
  BY <1>1
<1>2. ASSUME NEW c \in Commands, Run(c) \/ Exit(c) \/ LookFails(c)
      PROVE  UNCHANGED world
  BY <1>2 DEF Run, Exit, LookFails
<1>3. ASSUME NEW c \in Commands, StartNext(c)
      PROVE  \/ UNCHANGED world
             \/ \E r \in Resources :
                  /\ Kind[r] \notin Cluster
                  /\ \E t \in Stopped(r) \cup {"down"} \cup Started(r) : Set(r, t)
  <2>1. PICK i \in First(c) :
          LET r     == Res(i)
              after == IF IsAnti(cmd[c].opts, i) THEN Stopped(r) ELSE Started(r) IN
          (\E t \in after : Set(r, t)) \/ Fails(r, after)
    BY <1>3 DEF StartNext
  <2>2. Res(i) \in Resources /\ Kind[Res(i)] \notin Cluster
    BY PartKind, AtTyped DEF First
  <2>3. UNCHANGED world
        \/ \E t \in Stopped(Res(i)) \cup {"down"} \cup Started(Res(i)) : Set(Res(i), t)
    BY <2>1 DEF Fails
  <2>4. QED
    BY <2>2, <2>3
<1>4. ASSUME NEW c \in Commands, NEW i \in Indices, StopReturns(c, i) \/ Send(c, i)
      PROVE  \/ UNCHANGED world
             \/ \E r \in Resources :
                  /\ Kind[r] \notin Cluster
                  /\ \E t \in Stopped(r) \cup {"down"} \cup Started(r) : Set(r, t)
  <2>1. Res(i) \in Resources /\ Kind[Res(i)] \notin Cluster
    BY PartKind
  <2>2. UNCHANGED world
        \/ \E t \in Stopped(Res(i)) \cup {"down"} \cup Started(Res(i)) : Set(Res(i), t)
    BY <1>4 DEF StopReturns, Send, Fails
  <2>3. QED
    BY <2>1, <2>2
<1>5. ASSUME NEW c \in Commands,
             \/ StartGather(c) \/ StartedAll(c) \/ Look(c) \/ LookedAtAll(c)
             \/ StopGather(c) \/ Launch(c) \/ Receive(c) \/ StoppedAll(c)
      PROVE  UNCHANGED world
  BY <1>5 DEF StartGather, StartedAll, Look, LookedAtAll, StopGather, Launch, Receive, StoppedAll
<1>6. QED
  BY <1>1, <1>2, <1>3, <1>4, <1>5 DEF Next, Step

LEMMA NoneComingStep == IInv /\ NoneComing /\ [Next]_vars => NoneComing'
<1> SUFFICES ASSUME IInv, NoneComing, [Next]_vars, NEW q \in Resources, Kind[q] \in AtOnce
             PROVE  world'[q] # "coming"
  BY DEF NoneComing
<1>1. world \in [Resources -> States] /\ world[q] # "coming" /\ Kind[q] \notin Cluster
  BY DEF IInv, NoneComing, AtOnce, Cluster
<1>2. ASSUME NEW r \in Resources, NEW t \in Stopped(r) \cup {"down"} \cup Started(r), Set(r, t)
      PROVE  world'[q] # "coming"
  <2>1. CASE r = q
    <3>1. t # "coming"
      BY <1>1, <1>2, <2>1, StoppedIs, StartedIs
    <3>2. QED
      BY <1>1, <1>2, <2>1, <3>1, SetOne
  <2>2. CASE r # q
    BY <1>1, <1>2, <2>2, SetOne
  <2>3. QED
    BY <2>1, <2>2
<1>3. ASSUME NEW r \in Resources, Comes(r) \/ Fades(r) \/ Falls(r)
      PROVE  world'[q] # "coming"
  <2>1. PICK t \in {"up", "coming"} : Set(r, t) /\ (t = "coming" => Kind[r] = "service" \/ Types[Kind[r]].fails)
    BY <1>3 DEF Comes, Fades, Falls, Appear, Fade, Fall
  <2>2. CASE r = q
    <3>1. t = "up"
      <4>1. Kind[q] \in DOMAIN Types /\ "up" \in States
        BY KindAssumption DEF States
      <4>2. ~Types[Kind[q]].fails /\ Kind[q] # "service"
        BY <4>1, StartOfType DEF AtOnce
      <4>3. QED
        BY <2>1, <2>2, <4>2
    <3>2. QED
      BY <1>1, <2>1, <2>2, <3>1, SetOne
  <2>3. CASE r # q
    BY <1>1, <2>1, <2>3, SetOne
  <2>4. QED
    BY <2>2, <2>3
<1>4. QED
  BY <1>1, <1>2, <1>3, Changes

\* The parts that a start is done with.
Begun(c) ==
  IF cmd[c].stage = "infrastructure"
  THEN IF cmd[c].pc = "act" THEN At("infrastructure") \ cmd[c].left ELSE {}
  ELSE At("infrastructure") \cup
       CASE cmd[c].pc = "act"  -> At("stack") \ cmd[c].left
         [] cmd[c].pc = "look" -> At("stack")
         [] OTHER -> {}

\* What all the parts of a resource want of it.
AsWanted(o, i) ==
  /\ Against(o, Res(i)) = {} => Kind[Res(i)] = "waiter" \/ world[Res(i)] \in {"up", "coming"}
  /\ For(o, Res(i)) = {} => Gone(i)

\* What was looked at and was ready, is.
Seen(o, i) ==
  Against(o, Res(i)) = {} =>
    Kind[Res(i)] = "waiter" \/ MayFade(o, i) \/ world[Res(i)] = "up"

StartOrder(c) ==
  cmd[c].pc = "look" =>
    /\ cmd[c].stage = "stack" /\ cmd[c].opts.wait
    /\ \A i \in At("stack") \ cmd[c].left, j \in cmd[c].left : i < j

StartWorks(c) ==
  cmd[c].disturbed = {} =>
    /\ \A i \in Begun(c) : AsWanted(cmd[c].opts, i)
    /\ cmd[c].pc = "look" => \A i \in At("stack") \ cmd[c].left : Seen(cmd[c].opts, i)

StartInv == \A c \in Commands : Active(c) /\ Starting(c) => StartOrder(c) /\ StartWorks(c)

LEMMA AtIndices ==
  /\ At("stack") \subseteq Indices /\ At("infrastructure") \subseteq Indices
  /\ \A c \in Commands : Begun(c) \subseteq Indices
<1>1. \A stage : At(stage) \subseteq Indices
  BY DEF At
<1>2. QED
  BY <1>1 DEF Begun

\* Nothing happens beside a start that is not disturbed, but by itself.
LEMMA QuietWorld ==
  ASSUME IInv, Overlap, [Next]_vars, NEW c \in Commands, Active(c), Starting(c), Kept(c),
         cmd'[c].disturbed = {}
  PROVE  UNCHANGED world \/ \E r \in Resources : Comes(r) \/ Fades(r)
<1>0. world \in [Resources -> States] /\ cmd[c] \in Command
  BY DEF IInv
<1>1. cmd[c].disturbed = {}
  BY DEF Kept
<1>2. \A d \in Commands \ {c} : ~Active(d)
  BY <1>1 DEF Overlap
<1>3. \A r \in Resources : ~Falls(r)
  <2>1. ASSUME NEW r \in Resources, Falls(r)
        PROVE  FALSE
    <3>1. cmd'[c] = Disturb(c, "crash")
      BY <2>1 DEF Falls
    <3>2. QED
      BY <3>1, DisturbKept
  <2>2. QED
    BY <2>1
<1>4. \A d \in Commands \ {c} : ~Step(d) /\ ~LookFails(d)
  BY <1>2, StepFrame
<1>5. ASSUME Step(c) \/ LookFails(c)
      PROVE  UNCHANGED world
  <2>1. CASE LookFails(c)
    BY <2>1 DEF LookFails
  <2>2. CASE StartNext(c)
    <3>1. cmd'[c].left # cmd[c].left \/ cmd'[c].pc # cmd[c].pc
      <4>1. PICK i \in First(c) :
              \/ cmd' = [cmd EXCEPT ![c].left = @ \ {i}]
              \/ cmd'[c].pc = "end"
        <5>1. PICK i \in First(c) :
                \/ cmd' = [cmd EXCEPT ![c].left = @ \ {i}]
                \/ cmd' = [cmd EXCEPT ![c].pc = "end", ![c].ok = FALSE, ![c].left = {},
                             ![c].failed = IF Res(i) \in Faulty THEN {i} ELSE {}]
          BY <2>2 DEF StartNext
        <5>2. QED
          BY <1>0, <5>1 DEF IInv, Command
      <4>2. CASE cmd' = [cmd EXCEPT ![c].left = @ \ {i}]
        <5>1. cmd'[c].left = cmd[c].left \ {i}
          BY <1>0, <4>2 DEF IInv, Command
        <5>2. i \in cmd[c].left
          BY DEF First
        <5>3. QED
          BY <5>1, <5>2
      <4>3. QED
        BY <2>2, <4>1, <4>2 DEF StartNext
    <3>2. QED
      BY <3>1 DEF Kept
  <2>3. CASE StartGather(c) \/ StartedAll(c) \/ Look(c) \/ LookedAtAll(c)
    BY <2>3 DEF StartGather, StartedAll, Look, LookedAtAll
  <2>4. CASE StopGather(c) \/ Launch(c) \/ Receive(c) \/ StoppedAll(c)
    BY <2>4 DEF StopGather, Launch, Receive, StoppedAll
  <2>5. ASSUME NEW i \in Indices, StopReturns(c, i) \/ Send(c, i)
        PROVE  UNCHANGED world
    BY <2>5, StartIsAlone DEF StopReturns, Send
  <2>6. QED
    BY <1>5, <2>1, <2>2, <2>3, <2>4, <2>5 DEF Step
<1>6. ASSUME NEW d \in Commands, Run(d) \/ Exit(d)
      PROVE  UNCHANGED world
  BY <1>6 DEF Run, Exit
<1>7. QED
  BY <1>3, <1>4, <1>5, <1>6 DEF Next

\* A start that others go on beside.
LEMMA StartKept ==
  ASSUME IInv, Overlap, [Next]_vars, NEW c \in Commands, Active(c), Starting(c),
         StartOrder(c), StartWorks(c), Kept(c)
  PROVE  StartOrder(c)' /\ StartWorks(c)'
<1> DEFINE o == cmd[c].opts
<1>1. StartOrder(c)'
  BY DEF StartOrder, Kept
<1>2. Begun(c)' = Begun(c)
  BY DEF Begun, Kept
<1>3. world \in [Resources -> States] /\ cmd[c] \in Command
  BY DEF IInv
<1>4. ASSUME cmd'[c].disturbed = {}
      PROVE  UNCHANGED world \/ \E r \in Resources : Comes(r) \/ Fades(r)
  BY <1>4, QuietWorld
<1>5. ASSUME cmd'[c].disturbed = {}, NEW i \in Begun(c)
      PROVE  AsWanted(o, i)'
  <2>1. AsWanted(o, i) /\ i \in Indices
    BY <1>5, AtIndices DEF StartWorks, Kept
  <2>2. Res(i) \in Resources /\ Kind[Res(i)] \notin Cluster
    BY <2>1, PartKind
  <2>3. world[Res(i)] = "down" => world'[Res(i)] = "down"
    <3>1. ASSUME NEW r \in Resources, Comes(r) \/ Fades(r), world[Res(i)] = "down"
          PROVE  world'[Res(i)] = "down"
      <4>1. PICK t \in {"up", "coming"} : Set(r, t) /\ world[r] # "down"
        BY <3>1 DEF Comes, Fades, Appear, Fade
      <4>2. QED
        BY <1>3, <2>2, <3>1, <4>1, SetOne
    <3>2. QED
      BY <1>4, <1>5, <3>1
  <2>4. world[Res(i)] \in {"up", "coming"} => world'[Res(i)] \in {"up", "coming"}
    <3>1. ASSUME NEW r \in Resources, Comes(r) \/ Fades(r), world[Res(i)] \in {"up", "coming"}
          PROVE  world'[Res(i)] \in {"up", "coming"}
      <4>1. PICK t \in {"up", "coming"} : Set(r, t)
        BY <3>1 DEF Comes, Fades, Appear, Fade
      <4>2. QED
        BY <1>3, <2>2, <3>1, <4>1, SetOne
    <3>2. QED
      BY <1>4, <1>5, <3>1
  <2>5. o' = o
    BY DEF Kept
  <2>6. QED
    BY <2>1, <2>3, <2>4, <2>5 DEF AsWanted, Gone
<1>6. ASSUME cmd'[c].disturbed = {}, cmd[c].pc = "look", NEW i \in At("stack") \ cmd[c].left
      PROVE  Seen(o, i)'
  <2>1. /\ \A j \in At("stack") \ cmd[c].left : Seen(o, j)
        /\ \A j \in At("stack") \ cmd[c].left, k \in cmd[c].left : j < k
    BY <1>6 DEF StartWorks, StartOrder, Kept
  <2>2. i \in Indices /\ Res(i) \in Resources /\ Kind[Res(i)] \notin Cluster
    BY <1>6, AtIndices, PartKind
  <2>3. o' = o
    BY DEF Kept
  <2>4. SUFFICES ASSUME Against(o, Res(i)) = {}, Kind[Res(i)] # "waiter", ~MayFade(o, i)
                 PROVE  world'[Res(i)] = "up"
    BY <2>3 DEF Seen, MayFade
  <2>5. world[Res(i)] = "up"
    BY <1>6, <2>1, <2>4 DEF Seen
  <2>6. ASSUME NEW r \in Resources, Comes(r)
        PROVE  world'[Res(i)] = "up"
    <3>1. Set(r, "up")
      BY <2>6 DEF Comes, Appear
    <3>2. QED
      BY <1>3, <2>2, <2>5, <3>1, SetOne
  <2>7. ASSUME NEW r \in Resources, Fades(r)
        PROVE  world'[Res(i)] = "up"
    <3>1. /\ Set(r, "coming") /\ Kind[r] = "service"
          /\ \E w \in Needs[r] : Types[Kind[w]].fails /\ world[w] # "up"
      BY <2>7 DEF Fades, Fade
    <3>2. CASE r # Res(i)
      BY <1>3, <2>2, <2>5, <3>1, <3>2, SetOne
    <3>3. CASE r = Res(i)
      <4>1. PICK w \in Needs[r] : Types[Kind[w]].fails /\ world[w] # "up"
        BY <3>1
      <4>2. PICK j \in At("stack") : Res(j) = w /\ j < i /\ Against(o, w) = {}
        BY <2>4, <3>1, <3>3, <4>1 DEF MayFade
      <4>3. j \notin cmd[c].left
        <5>1. i \in Nat /\ j \in Nat
          BY <2>2, <4>2, AtIndices, IndicesNat
        <5>2. j \in cmd[c].left => i < j
          BY <1>6, <2>1
        <5>3. QED
          BY <4>2, <5>1, <5>2
      <4>4. Seen(o, j)
        BY <2>1, <4>2, <4>3
      <4>5. Kind[w] \notin {"waiter", "service"}
        <5>1. Kind[w] \in DOMAIN Types /\ "up" \in States
          BY <4>2, AtIndices, PartKind DEF States
        <5>2. QED
          BY <4>1, <5>1, StartOfType
      <4>6. QED
        BY <4>1, <4>2, <4>4, <4>5 DEF Seen, MayFade
    <3>4. QED
      BY <3>2, <3>3
  <2>8. QED
    BY <1>4, <1>6, <2>5, <2>6, <2>7
<1>7. StartWorks(c)'
  <2>1. o' = o /\ cmd'[c].pc = cmd[c].pc /\ cmd'[c].left = cmd[c].left /\ At("stack")' = At("stack")
    BY DEF Kept, At
  <2>2. ASSUME cmd'[c].disturbed = {}
        PROVE  /\ \A i \in Begun(c) : AsWanted(o, i)'
               /\ cmd'[c].pc = "look" => \A i \in At("stack") \ cmd'[c].left : Seen(o, i)'
    BY <1>5, <1>6, <2>1, <2>2
  <2>3. QED
    BY <1>2, <2>1, <2>2 DEF StartWorks
<1>8. QED
  BY <1>1, <1>7

\* The next resource of a start is started or stopped.
LEMMA StartNextKeeps ==
  ASSUME IInv, NEW c \in Commands, StartOrder(c), StartWorks(c), StartNext(c), Active(c)'
  PROVE  StartOrder(c)' /\ StartWorks(c)'
<1> DEFINE o == cmd[c].opts
<1>1. /\ cmd \in [Commands -> Command] /\ cmd[c] \in Command
      /\ world \in [Resources -> States] /\ cmd[c].stage \in Stages /\ cmd[c].pc = "act"
  BY DEF IInv, Command, StartNext
<1>2. PICK i \in First(c) :
        /\ \E t \in (IF IsAnti(o, i) THEN Stopped(Res(i)) ELSE Started(Res(i))) : Set(Res(i), t)
        /\ cmd' = [cmd EXCEPT ![c].left = @ \ {i}]
  <2>1. ASSUME NEW failed \in SUBSET Indices,
               cmd' = [cmd EXCEPT ![c].pc = "end", ![c].ok = FALSE, ![c].left = {},
                                  ![c].failed = failed]
        PROVE  FALSE
    BY <1>1, <2>1 DEF Active, Command
  <2>2. PICK i \in First(c) :
          LET r     == Res(i)
              anti  == IsAnti(cmd[c].opts, i)
              after == IF anti THEN Stopped(r) ELSE Started(r) IN
          \/ /\ \E s \in after : Set(r, s)
             /\ cmd' = [cmd EXCEPT ![c].left = @ \ {i}]
          \/ cmd' = [cmd EXCEPT ![c].pc = "end", ![c].ok = FALSE, ![c].left = {},
                                ![c].failed = IF r \in Faulty THEN {i} ELSE {}]
    BY DEF StartNext
  <2>3. PICK failed \in SUBSET Indices : failed = IF Res(i) \in Faulty THEN {i} ELSE {}
    BY AtTyped DEF First
  <2>4. QED
    BY <2>1, <2>2, <2>3
<1>3. /\ i \in cmd[c].left /\ i \in Indices
      /\ cmd'[c].left = cmd[c].left \ {i} /\ cmd'[c].pc = "act" /\ cmd'[c].opts = o
      /\ cmd'[c].stage = cmd[c].stage /\ cmd'[c].disturbed = cmd[c].disturbed
  BY <1>1, <1>2 DEF Command, First
<1>4. Res(i) \in Resources /\ Kind[Res(i)] \notin Cluster
  BY <1>3, PartKind
<1>5. Begun(c)' \subseteq Begun(c) \cup {i}
  BY <1>1, <1>3 DEF Begun, At, Stages
<1>6. PICK t \in (IF IsAnti(o, i) THEN Stopped(Res(i)) ELSE Started(Res(i))) : Set(Res(i), t)
  BY <1>2
<1>7. world'[Res(i)] = t
  BY <1>1, <1>4, <1>6, SetOne
<1>8. ASSUME NEW k \in Indices, Res(k) = Res(i)
      PROVE  AsWanted(o, k)'
  <2>1. CASE IsAnti(o, i)
    <3>1. i \in Against(o, Res(k))
      BY <1>3, <1>8, <2>1 DEF Against
    <3>2. Kind[Res(i)] \in Lasting \/ t = "down"
      BY <1>1, <1>4, <1>6, <2>1, StoppedIs
    <3>3. QED
      BY <1>3, <1>7, <1>8, <3>1, <3>2 DEF AsWanted, Gone
  <2>2. CASE ~IsAnti(o, i)
    <3>1. i \in For(o, Res(k))
      BY <1>3, <1>8, <2>2 DEF For
    <3>2. Kind[Res(i)] = "waiter" \/ t \in {"up", "coming"}
      BY <1>1, <1>4, <1>6, <2>2, StartedIs
    <3>3. QED
      BY <1>3, <1>7, <1>8, <3>1, <3>2 DEF AsWanted
  <2>3. QED
    BY <2>1, <2>2
<1>9. ASSUME NEW k \in Indices, Res(k) # Res(i), AsWanted(o, k)
      PROVE  AsWanted(o, k)'
  <2>1. Res(k) \in Resources /\ Kind[Res(k)] \notin Cluster
    BY <1>9, PartKind
  <2>2. world'[Res(k)] = world[Res(k)]
    BY <1>1, <1>4, <1>6, <1>9, <2>1, SetOne
  <2>3. QED
    BY <1>3, <1>9, <2>2 DEF AsWanted, Gone
<1>10. StartOrder(c)'
  BY <1>3 DEF StartOrder
<1>11. StartWorks(c)'
  <2>1. ASSUME cmd[c].disturbed = {}, NEW k \in Begun(c)'
        PROVE  AsWanted(o, k)'
    <3>1. k \in Indices
      BY <1>3, <1>5, <2>1, AtIndices
    <3>2. Res(k) # Res(i) => AsWanted(o, k)
      BY <1>5, <2>1 DEF StartWorks
    <3>3. QED
      BY <1>8, <1>9, <3>1, <3>2
  <2>2. QED
    BY <1>3, <2>1 DEF StartWorks
<1>12. QED
  BY <1>10, <1>11

\* A resource of the kinds that Ready asks for is up if it says so; of the others any
\* that exists is.
LEMMA ReadyMeans ==
  ASSUME IInv, NoneComing, NEW i \in Indices, Ready(Res(i)) = "yes",
         Kind[Res(i)] # "waiter", world[Res(i)] \in {"up", "coming"}
  PROVE  world[Res(i)] = "up"
<1>1. Res(i) \in Resources /\ Kind[Res(i)] \in DOMAIN Types /\ "up" \in States
  BY PartKind DEF States
<1>2. CASE Kind[Res(i)] \in AtOnce
  BY <1>1, <1>2 DEF NoneComing
<1>3. CASE Kind[Res(i)] \notin AtOnce
  <2>1. Status(Res(i)) = "yes"
    BY DEF Ready
  <2>2. world[Res(i)] \in Types[Kind[Res(i)]].ready
    BY <2>1 DEF Status
  <2>3. QED
    BY <1>1, <1>3, <2>2, StartOfType
<1>4. QED
  BY <1>2, <1>3

\* One resource was looked at.
LEMMA LookKeeps ==
  ASSUME IInv, NoneComing, NEW c \in Commands, Starting(c), StartOrder(c), StartWorks(c),
         Look(c) \/ LookFails(c), Active(c)'
  PROVE  StartOrder(c)' /\ StartWorks(c)'
<1> DEFINE o == cmd[c].opts
<1>1. /\ cmd \in [Commands -> Command] /\ cmd[c] \in Command
      /\ cmd[c].pc = "look" /\ UNCHANGED world
  BY DEF IInv, Look, LookFails
<1>2. PICK i \in First(c) :
        /\ cmd' = [cmd EXCEPT ![c].left = @ \ {i}]
        /\ IsAnti(o, i) \/ Ready(Res(i)) = "yes"
  <2>1. ~EndWith(c, FALSE)
    BY <1>1 DEF EndWith, Active, Command
  <2>2. \A i : cmd' # [cmd EXCEPT ![c].pc = "end", ![c].ok = FALSE, ![c].left = {},
                                  ![c].failed = {i}]
    BY <1>1 DEF Active, Command
  <2>3. CASE Look(c)
    <3>1. PICK i \in First(c) :
            /\ (Ready(Res(i)) = "yes") # IsAnti(o, i)
            /\ cmd' = [cmd EXCEPT ![c].left = @ \ {i}]
      BY <2>1, <2>3 DEF Look
    <3>2. IsAnti(o, i) \/ Ready(Res(i)) = "yes"
      BY <3>1 DEF IsAnti
    <3>3. QED
      BY <3>1, <3>2
  <2>4. CASE LookFails(c)
    BY <2>2, <2>4 DEF LookFails
  <2>5. QED
    BY <2>3, <2>4
<1>3. /\ i \in cmd[c].left /\ i \in Indices /\ \A j \in cmd[c].left : i <= j
      /\ cmd'[c].left = cmd[c].left \ {i} /\ cmd'[c].pc = "look" /\ cmd'[c].opts = o
      /\ cmd'[c].stage = cmd[c].stage /\ cmd'[c].disturbed = cmd[c].disturbed
  BY <1>1, <1>2 DEF Command, First
<1>4. cmd[c].stage = "stack" /\ Begun(c)' = Begun(c) /\ At("stack")' = At("stack")
      /\ At("stack") \subseteq Begun(c)
  BY <1>1, <1>3 DEF StartOrder, Begun, At
<1>5. StartOrder(c)'
  <2>1. cmd[c].left \subseteq Nat
    BY <1>1, IndicesNat DEF Command
  <2>2. ASSUME NEW k \in At("stack") \ cmd'[c].left, NEW j \in cmd'[c].left
        PROVE  k < j
    <3>1. CASE k = i
      BY <1>3, <2>1, <2>2, <3>1
    <3>2. CASE k # i
      BY <1>1, <1>3, <2>2, <3>2 DEF StartOrder
    <3>3. QED
      BY <3>1, <3>2
  <2>3. QED
    BY <1>1, <1>3, <1>4, <2>2 DEF StartOrder
<1>6. ASSUME cmd[c].disturbed = {}, i \in At("stack")
      PROVE  Seen(o, i)
  <2>1. CASE IsAnti(o, i)
    BY <1>3, <2>1 DEF Seen, Against
  <2>2. CASE ~IsAnti(o, i)
    <3>1. AsWanted(o, i)
      BY <1>4, <1>6 DEF StartWorks
    <3>2. QED
      BY <1>2, <1>3, <2>2, <3>1, ReadyMeans DEF AsWanted, Seen
  <2>3. QED
    BY <2>1, <2>2
<1>7. \A k : AsWanted(o, k)' = AsWanted(o, k) /\ Seen(o, k)' = Seen(o, k)
  BY <1>1, <1>3 DEF AsWanted, Seen, Gone, MayFade, At
<1>8. StartWorks(c)'
  <2>1. ASSUME cmd[c].disturbed = {}, NEW k \in At("stack") \ cmd'[c].left
        PROVE  Seen(o, k)
    BY <1>1, <1>3, <1>6, <2>1 DEF StartWorks
  <2>2. QED
    BY <1>3, <1>4, <1>7, <2>1 DEF StartWorks
<1>9. QED
  BY <1>5, <1>8

\* The start goes on with the next stage, or begins to wait.
LEMMA StageKeeps ==
  ASSUME IInv, NEW c \in Commands, StartOrder(c), StartWorks(c),
         StartGather(c) \/ StartedAll(c), Active(c)'
  PROVE  StartOrder(c)' /\ StartWorks(c)'
<1> DEFINE o == cmd[c].opts
<1>1. /\ cmd \in [Commands -> Command] /\ cmd[c] \in Command
      /\ UNCHANGED world /\ cmd[c].stage \in Stages
  BY DEF IInv, Command, StartGather, StartedAll
<1>2. \A k : AsWanted(o, k)' = AsWanted(o, k) \/ cmd'[c].opts # o
  BY <1>1 DEF AsWanted, Gone
<1>3. CASE StartGather(c)
  <2>1. cmd' = [cmd EXCEPT ![c].pc = "act", ![c].left = At(cmd[c].stage)]
    BY <1>1, <1>3 DEF StartGather, Active, Command
  <2>2. /\ cmd'[c].pc = "act" /\ cmd'[c].left = At(cmd[c].stage) /\ cmd'[c].opts = o
        /\ cmd'[c].stage = cmd[c].stage /\ cmd'[c].disturbed = cmd[c].disturbed
        /\ cmd[c].pc = "gather"
    BY <1>1, <1>3, <2>1 DEF Command, StartGather
  <2>3. Begun(c)' = Begun(c)
    BY <1>1, <2>2 DEF Begun, At, Stages
  <2>4. QED
    BY <1>2, <2>2, <2>3 DEF StartOrder, StartWorks
<1>4. CASE StartedAll(c)
  <2>1. ~EndWith(c, TRUE)
    BY <1>1 DEF EndWith, Active, Command
  <2>2. cmd[c].pc = "act" /\ cmd[c].left = {}
    BY <1>4 DEF StartedAll
  <2>3. CASE /\ cmd[c].stage = "infrastructure"
             /\ cmd' = [cmd EXCEPT ![c].pc = "gather", ![c].stage = "stack"]
    <3>1. /\ cmd'[c].pc = "gather" /\ cmd'[c].stage = "stack" /\ cmd'[c].opts = o
          /\ cmd'[c].disturbed = cmd[c].disturbed
      BY <1>1, <2>3 DEF Command
    <3>2. Begun(c)' = Begun(c)
      BY <2>2, <2>3, <3>1 DEF Begun, At
    <3>3. QED
      BY <1>2, <3>1, <3>2 DEF StartOrder, StartWorks
  <2>4. CASE /\ cmd[c].stage = "stack" /\ cmd[c].opts.wait
             /\ cmd' = [cmd EXCEPT ![c].pc = "look", ![c].left = At("stack")]
    <3>1. /\ cmd'[c].pc = "look" /\ cmd'[c].stage = "stack" /\ cmd'[c].opts = o
          /\ cmd'[c].left = At("stack") /\ cmd'[c].disturbed = cmd[c].disturbed
      BY <1>1, <2>4 DEF Command
    <3>2. Begun(c)' = Begun(c) /\ At("stack")' = At("stack")
      BY <2>2, <2>4, <3>1 DEF Begun, At
    <3>3. QED
      BY <1>2, <2>4, <3>1, <3>2 DEF StartOrder, StartWorks
  <2>5. QED
    BY <1>4, <2>1, <2>3, <2>4 DEF StartedAll
<1>5. QED
  BY <1>3, <1>4

LEMMA StartStep == IInv /\ Overlap /\ NoneComing /\ StartInv /\ [Next]_vars => StartInv'
<1> SUFFICES ASSUME IInv, Overlap, NoneComing, StartInv, [Next]_vars,
                    NEW c \in Commands, Active(c)', Starting(c)'
             PROVE  StartOrder(c)' /\ StartWorks(c)'
  BY DEF StartInv
<1>1. CASE Run(c)
  <2>1. cmd'[c].pc = "gather" /\ cmd'[c].stage = "infrastructure"
    BY <1>1, RunFrame DEF Active, Starting
  <2>2. Begun(c)' = {}
    BY <2>1 DEF Begun
  <2>3. QED
    BY <2>1, <2>2 DEF StartOrder, StartWorks
<1>2. CASE Exit(c)
  BY <1>2, ExitFrame DEF Active
<1>3. CASE Step(c) \/ LookFails(c)
  <2>1. Active(c) /\ Starting(c)
    BY <1>3, StepFrame DEF Starting
  <2>2. StartOrder(c) /\ StartWorks(c)
    BY <2>1 DEF StartInv
  <2>3. ~StopGather(c) /\ ~Launch(c) /\ ~StoppedAll(c) /\ ~Receive(c)
        /\ \A i \in Indices : ~StopReturns(c, i) /\ ~Send(c, i)
    BY <2>1, StartIsAlone DEF StopGather, Launch, StoppedAll, Receive, StopReturns, Send
  <2>4. ~LookedAtAll(c)
    <3>1. cmd \in [Commands -> Command] /\ cmd[c] \in Command
      BY DEF IInv
    <3>2. QED
      BY <3>1 DEF LookedAtAll, EndWith, Active, Command
  <2>5. QED
    BY <1>3, <2>1, <2>2, <2>3, <2>4, StartNextKeeps, LookKeeps, StageKeeps DEF Step
<1>4. CASE Kept(c)
  <2>1. Active(c) /\ Starting(c)
    BY <1>4 DEF Kept, Active, Starting
  <2>2. QED
    BY <1>4, <2>1, StartKept DEF StartInv
<1>5. QED
  BY <1>1, <1>2, <1>3, <1>4, Frame

LEMMA NothingBegun == Init => NoneComing /\ StartInv
<1> SUFFICES ASSUME Init
             PROVE  NoneComing /\ StartInv
  OBVIOUS
<1>1. \A c \in Commands : ~Active(c)
  BY DEF Init, Idle, Fresh, Active
<1>2. NoneComing
  BY DEF Init, InitWorld, NoneComing, AtOnce, Cluster
<1>3. QED
  BY <1>1, <1>2 DEF StartInv

\* A start that ends well is done with all parts, and has seen those it waits for.
LEMMA StartDone ==
  ASSUME IInv, StartInv, [Next]_vars, NEW c \in Commands, Ends(c), Starting(c)
  PROVE  StartDelivers(c)
<1> DEFINE o == cmd[c].opts
<1>1. /\ cmd \in [Commands -> Command] /\ cmd[c] \in Command /\ cmd[c].stage \in Stages
      /\ world \in [Resources -> States]
  BY DEF IInv, Command
<1>2. StartOrder(c) /\ StartWorks(c) /\ cmd[c].pc # "idle" /\ cmd[c].pc # "end"
  BY DEF StartInv, Ends, Active
<1>3. SUFFICES ASSUME cmd'[c].ok, cmd[c].disturbed = {}, NEW i \in Indices
               PROVE  /\ Against(o, Res(i)) = {} =>
                           \/ Kind[Res(i)] = "waiter"
                           \/ world[Res(i)] \in {"up"} \cup
                                 IF o.wait /\ Parts[i].stage = "stack" /\ ~MayFade(o, i)
                                 THEN {} ELSE {"coming"}
                      /\ For(o, Res(i)) = {} => Gone(i)
  BY DEF StartDelivers, Gone
<1>4. cmd[c].left = {} /\ cmd[c].stage = "stack"
      /\ (cmd[c].pc = "look" \/ (cmd[c].pc = "act" /\ ~cmd[c].opts.wait))
  <2>1. ~Run(c) /\ ~Exit(c) /\ ~Kept(c)
    BY <1>2, RunFrame, ExitFrame DEF Kept, Ends
  <2>2. ~StopGather(c) /\ ~Launch(c) /\ ~StoppedAll(c) /\ ~Receive(c)
        /\ \A j \in Indices : ~StopReturns(c, j) /\ ~Send(c, j)
    BY StartIsAlone DEF StopGather, Launch, StoppedAll, Receive, StopReturns, Send
  <2>3. \A failed :
          cmd' # [cmd EXCEPT ![c].pc = "end", ![c].ok = FALSE, ![c].left = {},
                             ![c].failed = failed]
    BY <1>1, <1>3 DEF Command
  <2>4. ~EndWith(c, FALSE)
    BY <1>1, <1>3 DEF EndWith, Command
  <2>5. \A left : cmd' # [cmd EXCEPT ![c].left = left]
    BY <1>1, <1>2 DEF Ends, Command
  <2>6. ~StartGather(c)
    <3>1. \A left : cmd' # [cmd EXCEPT ![c].pc = "act", ![c].left = left]
      BY <1>1 DEF Ends, Command
    <3>2. QED
      BY <2>3, <3>1 DEF StartGather
  <2>7. ~StartNext(c)
    BY <2>3, <2>5 DEF StartNext
  <2>8. ~Look(c) /\ ~LookFails(c)
    BY <2>3, <2>4, <2>5 DEF Look, LookFails
  <2>9. CASE LookedAtAll(c)
    BY <1>2, <2>9 DEF LookedAtAll, StartOrder
  <2>10. CASE StartedAll(c)
    <3>1. cmd' # [cmd EXCEPT ![c].pc = "gather", ![c].stage = "stack"]
      BY <1>1 DEF Ends, Command
    <3>2. cmd' # [cmd EXCEPT ![c].pc = "look", ![c].left = At("stack")]
      BY <1>1 DEF Ends, Command
    <3>3. QED
      BY <2>10, <3>1, <3>2 DEF StartedAll
  <2>11. QED
    BY <2>1, <2>2, <2>6, <2>7, <2>8, <2>9, <2>10, Frame DEF Step
<1>5. Parts[i].stage \in Stages
  BY PartTyped
<1>6. i \in Begun(c)
  BY <1>4, <1>5 DEF Begun, At, Stages
<1>7. AsWanted(o, i)
  BY <1>2, <1>3, <1>6 DEF StartWorks
<1>8. ASSUME o.wait, Parts[i].stage = "stack"
      PROVE  Seen(o, i)
  BY <1>2, <1>3, <1>4, <1>8 DEF StartWorks, At
<1>9. QED
  BY <1>7, <1>8 DEF AsWanted, Seen

\* A command that ends has done what it was asked to, whatever the stack, as far as
\* nothing else undid it: a start that succeeds leaves the stack as its modes want it,
\* a stop all of what it could stop down.
THEOREM EndsAsAskedCorrect == Spec => EndsAsAsked
<1> DEFINE Asked_ ==
      \A c \in Commands :
        Ends(c) => IF Starting(c) THEN StartDelivers(c) ELSE StopDelivers(c)
<1>1. IInv /\ StopInv /\ StartInv /\ [Next]_vars => [Asked_]_vars
  BY StartDone, StopDone
<1>2. Init => NoneComing /\ StartInv
  BY NothingBegun
<1>3. (IInv /\ Overlap /\ StopInv) /\ (NoneComing /\ StartInv) /\ [Next]_vars =>
        (NoneComing /\ StartInv)'
  BY NoneComingStep, StartStep
<1>4. Spec => [](NoneComing /\ StartInv)
  BY <1>2, <1>3, StopsInv, PTL DEF Spec
<1>5. QED
  BY <1>1, <1>4, StopsInv, PTL DEF Spec, EndsAsAsked

-----------------------------------------------------------------------------
(***************************************************************************)
(* A start succeeds.  What it waited for stays: by the rules of the order  *)
(* nothing that comes later touches it, nor what it rests on, which was    *)
(* waited for before it; so that each part finds it at its turn.           *)
(***************************************************************************)

\* Kubernetes' API and its nodes are there or come.
ClusterThere == \A r \in Resources : Kind[r] \in Cluster => world[r] # "down"

\* The parts of a stage are begun in their order.
TurnOrder(c) ==
  cmd[c].pc = "act" =>
    /\ cmd[c].left \subseteq At(cmd[c].stage)
    /\ \A i \in At(cmd[c].stage) \ cmd[c].left, j \in cmd[c].left : i < j

\* What the waiters that are done waited for.
Obtained(c) == UNION {Needs[Res(j)] : j \in {j \in Begun(c) : Waits(cmd[c].opts, j)}}

Holds(c) ==
  cmd[c].disturbed = {} /\ InOrder(cmd[c].opts) => \A t \in Obtained(c) : world[t] = "up"

TurnInv == \A c \in Commands : Active(c) /\ Starting(c) => TurnOrder(c)
HoldInv == \A c \in Commands : Active(c) /\ Starting(c) => Holds(c)

LEMMA ClusterThereStep == IInv /\ ClusterThere /\ [Next]_vars => ClusterThere'
<1> SUFFICES ASSUME IInv, ClusterThere, [Next]_vars, NEW q \in Resources, Kind[q] \in Cluster
             PROVE  world'[q] # "down"
  BY DEF ClusterThere
<1>1. world \in [Resources -> States] /\ world[q] # "down"
  BY DEF IInv, ClusterThere
<1>2. ASSUME NEW r \in Resources, NEW t, Set(r, t), r # q \/ t # "down"
      PROVE  world'[q] # "down"
  BY <1>1, <1>2 DEF Set
<1>3. ASSUME NEW r \in Resources, Kind[r] \notin Cluster, NEW t, Set(r, t)
      PROVE  world'[q] # "down"
  BY <1>2, <1>3
<1>4. ASSUME NEW r \in Resources, Comes(r) \/ Fades(r) \/ Falls(r)
      PROVE  world'[q] # "down"
  <2>1. PICK t \in {"up", "coming"} : Set(r, t)
    BY <1>4 DEF Comes, Fades, Falls, Appear, Fade, Fall
  <2>2. QED
    BY <1>2, <2>1
<1>5. QED
  BY <1>1, <1>3, <1>4, Changes

\* A start that goes on has started, or stopped, the next.
LEMMA NextStarted ==
  ASSUME IInv, NEW c \in Commands, StartNext(c), Active(c)'
  PROVE  \E i \in First(c) :
           /\ \E t \in (IF IsAnti(cmd[c].opts, i) THEN Stopped(Res(i)) ELSE Started(Res(i))) :
                Set(Res(i), t)
           /\ cmd' = [cmd EXCEPT ![c].left = @ \ {i}]
           /\ i \in Indices /\ cmd[c].pc = "act" /\ cmd'[c].pc = "act"
           /\ cmd'[c].left = cmd[c].left \ {i} /\ cmd'[c].opts = cmd[c].opts
           /\ cmd'[c].stage = cmd[c].stage /\ cmd'[c].disturbed = cmd[c].disturbed
<1>1. /\ cmd \in [Commands -> Command] /\ cmd[c] \in Command /\ cmd[c].pc = "act"
  BY DEF IInv, StartNext
<1>2. \A failed :
        cmd' # [cmd EXCEPT ![c].pc = "end", ![c].ok = FALSE, ![c].left = {},
                           ![c].failed = failed]
  BY <1>1 DEF Active, Command
<1>3. PICK i \in First(c) :
        LET r     == Res(i)
            anti  == IsAnti(cmd[c].opts, i)
            after == IF anti THEN Stopped(r) ELSE Started(r) IN
        \/ /\ \E s \in after : Set(r, s)
           /\ cmd' = [cmd EXCEPT ![c].left = @ \ {i}]
        \/ cmd' = [cmd EXCEPT ![c].pc = "end", ![c].ok = FALSE, ![c].left = {},
                              ![c].failed = IF r \in Faulty THEN {i} ELSE {}]
  BY DEF StartNext
<1>4. /\ \E t \in (IF IsAnti(cmd[c].opts, i) THEN Stopped(Res(i)) ELSE Started(Res(i))) :
           Set(Res(i), t)
      /\ cmd' = [cmd EXCEPT ![c].left = @ \ {i}]
  BY <1>2, <1>3
<1>5. /\ i \in Indices /\ cmd'[c].pc = "act"
      /\ cmd'[c].left = cmd[c].left \ {i} /\ cmd'[c].opts = cmd[c].opts
      /\ cmd'[c].stage = cmd[c].stage /\ cmd'[c].disturbed = cmd[c].disturbed
  BY <1>1, <1>4 DEF Command, First
<1>6. QED
  BY <1>1, <1>4, <1>5

\* A step of a start that goes on, but for that.
LEMMA StartGoesOn ==
  ASSUME IInv, NEW c \in Commands, Starting(c), Step(c) \/ LookFails(c), Active(c)', ~StartNext(c)
  PROVE  /\ UNCHANGED world
         /\ \/ /\ cmd[c].pc = "gather" /\ cmd'[c].pc = "act" /\ cmd'[c].stage = cmd[c].stage
               /\ cmd'[c].left = At(cmd[c].stage)
            \/ /\ cmd[c].pc = "act" /\ cmd[c].left = {} /\ cmd[c].stage = "infrastructure"
               /\ cmd'[c].pc = "gather" /\ cmd'[c].stage = "stack"
            \/ /\ cmd[c].pc = "act" /\ cmd[c].left = {} /\ cmd[c].stage = "stack"
               /\ cmd'[c].pc = "look" /\ cmd'[c].stage = "stack"
            \/ /\ cmd[c].pc = "look" /\ cmd'[c].pc = "look" /\ cmd'[c].stage = cmd[c].stage
<1>1. /\ cmd \in [Commands -> Command] /\ cmd[c] \in Command
  BY DEF IInv
<1>2. \A ok : ~EndWith(c, ok)
  BY <1>1 DEF EndWith, Active, Command
<1>3. \A failed :
        cmd' # [cmd EXCEPT ![c].pc = "end", ![c].ok = FALSE, ![c].left = {},
                           ![c].failed = failed]
  BY <1>1 DEF Active, Command
<1>4. ~StopGather(c) /\ ~Launch(c) /\ ~StoppedAll(c) /\ ~Receive(c)
      /\ \A i \in Indices : ~StopReturns(c, i) /\ ~Send(c, i)
  BY StartIsAlone DEF StopGather, Launch, StoppedAll, Receive, StopReturns, Send
<1>5. CASE StartGather(c)
  <2>1. cmd' = [cmd EXCEPT ![c].pc = "act", ![c].left = At(cmd[c].stage)]
    BY <1>3, <1>5 DEF StartGather
  <2>2. QED
    BY <1>1, <1>5, <2>1 DEF StartGather, Command
<1>6. CASE StartedAll(c)
  <2>1. \/ /\ cmd[c].stage = "infrastructure"
           /\ cmd' = [cmd EXCEPT ![c].pc = "gather", ![c].stage = "stack"]
        \/ /\ cmd[c].stage = "stack"
           /\ cmd' = [cmd EXCEPT ![c].pc = "look", ![c].left = At("stack")]
    BY <1>2, <1>6 DEF StartedAll
  <2>2. QED
    BY <1>1, <1>6, <2>1 DEF StartedAll, Command
<1>7. CASE Look(c) \/ LookFails(c)
  <2>1. \E i \in First(c) : cmd' = [cmd EXCEPT ![c].left = @ \ {i}]
    BY <1>2, <1>3, <1>7 DEF Look, LookFails
  <2>2. cmd[c].pc = "look" /\ UNCHANGED world
    BY <1>7 DEF Look, LookFails
  <2>3. QED
    BY <1>1, <2>1, <2>2 DEF Command
<1>8. ~LookedAtAll(c)
  BY <1>2 DEF LookedAtAll
<1>9. QED
  BY <1>4, <1>5, <1>6, <1>7, <1>8 DEF Step

LEMMA TurnStep == IInv /\ TurnInv /\ [Next]_vars => TurnInv'
<1> SUFFICES ASSUME IInv, TurnInv, [Next]_vars, NEW c \in Commands, Active(c)', Starting(c)',
                    cmd'[c].pc = "act"
             PROVE  TurnOrder(c)'
  BY DEF TurnInv, TurnOrder
<1>1. cmd[c].left \subseteq Nat
  BY IndicesNat, AtTyped
<1>2. ~Run(c) /\ ~Exit(c)
  BY RunFrame, ExitFrame
<1>3. CASE StartNext(c)
  <2>1. PICK i \in First(c) : /\ cmd[c].pc = "act" /\ cmd'[c].left = cmd[c].left \ {i}
                              /\ cmd'[c].stage = cmd[c].stage
    BY <1>3, NextStarted
  <2>2. TurnOrder(c) /\ i \in cmd[c].left /\ \A j \in cmd[c].left : i <= j
    BY <1>3, <2>1 DEF TurnInv, Active, StartNext, First
  <2>3. ASSUME NEW k \in At(cmd[c].stage) \ cmd'[c].left, NEW j \in cmd'[c].left
        PROVE  k < j
    <3>1. CASE k = i
      BY <1>1, <2>1, <2>2, <2>3, <3>1
    <3>2. CASE k # i
      BY <2>1, <2>2, <2>3, <3>2 DEF TurnOrder
    <3>3. QED
      BY <3>1, <3>2
  <2>4. QED
    BY <2>1, <2>2, <2>3 DEF TurnOrder, At
<1>4. CASE (Step(c) \/ LookFails(c)) /\ ~StartNext(c)
  <2>1. Starting(c)
    BY <1>4, StepFrame DEF Starting
  <2>2. cmd'[c].left = At(cmd[c].stage) /\ cmd'[c].stage = cmd[c].stage
    BY <1>4, <2>1, StartGoesOn
  <2>3. QED
    BY <2>2 DEF TurnOrder, At
<1>5. CASE Kept(c)
  <2>1. TurnOrder(c)
    BY <1>5 DEF Kept, TurnInv, Active, Starting
  <2>2. QED
    BY <1>5, <2>1 DEF Kept, TurnOrder, At
<1>6. QED
  BY <1>2, <1>3, <1>4, <1>5, Frame

\* What comes before a part that is begun, or at its turn, is begun.
LEMMA BegunBefore ==
  ASSUME IInv, NEW c \in Commands, TurnOrder(c), NEW i \in Indices, NEW k \in Indices,
         Precedes(k, i),
         i \in Begun(c) \/ (cmd[c].pc = "act" /\ i \in First(c))
  PROVE  k \in Begun(c)
<1>1. /\ cmd[c].stage \in Stages /\ Parts[i].stage \in Stages /\ Parts[k].stage \in Stages
      /\ i \in Nat /\ k \in Nat /\ cmd[c].left \subseteq Nat
  BY PartTyped, AtTyped, IndicesNat
<1>2. CASE Parts[k].stage # Parts[i].stage
  BY <1>1, <1>2 DEF Precedes, Begun, At, Stages, First, TurnOrder
<1>3. CASE Parts[k].stage = Parts[i].stage
  <2>1. k < i
    BY <1>3 DEF Precedes
  <2>2. ASSUME cmd[c].pc = "act", Parts[i].stage = cmd[c].stage
        PROVE  k \notin cmd[c].left
    <3>1. CASE i \in cmd[c].left
      BY <1>1, <2>1, <2>2, <3>1 DEF First, Begun, At, Stages
    <3>2. CASE i \notin cmd[c].left
      <4>1. i \in At(cmd[c].stage) \ cmd[c].left
        BY <2>2, <3>2 DEF At
      <4>2. \A j \in cmd[c].left : i < j
        BY <2>2, <4>1 DEF TurnOrder
      <4>3. QED
        BY <1>1, <2>1, <4>2
    <3>3. QED
      BY <3>1, <3>2
  <2>3. QED
    BY <1>1, <1>3, <2>2 DEF Begun, At, Stages, First, TurnOrder
<1>4. QED
  BY <1>2, <1>3

\* And what is begun comes before the part at its turn.
LEMMA BeforeTurn ==
  ASSUME IInv, NEW c \in Commands, TurnOrder(c), cmd[c].pc = "act", NEW i \in First(c),
         NEW j \in Begun(c)
  PROVE  Precedes(j, i)
<1>1. /\ cmd[c].stage \in Stages /\ i \in At(cmd[c].stage) /\ i \in cmd[c].left
  BY AtTyped DEF First, TurnOrder
<1>2. j \in Indices /\ Parts[j].stage \in Stages
  BY AtIndices, PartTyped
<1>3. CASE Parts[j].stage = Parts[i].stage
  <2>1. j \in At(cmd[c].stage) \ cmd[c].left
    BY <1>1, <1>2, <1>3 DEF Begun, At, Stages
  <2>2. QED
    BY <1>1, <1>3, <2>1 DEF TurnOrder, Precedes
<1>4. CASE Parts[j].stage # Parts[i].stage
  BY <1>1, <1>2, <1>4 DEF Begun, At, Stages, Precedes
<1>5. QED
  BY <1>3, <1>4

\* So that what was waited for before a part that is begun, or at its turn, is obtained.
LEMMA AwaitedObtained ==
  ASSUME IInv, NEW c \in Commands, TurnOrder(c), NEW i \in Indices,
         i \in Begun(c) \/ (cmd[c].pc = "act" /\ i \in First(c))
  PROVE  Awaited(cmd[c].opts, i) \subseteq Obtained(c)
BY BegunBefore DEF Awaited, Obtained

\* A resource's status is no error, if what serves it is up and it exists.
LEMMA StatusIsFine ==
  ASSUME IInv, NEW r \in Resources, Answered(r), world[r] # "down"
  PROVE  Status(r) # "error"
BY DEF Status

LEMMA ServedAnswered ==
  ASSUME NEW o, NEW i \in Indices, NEW r \in Resources, Served(o, i, r),
         \A t \in Awaited(o, i) : world[t] = "up"
  PROVE  Answered(r)
BY DEF Served, Answered

\* Who waits, waits for one resource.
LEMMA WaitsForOne ==
  ASSUME NEW o, NEW i \in Indices, Waits(o, i)
  PROVE  \E t \in Resources : /\ Needs[Res(i)] = {t} /\ Kind[t] # "waiter" /\ Kind[t] \in DOMAIN Types
                              /\ Ready(Res(i)) = Status(t)
<1>1. Res(i) \in Resources /\ Kind[Res(i)] = "waiter"
  BY PartTyped DEF Waits
<1>2. PICK t \in Resources : Needs[Res(i)] = {t} /\ Kind[t] # "waiter"
  BY <1>1, NeedsAssumption
<1>3. (CHOOSE u \in Needs[Res(i)] : TRUE) = t
  BY <1>2
<1>4. Ready(Res(i)) = Status(t)
  BY <1>1, <1>3 DEF Ready
<1>5. QED
  BY <1>2, <1>4, KindAssumption

\* What is waited for is there or comes, and its status is known; once it is ready, it is up.
LEMMA TargetThere ==
  ASSUME IInv, NoneComing, ClusterThere, NEW o, InOrder(o), NEW i \in Indices, Waits(o, i),
         \A t \in Awaited(o, i) : world[t] = "up",
         \A j \in Indices : Precedes(j, i) => AsWanted(o, j)
  PROVE  /\ Ready(Res(i)) # "error"
         /\ Ready(Res(i)) = "yes" => \A t \in Needs[Res(i)] : world[t] = "up"
<1>1. PICK t \in Resources :
        /\ Needs[Res(i)] = {t} /\ Kind[t] # "waiter" /\ Kind[t] \in DOMAIN Types
        /\ Ready(Res(i)) = Status(t)
  BY WaitsForOne
<1>2. /\ Served(o, i, t)
      /\ Kind[t] \in Cluster \/ \E j \in Indices : Res(j) = t /\ Precedes(j, i) /\ ~IsAnti(o, j)
  BY <1>1 DEF InOrder
<1>3. Answered(t)
  BY <1>2, ServedAnswered
<1>4. world[t] \in {"up", "coming"}
  <2>1. CASE Kind[t] \in Cluster
    BY <2>1 DEF ClusterThere, IInv, States
  <2>2. ASSUME NEW j \in Indices, Res(j) = t, Precedes(j, i), ~IsAnti(o, j)
        PROVE  world[t] \in {"up", "coming"}
    <3>1. Against(o, t) = {} /\ AsWanted(o, j)
      BY <2>2 DEF InOrder
    <3>2. QED
      BY <1>1, <2>2, <3>1 DEF AsWanted
  <2>3. QED
    BY <1>2, <2>1, <2>2
<1>5. Ready(Res(i)) # "error"
  BY <1>1, <1>3, <1>4, StatusIsFine
<1>6. ASSUME Ready(Res(i)) = "yes"
      PROVE  world[t] = "up"
  <2>1. world[t] \in Types[Kind[t]].ready
    BY <1>1, <1>6 DEF Status
  <2>2. Kind[t] \in AtOnce => world[t] # "coming"
    BY DEF NoneComing
  <2>3. "up" \in States
    BY DEF States
  <2>4. QED
    BY <1>1, <1>4, <2>1, <2>2, <2>3, StartOfType
<1>7. QED
  BY <1>1, <1>5, <1>6

\* What was obtained rests on what was obtained before.
LEMMA ObtainedRests ==
  ASSUME IInv, NEW c \in Commands, TurnOrder(c), InOrder(cmd[c].opts),
         NEW t \in Obtained(c)
  PROVE  /\ t \in Resources
         /\ Kind[t] \in Cluster => Needs[t] \subseteq Obtained(c)
         /\ Kind[t] = "service" => {w \in Needs[t] : Types[Kind[w]].fails} \subseteq Obtained(c)
<1> DEFINE o == cmd[c].opts
<1>1. PICK j \in Begun(c) : Waits(o, j) /\ t \in Needs[Res(j)]
  BY DEF Obtained
<1>2. j \in Indices /\ Res(j) \in Resources
  BY AtIndices, PartTyped
<1>3. Awaited(o, j) \subseteq Obtained(c)
  BY <1>2, AwaitedObtained
<1>4. /\ Kind[t] \in Cluster => Needs[t] \subseteq Awaited(o, j)
      /\ Kind[t] = "service" => {w \in Needs[t] : Types[Kind[w]].fails} \subseteq Awaited(o, j)
  BY <1>1, <1>2 DEF InOrder, Served
<1>5. t \in Resources
  BY <1>1, <1>2, NeedsAssumption
<1>6. QED
  BY <1>3, <1>4, <1>5

\* Nothing that happens by itself takes it away.
LEMMA HoldKept ==
  ASSUME IInv, Overlap, [Next]_vars, NEW c \in Commands, Active(c), Starting(c), Kept(c),
         TurnOrder(c), Holds(c)
  PROVE  Holds(c)'
<1>1. Begun(c)' = Begun(c) /\ cmd'[c].opts = cmd[c].opts
  BY DEF Begun, Kept, At
<1>2. Obtained(c)' = Obtained(c) /\ (InOrder(cmd[c].opts)' <=> InOrder(cmd[c].opts))
  BY <1>1 DEF Obtained, Waits, IsAnti, InOrder, Served, Awaited, Precedes, Against, Res
<1>3. SUFFICES ASSUME cmd'[c].disturbed = {}, InOrder(cmd[c].opts), NEW t \in Obtained(c)
               PROVE  world'[t] = "up"
  BY <1>1, <1>2 DEF Holds
<1>4. \A u \in Obtained(c) : world[u] = "up"
  BY <1>3 DEF Holds, Kept
<1>5. world \in [Resources -> States]
  BY DEF IInv
<1>6. ASSUME NEW r \in Resources, Comes(r) \/ Fades(r)
      PROVE  world'[t] = "up"
  <2>1. r \notin Obtained(c)
    <3>1. SUFFICES ASSUME r \in Obtained(c)
                   PROVE  FALSE
      OBVIOUS
    <3>2. world[r] = "up"
      BY <1>4, <3>1
    <3>3. PICK w \in Needs[r] : /\ Kind[r] = "service"
                                /\ Types[Kind[w]].fails /\ world[w] # "up"
      BY <1>6, <3>2 DEF Comes, Fades, Appear, Fade
    <3>4. w \in Obtained(c)
      BY <3>1, <3>3, <1>3, ObtainedRests
    <3>5. QED
      BY <1>4, <3>3, <3>4
  <2>2. PICK s : Set(r, s)
    BY <1>6 DEF Comes, Fades, Appear, Fade
  <2>3. t \in Resources /\ (Kind[t] \in Cluster => r \notin Needs[t])
    BY <1>3, <2>1, ObtainedRests
  <2>4. world'[t] = world[t]
    BY <1>3, <2>1, <2>2, <2>3 DEF Set
  <2>5. QED
    BY <1>3, <1>4, <2>4
<1>7. QED
  BY <1>3, <1>4, <1>6, QuietWorld

\* Nor does a part that is started or stopped later; and a waiter's Start returns when what
\* it waits for is up.
LEMMA HoldNext ==
  ASSUME IInv, NoneComing, ClusterThere, NEW c \in Commands, StartNext(c), Active(c)',
         TurnOrder(c), StartWorks(c), Holds(c)
  PROVE  Holds(c)'
<1> DEFINE o == cmd[c].opts
<1>1. PICK i \in First(c) :
        /\ \E s \in (IF IsAnti(o, i) THEN Stopped(Res(i)) ELSE Started(Res(i))) : Set(Res(i), s)
        /\ i \in Indices /\ cmd[c].pc = "act" /\ cmd'[c].pc = "act"
        /\ cmd'[c].left = cmd[c].left \ {i} /\ cmd'[c].opts = o
        /\ cmd'[c].stage = cmd[c].stage /\ cmd'[c].disturbed = cmd[c].disturbed
  BY NextStarted
<1>2. PICK s \in (IF IsAnti(o, i) THEN Stopped(Res(i)) ELSE Started(Res(i))) : Set(Res(i), s)
  BY <1>1
<1>3. /\ world \in [Resources -> States] /\ cmd[c].stage \in Stages
      /\ Res(i) \in Resources /\ Kind[Res(i)] \notin Cluster
  BY <1>1, AtTyped, PartKind DEF IInv
<1>4. Begun(c)' \subseteq Begun(c) \cup {i}
  BY <1>1, <1>3 DEF Begun, At, Stages
<1>5. (InOrder(cmd[c].opts)' <=> InOrder(o)) /\ \A j : Waits(o, j)' <=> Waits(o, j)
  BY <1>1 DEF Waits, IsAnti, InOrder, Served, Awaited, Precedes, Against, Res
<1>6. SUFFICES ASSUME cmd[c].disturbed = {}, InOrder(o),
                      NEW j \in Begun(c) \cup {i}, Waits(o, j), NEW t \in Needs[Res(j)]
               PROVE  world'[t] = "up"
  <2>1. Obtained(c)' \subseteq UNION {Needs[Res(j)] : j \in {j \in Begun(c) \cup {i} : Waits(o, j)}}
    <3>1. Obtained(c)' = UNION {Needs[Res(j)] : j \in {j \in Begun(c)' : Waits(o, j)}}
      BY <1>1 DEF Obtained, Waits, IsAnti, Res
    <3>2. ASSUME NEW t \in Obtained(c)'
          PROVE  \E j \in Begun(c) \cup {i} : Waits(o, j) /\ t \in Needs[Res(j)]
      BY <1>4, <3>1, <3>2
    <3>3. QED
      BY <3>2
  <2>2. QED
    BY <1>1, <1>5, <1>6, <2>1 DEF Holds
<1>7. \A u \in Obtained(c) : world[u] = "up"
  BY <1>6 DEF Holds
<1>8. Awaited(o, i) \subseteq Obtained(c)
  BY <1>1, AwaitedObtained
<1>9. CASE j \in Begun(c)
  <2>1. j \in Indices /\ Precedes(j, i) /\ Res(j) \in Resources
    BY <1>1, <1>9, AtIndices, BeforeTurn, PartTyped
  <2>2. t \in Awaited(o, i) /\ t \in Resources
    BY <1>6, <2>1, NeedsAssumption DEF Awaited
  <2>3. Res(i) # t /\ (Kind[t] \in Cluster => Res(i) \notin Needs[t])
    BY <1>1, <1>6, <2>2 DEF InOrder
  <2>4. world'[t] = world[t]
    BY <1>2, <2>2, <2>3 DEF Set
  <2>5. QED
    BY <1>7, <1>8, <2>2, <2>4
<1>10. CASE j = i
  <2>1. PICK u \in Resources : Needs[Res(i)] = {u} /\ Kind[u] # "waiter"
    BY <1>1, <1>6, <1>10, WaitsForOne
  <2>2. ~IsAnti(o, i) /\ Kind[Res(i)] = "waiter" /\ t = u
    BY <1>6, <1>10, <2>1 DEF Waits
  <2>3. s = world[Res(i)] /\ Ready(Res(i)) = "yes"
    <3>1. s \in Types["waiter"].start[world[Res(i)]] /\ Ready(Res(i)) = "yes"
      BY <1>2, <2>2 DEF Started
    <3>2. Types["waiter"].start[world[Res(i)]] = {world[Res(i)]}
      BY <1>3 DEF Types, Waiter, Keep
    <3>3. QED
      BY <3>1, <3>2
  <2>4. world'[t] = world[t]
    BY <1>2, <2>1, <2>2, <2>3 DEF Set
  <2>5. ASSUME NEW k \in Indices, Precedes(k, i)
        PROVE  AsWanted(o, k)
    <3>1. k \in Begun(c)
      BY <1>1, <2>5, BegunBefore
    <3>2. QED
      BY <1>6, <3>1 DEF StartWorks
  <2>6. world[t] = "up"
    BY <1>1, <1>6, <1>7, <1>8, <1>10, <2>3, <2>5, TargetThere
  <2>7. QED
    BY <2>4, <2>6
<1>11. QED
  BY <1>6, <1>9, <1>10

LEMMA HoldStep ==
  IInv /\ Overlap /\ NoneComing /\ ClusterThere /\ StartInv /\ TurnInv /\ HoldInv /\ [Next]_vars
    => HoldInv'
<1> SUFFICES ASSUME IInv, Overlap, NoneComing, ClusterThere, StartInv, TurnInv, HoldInv,
                    [Next]_vars, NEW c \in Commands, Active(c)', Starting(c)'
             PROVE  Holds(c)'
  BY DEF HoldInv
<1>1. CASE Run(c)
  <2>1. cmd'[c].pc = "gather" /\ cmd'[c].stage = "infrastructure"
    BY <1>1, RunFrame DEF Active, Starting
  <2>2. Begun(c)' = {}
    BY <2>1 DEF Begun
  <2>3. QED
    BY <2>2 DEF Holds, Obtained
<1>2. CASE Exit(c)
  BY <1>2, ExitFrame DEF Active
<1>3. CASE Step(c) \/ LookFails(c)
  <2>1. /\ Active(c) /\ Starting(c)
        /\ cmd'[c].opts = cmd[c].opts /\ cmd'[c].disturbed = cmd[c].disturbed
    BY <1>3, StepFrame DEF Starting
  <2>2. StartWorks(c) /\ TurnOrder(c) /\ Holds(c)
    BY <2>1 DEF StartInv, TurnInv, HoldInv
  <2>3. CASE StartNext(c)
    BY <2>2, <2>3, HoldNext
  <2>4. CASE ~StartNext(c)
    <3>1. Begun(c)' = Begun(c) /\ UNCHANGED world
      <4>1. cmd[c].stage \in Stages
        BY AtTyped
      <4>2. cmd[c].pc = "look" => cmd[c].stage = "stack"
        BY <2>1 DEF StartInv, StartOrder
      <4>3. QED
        BY <1>3, <2>1, <2>4, <4>1, <4>2, StartGoesOn DEF Begun, At, Stages
    <3>2. Obtained(c)' = Obtained(c) /\ (InOrder(cmd[c].opts)' <=> InOrder(cmd[c].opts))
      BY <2>1, <3>1 DEF Obtained, Waits, IsAnti, InOrder, Served, Awaited, Precedes, Against, Res
    <3>3. QED
      BY <2>1, <2>2, <3>1, <3>2 DEF Holds
  <2>5. QED
    BY <2>3, <2>4
<1>4. CASE Kept(c)
  <2>1. Active(c) /\ Starting(c)
    BY <1>4 DEF Kept, Active, Starting
  <2>2. QED
    BY <1>4, <2>1, HoldKept DEF TurnInv, HoldInv
<1>5. QED
  BY <1>1, <1>2, <1>3, <1>4, Frame

\* There is always something Start and Stop may make of a resource, but of a container
\* that exists.
LEMMA NeverNothing ==
  ASSUME NEW k \in DOMAIN Types, NEW s \in States
  PROVE  /\ Types[k].stop[s] # {}
         /\ Types[k].start[s] # {} \/ (k = "container" /\ s # "down")
<1>1. /\ Apply({})[s] # {} /\ Apply({"coming"})[s] # {} /\ Made[s] # {}
      /\ Delete[s] # {} /\ Keep[s] # {}
  BY DEF Apply, Made, Delete, Keep, States
<1>2. CASE k \in {"statefulset", "deployment", "process"}
  BY <1>1, <1>2 DEF Types, accStatefulSet, accDeployment, PM
<1>3. CASE k \in {"job", "service", "claim"}
  BY <1>1, <1>3 DEF Types, accBatchJob, accService, accPVC
<1>4. CASE k \in {"cronjob", "configmap", "secret"}
  BY <1>1, <1>4 DEF Types, accCronJob, accConfigMap, accSecret
<1>5. CASE k \in {"volume", "databases"}
  BY <1>1, <1>5 DEF Types, Volume, InitDBs
<1>6. CASE k = "container"
  <2>1. Types[k] = Container
    BY <1>6 DEF Types
  <2>2. Container.stop = Delete /\ (s = "down" => Container.start[s] = {"up"})
    BY DEF Container, States
  <2>3. QED
    BY <1>1, <1>6, <2>1, <2>2
<1>7. CASE k \in {"waiter", "api", "node"}
  BY <1>1, <1>7 DEF Types, Waiter, healthClient, accNode
<1>8. QED
  BY <1>2, <1>3, <1>4, <1>5, <1>6, <1>7 DEF Types

\* Every call of kubernetes, of a server or of a waiter does what it is to do when what was
\* awaited is up; only a container may be in the way of itself.
LEMMA CallsWork ==
  ASSUME IInv, NoneComing, ClusterThere, NEW o, InOrder(o), NEW i \in Indices,
         \A t \in Awaited(o, i) : world[t] = "up",
         \A j \in Indices : Precedes(j, i) => AsWanted(o, j),
         ~Blocks(Res(i)) \/ IsAnti(o, i)
  PROVE  \/ (IF IsAnti(o, i) THEN Stopped(Res(i)) ELSE Started(Res(i))) # {}
         \/ Kind[Res(i)] = "container" /\ world[Res(i)] # "down"
<1> DEFINE r == Res(i)
<1>1. r \in Resources /\ Kind[r] \in DOMAIN Types /\ world[r] \in States
  BY PartKind DEF IInv
<1>2. Answered(r)
  BY <1>1, ServedAnswered DEF InOrder
<1>3. CASE IsAnti(o, i)
  <2>1. Types[Kind[r]].stop[world[r]] # {}
    BY <1>1, NeverNothing
  <2>2. QED
    BY <1>2, <1>3, <2>1 DEF Stopped
<1>4. CASE ~IsAnti(o, i)
  <2>1. Connected(r)
    BY DEF InOrder, Connected
  <2>2. ASSUME Kind[r] = "waiter"
        PROVE  Ready(r) = "yes"
    <3>1. Ready(r) # "error"
      BY <1>4, <2>2, TargetThere DEF Waits
    <3>2. Ready(r) # "no"
      BY <1>4, <2>2 DEF Blocks
    <3>3. Ready(r) \in {"yes", "no", "error"}
      BY DEF Ready, Status
    <3>4. QED
      BY <3>1, <3>2, <3>3
  <2>3. Started(r) = Types[Kind[r]].start[world[r]]
    BY <1>2, <2>1, <2>2 DEF Started
  <2>4. QED
    BY <1>1, <1>4, <2>3, NeverNothing
<1>5. QED
  BY <1>3, <1>4

\* What a start wanted and has begun gives no error when it is looked at.
LEMMA LooksFine ==
  ASSUME IInv, NoneComing, ClusterThere, NEW o, InOrder(o), NEW i \in Indices,
         \A t \in Awaited(o, i) : world[t] = "up",
         \A j \in Indices : AsWanted(o, j),
         ~IsAnti(o, i)
  PROVE  Ready(Res(i)) # "error"
<1>1. CASE Kind[Res(i)] = "waiter"
  BY <1>1, TargetThere DEF Waits
<1>2. CASE Kind[Res(i)] # "waiter"
  <2>1. Res(i) \in Resources
    BY PartTyped
  <2>2. Against(o, Res(i)) = {} /\ Served(o, i, Res(i))
    BY DEF InOrder
  <2>3. Answered(Res(i))
    BY <2>1, <2>2, ServedAnswered
  <2>4. world[Res(i)] # "down"
    BY <1>2, <2>2 DEF AsWanted
  <2>5. QED
    BY <1>2, <2>1, <2>3, <2>4, StatusIsFine DEF Ready
<1>3. QED
  BY <1>1, <1>2

\* How a start ends that does not succeed, when no call failed: the next has nothing to
\* become, or one gives an error when it is looked at.
LEMMA EndsOtherwise ==
  ASSUME IInv, [Next]_vars, NEW c \in Commands, Ends(c), Starting(c), cmd'[c].failed = {},
         ~cmd'[c].ok
  PROVE  \/ /\ cmd[c].pc = "act"
            /\ \E i \in First(c) :
                 /\ IsAnti(cmd[c].opts, i) \/ ~Blocks(Res(i))
                 /\ (IF IsAnti(cmd[c].opts, i) THEN Stopped(Res(i)) ELSE Started(Res(i))) = {}
         \/ /\ cmd[c].pc = "look"
            /\ \E i \in First(c) : Ready(Res(i)) = "error" /\ ~IsAnti(cmd[c].opts, i)
<1>1. /\ cmd \in [Commands -> Command] /\ cmd[c] \in Command
      /\ cmd[c].pc # "idle" /\ cmd[c].pc # "end" /\ cmd'[c].pc = "end"
  BY DEF IInv, Ends, Active
<1>2. ~Run(c) /\ ~Exit(c) /\ ~Kept(c)
  BY <1>1, RunFrame, ExitFrame DEF Kept
<1>3. ~StopGather(c) /\ ~Launch(c) /\ ~StoppedAll(c) /\ ~Receive(c)
      /\ \A j \in Indices : ~StopReturns(c, j) /\ ~Send(c, j)
  BY StartIsAlone DEF StopGather, Launch, StoppedAll, Receive, StopReturns, Send
<1>4. ASSUME NEW failed,
             cmd' = [cmd EXCEPT ![c].pc = "end", ![c].ok = FALSE, ![c].left = {},
                                ![c].failed = failed]
      PROVE  failed = {}
  BY <1>1, <1>4 DEF Command
<1>5. ~EndWith(c, TRUE)
  BY <1>1 DEF EndWith, Command
<1>6. \A left : cmd' # [cmd EXCEPT ![c].left = left]
  BY <1>1 DEF Command
<1>7. \A left : cmd' # [cmd EXCEPT ![c].pc = "act", ![c].left = left]
  BY <1>1 DEF Command
<1>8. \A left : cmd' # [cmd EXCEPT ![c].pc = "look", ![c].left = left]
  BY <1>1 DEF Command
<1>9. \A stage : cmd' # [cmd EXCEPT ![c].pc = "gather", ![c].stage = stage]
  BY <1>1 DEF Command
<1>10. ~StartGather(c)
  <2>1. \A i : cmd' # [cmd EXCEPT ![c].pc = "end", ![c].ok = FALSE, ![c].left = {},
                                  ![c].failed = {i}]
    BY <1>4
  <2>2. QED
    BY <1>7, <2>1 DEF StartGather
<1>11. ~StartedAll(c) /\ ~LookedAtAll(c)
  BY <1>5, <1>8, <1>9 DEF StartedAll, LookedAtAll
<1>12. ~LookFails(c)
  <2>1. \A i : cmd' # [cmd EXCEPT ![c].pc = "end", ![c].ok = FALSE, ![c].left = {},
                                  ![c].failed = {i}]
    BY <1>4
  <2>2. QED
    BY <1>6, <2>1 DEF LookFails
<1>13. CASE Look(c)
  BY <1>6, <1>13 DEF Look
<1>14. CASE StartNext(c)
  <2>1. PICK i \in First(c) :
          LET r     == Res(i)
              anti  == IsAnti(cmd[c].opts, i)
              after == IF anti THEN Stopped(r) ELSE Started(r) IN
          /\ anti \/ ~Blocks(r)
          /\ Fails(r, after)
          /\ cmd' = [cmd EXCEPT ![c].pc = "end", ![c].ok = FALSE, ![c].left = {},
                                ![c].failed = IF r \in Faulty THEN {i} ELSE {}]
    BY <1>6, <1>14 DEF StartNext
  <2>2. Res(i) \notin Faulty
    BY <1>4, <2>1
  <2>3. QED
    BY <1>14, <2>1, <2>2 DEF StartNext, Fails
<1>15. QED
  BY <1>2, <1>3, <1>10, <1>11, <1>12, <1>13, <1>14, Frame DEF Step

\* One that keeps to the rules, and nothing disturbs, ends so only for a container.
LEMMA SucceedsInOrder ==
  ASSUME IInv, NoneComing, ClusterThere, StartInv, TurnInv, HoldInv, [Next]_vars,
         NEW c \in Commands, Ends(c), Starting(c), InOrder(cmd[c].opts),
         cmd[c].disturbed = {}, cmd'[c].failed = {}, ~cmd'[c].ok
  PROVE  \E i \in First(c) : Kind[Res(i)] = "container" /\ world[Res(i)] # "down"
<1> DEFINE o == cmd[c].opts
<1>1. /\ StartOrder(c) /\ TurnOrder(c)
      /\ \A t \in Obtained(c) : world[t] = "up"
      /\ \A j \in Begun(c) : AsWanted(o, j)
  BY DEF StartInv, TurnInv, HoldInv, Holds, StartWorks, Ends
<1>2. CASE cmd[c].pc = "act"
  <2>1. PICK i \in First(c) :
          /\ IsAnti(o, i) \/ ~Blocks(Res(i))
          /\ (IF IsAnti(o, i) THEN Stopped(Res(i)) ELSE Started(Res(i))) = {}
    BY <1>2, EndsOtherwise
  <2>2. i \in Indices
    BY AtTyped DEF First
  <2>3. \A j \in Indices : Precedes(j, i) => AsWanted(o, j)
    BY <1>1, <1>2, <2>2, BegunBefore
  <2>4. \A t \in Awaited(o, i) : world[t] = "up"
    BY <1>1, <1>2, <2>2, AwaitedObtained
  <2>5. QED
    BY <2>1, <2>2, <2>3, <2>4, CallsWork
<1>3. CASE cmd[c].pc = "look"
  <2>1. PICK i \in First(c) : Ready(Res(i)) = "error" /\ ~IsAnti(o, i)
    BY <1>3, EndsOtherwise
  <2>2. i \in Indices
    BY AtTyped DEF First
  <2>3. Indices \subseteq Begun(c)
    BY <1>1, <1>3, PartTyped DEF StartOrder, Begun, At, Stages
  <2>4. \A t \in Awaited(o, i) : world[t] = "up"
    BY <1>1, <2>2, <2>3, AwaitedObtained
  <2>5. Ready(Res(i)) # "error"
    BY <1>1, <2>1, <2>2, <2>3, <2>4, LooksFine
  <2>6. QED
    BY <2>1, <2>5
<1>4. QED
  BY <1>2, <1>3, EndsOtherwise

LEMMA AtFirst == Init => ClusterThere /\ TurnInv /\ HoldInv
<1> SUFFICES ASSUME Init
             PROVE  ClusterThere /\ TurnInv /\ HoldInv
  OBVIOUS
<1>1. \A c \in Commands : ~Active(c)
  BY DEF Init, Idle, Fresh, Active
<1>2. QED
  BY <1>1 DEF Init, InitWorld, ClusterThere, TurnInv, HoldInv

\* Whatever the services, their resources and the commands at work, if services list their
\* resources by the rules of the order: StartServices and waitResources (start.go) succeed
\* when no call fails and nothing disturbs them, unless a container is there already.
THEOREM StartSucceedsCorrect ==
  ASSUME AllInOrder
  PROVE  Spec => StartSucceeds
<1> DEFINE Succeeds ==
      \A c \in Commands :
        Ends(c) /\ Starting(c) /\ cmd[c].disturbed = {} /\ cmd'[c].failed = {} =>
          \/ cmd'[c].ok
          \/ \E i \in First(c) : Kind[Res(i)] = "container" /\ world[Res(i)] # "down"
      Inv == NoneComing /\ StartInv /\ ClusterThere /\ TurnInv /\ HoldInv
<1>1. Init => Inv
  BY NothingBegun, AtFirst
<1>2. (IInv /\ Overlap /\ StopInv) /\ Inv /\ [Next]_vars => Inv'
  BY NoneComingStep, StartStep, ClusterThereStep, TurnStep, HoldStep
<1>3. IInv /\ Inv /\ [Next]_vars => [Succeeds]_vars
  <2>1. ASSUME IInv, Inv, [Next]_vars, NEW c \in Commands,
               Ends(c), Starting(c), cmd[c].disturbed = {}, cmd'[c].failed = {}, ~cmd'[c].ok
        PROVE  \E i \in First(c) : Kind[Res(i)] = "container" /\ world[Res(i)] # "down"
    <3>1. cmd[c].opts \in Options[c]
      BY <2>1 DEF IInv, Good, Typed
    <3>2. InOrder(cmd[c].opts)
      BY <2>1, <3>1 DEF AllInOrder, Starting
    <3>3. QED
      BY <2>1, <3>2, SucceedsInOrder
  <2>2. QED
    BY <2>1
<1> HIDE DEF Inv
<1>4. Spec => []Inv
  BY <1>1, <1>2, StopsInv, PTL DEF Spec
<1>5. QED
  BY <1>3, <1>4, StopsInv, PTL DEF Spec, StartSucceeds
=============================================================================
