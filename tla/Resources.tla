------------------------------ MODULE Resources ------------------------------
(***************************************************************************)
(* The resources of the addons and what becomes of them: objects of        *)
(* kubernetes (addons/k8s), containers and volumes of docker               *)
(* (addons/docker), children of the process manager (addons/pm/resource),  *)
(* waiters (resource/resource-waiter.go) and the databases made inside a   *)
(* server (addons/postgres, addons/mariadb).  Each type says what Start    *)
(* and Stop ask for and how Ready reads the answer.                        *)
(*                                                                         *)
(* Docker, the process manager and kubernetes are external: what was asked *)
(* for comes about later, when what it needs is there, and may fail.       *)
(***************************************************************************)
CONSTANTS
  Resources,
  Kind,      \* the kind of each
  Needs,     \* what it needs; of a waiter, what it waits for
  Unstable,  \* those that may fail once they are up
  Faulty     \* those of which any call may fail, that of the function that lists it included

VARIABLE world  \* what has become of each resource

States == {"down", "coming", "up"}

-----------------------------------------------------------------------------
(***************************************************************************)
(* The types: what Start and Stop may make of a resource in a state, in    *)
(* which states Ready says yes, and whether it may fail by itself.  Of the *)
(* types of kubernetes this is their accessor.                             *)
(***************************************************************************)

\* What comes about later, if it is not there; of what it replaces the pods may come anew.
Apply(again) == [down |-> {"coming"}, coming |-> {"coming"}, up |-> {"up"} \cup again]
Made         == [s \in States |-> {"up"}]
Delete       == [s \in States |-> {"down"}]

\* What is not to be lost, a volume or databases, is never deleted.
Keep == [s \in States |-> {s}]

accStatefulSet == [start |-> Apply({"coming"}), stop |-> Delete, ready |-> {"up"}, fails |-> TRUE]
accDeployment  == [start |-> Apply({"coming"}), stop |-> Delete, ready |-> {"up"}, fails |-> TRUE]
accBatchJob    == [start |-> Apply({}), stop |-> Delete, ready |-> {"up"}, fails |-> FALSE]
accCronJob     == [start |-> Made, stop |-> Delete, ready |-> {"up"}, fails |-> FALSE]
accConfigMap   == [start |-> Made, stop |-> Delete, ready |-> {"up"}, fails |-> FALSE]
accSecret      == [start |-> Made, stop |-> Delete, ready |-> {"up"}, fails |-> FALSE]

\* A service is ready if an endpoint is, and has been for a while.
accService == [start |-> Apply({}), stop |-> Delete, ready |-> {"up"}, fails |-> FALSE]

\* A claim is ready if it is bound.
accPVC == [start |-> Apply({}), stop |-> Keep, ready |-> {"up"}, fails |-> FALSE]

\* Kubernetes' API and its nodes are not started, only waited for.
healthClient == [start |-> Keep, stop |-> Keep, ready |-> {"up"}, fails |-> FALSE]
accNode      == [start |-> Keep, stop |-> Keep, ready |-> {"up"}, fails |-> FALSE]

\* A child that runs as it is to run is left alone, another is replaced.
PM == [start |-> Apply({"coming"}), stop |-> Delete, ready |-> {"up"}, fails |-> TRUE]

\* A container that exists is in the way of a new one.
Container ==
  [start |-> [s \in States |-> IF s = "down" THEN {"up"} ELSE {}], stop |-> Delete,
   ready |-> States, fails |-> FALSE]
Volume  == [start |-> Made, stop |-> Keep, ready |-> States, fails |-> FALSE]
InitDBs == [start |-> Made, stop |-> Keep, ready |-> States, fails |-> FALSE]
Waiter  == [start |-> Keep, stop |-> Keep, ready |-> {}, fails |-> FALSE]

Types ==
  [statefulset |-> accStatefulSet, deployment |-> accDeployment, job |-> accBatchJob,
   cronjob |-> accCronJob, configmap |-> accConfigMap, secret |-> accSecret,
   service |-> accService, claim |-> accPVC, api |-> healthClient, node |-> accNode,
   process |-> PM, container |-> Container, volume |-> Volume, databases |-> InitDBs,
   waiter |-> Waiter]

Cluster == {"api", "node"}
Lasting == {"claim", "volume", "databases", "waiter"}

ASSUME KindAssumption  == Kind \in [Resources -> DOMAIN Types]
ASSUME NeedsAssumption ==
  /\ Needs \in [Resources -> SUBSET Resources]
  /\ \A r \in Resources : Kind[r] = "waiter" =>
       \E t \in Resources : Needs[r] = {t} /\ Kind[t] # "waiter"

InitWorld == world = [r \in Resources |-> IF Kind[r] \in Cluster THEN "coming" ELSE "down"]

-----------------------------------------------------------------------------
(***************************************************************************)
(* Calls.                                                                  *)
(***************************************************************************)

\* What kubernetes is asked for, or about, is answered by the process that serves it.
Answered(r) ==
  \A a \in {r} \cup Needs[r] : Kind[a] \in Cluster => \A s \in Needs[a] : world[s] = "up"

\* A resource becomes s; kubernetes starts over with the process that serves it.
Set(r, s) ==
  world' = [q \in Resources |->
             IF q = r THEN s
             ELSE IF Kind[q] \in Cluster /\ r \in Needs[q] /\ s # world[r] THEN "coming"
             ELSE world[q]]

\* Ready's answer, but for waiters: of what is not there an error.
Status(r) ==
  IF ~Answered(r) THEN "error"
  ELSE IF world[r] \in Types[Kind[r]].ready THEN "yes"
  ELSE IF world[r] = "down" THEN "error" ELSE "no"

Ready(r) == IF Kind[r] = "waiter" THEN Status(CHOOSE t \in Needs[r] : TRUE) ELSE Status(r)

\* Mutant of Blocks: a waiter's Start asks once.
BlocksNever(r) == FALSE

\* A waiter's Start polls.
Blocks(r) == Kind[r] = "waiter" /\ Ready(r) = "no"

\* Databases are made over a connection to their server, as soon as it is up.
Connected(r) == Kind[r] = "databases" => \A n \in Needs[r] : world[n] = "up"

\* What a Start may make of a resource, and a Stop; nothing, if it fails.
Started(r) ==
  IF Answered(r) /\ Connected(r) /\ (Kind[r] = "waiter" => Ready(r) = "yes")
  THEN Types[Kind[r]].start[world[r]] ELSE {}
Stopped(r) ==
  IF Answered(r) \/ Kind[r] \in Lasting THEN Types[Kind[r]].stop[world[r]] ELSE {}

\* A call that fails may have done its work, or some of it: what may fail by itself is
\* taken away before it is started anew.
Fails(r, after) ==
  \/ (r \in Faulty \/ after = {}) /\ UNCHANGED world
  \/ r \in Faulty /\ \E s \in after \cup IF Types[Kind[r]].fails THEN {"down"} ELSE {} : Set(r, s)

-----------------------------------------------------------------------------
(***************************************************************************)
(* What happens by itself.                                                 *)
(***************************************************************************)

\* What a resource needs to get ready is there.  A volume is found for a claim when
\* a workload asks for it.
Provided(r) ==
  /\ Answered(r)
  /\ IF Kind[r] = "claim"
     THEN \E w \in Resources : r \in Needs[w] /\ world[w] # "down"
     ELSE \A n \in Needs[r] : world[n] = "up" \/ (Kind[n] = "claim" /\ world[n] = "coming")

\* A resource that was started gets ready.
Appear(r) == world[r] = "coming" /\ Provided(r) /\ Set(r, "up")

\* What runs fails, and is started again by what manages it.
Fall(r) == r \in Unstable /\ Types[Kind[r]].fails /\ world[r] = "up" /\ Set(r, "coming")

\* A service's endpoint goes when nothing is behind it any more.
Fade(r) ==
  /\ Kind[r] = "service" /\ world[r] = "up"
  /\ \E w \in Needs[r] : Types[Kind[w]].fails /\ world[w] # "up"
  /\ Set(r, "coming")
=============================================================================
