----------------------------- MODULE GoCacheMap -----------------------------
(***************************************************************************)
(* What the Go build cache promises its clients (addons/gocache,           *)
(* protocol.go): a lossy map from actions to outputs.  A get may miss at   *)
(* any time; a hit names an output that some put offered for that very     *)
(* action before.  A hit, and a put that succeeds, come with a local file  *)
(* that has the output's bytes, and keeps them.                            *)
(***************************************************************************)
CONSTANTS Actions, Outputs, Empty, Threads, NoOutput

VARIABLES
  offered,  \* the outputs that puts have offered for each action
  held,     \* the outputs there is a local file of
  call      \* each client's call, or the answer to its last one

vars == <<offered, held, call>>

Call(op, a)  == [op |-> op, act |-> a, res |-> "none", out |-> NoOutput]
Under(t, op) == call[t].op = op /\ call[t].res = "none"
Answer(t, r, o) == call' = [call EXCEPT ![t].res = r, ![t].out = o]

Init ==
  /\ offered \in [Actions -> SUBSET Outputs]
  /\ held = {}
  /\ \E a \in Actions : call = [t \in Threads |-> Call("none", a)]

Get(t, a) ==
  /\ ~Under(t, "get") /\ ~Under(t, "put")
  /\ call' = [call EXCEPT ![t] = Call("get", a)]
  /\ UNCHANGED <<offered, held>>

Put(t, a, o) ==
  /\ ~Under(t, "get") /\ ~Under(t, "put")
  /\ call' = [call EXCEPT ![t] = Call("put", a)]
  /\ offered' = [offered EXCEPT ![a] = @ \cup {o}]
  /\ UNCHANGED held

\* A file of an output appears, by whatever means.
Hold(o) == held' = held \cup {o} /\ UNCHANGED <<offered, call>>

Hit(t) ==
  /\ Under(t, "get")
  /\ \E o \in offered[call[t].act] \cap held : Answer(t, "hit", o)
  /\ UNCHANGED <<offered, held>>

\* The output without bytes has no file.
Stored(t) ==
  /\ Under(t, "put")
  /\ \E o \in offered[call[t].act] \cap (held \cup {Empty}) : Answer(t, "ok", o)
  /\ UNCHANGED <<offered, held>>

Fails(t) ==
  /\ \/ Under(t, "get") /\ Answer(t, "miss", NoOutput)
     \/ Under(t, "put") /\ Answer(t, "failed", NoOutput)
  /\ UNCHANGED <<offered, held>>

\* Processes end in the middle of calls.
Abandoned(gone) ==
  /\ \E a \in Actions :
       call' = [t \in Threads |-> IF t \in gone THEN Call("none", a) ELSE call[t]]
  /\ UNCHANGED <<offered, held>>

Next ==
  \/ \E t \in Threads : Hit(t) \/ Stored(t) \/ Fails(t)
  \/ \E t \in Threads, a \in Actions : Get(t, a) \/ \E o \in Outputs : Put(t, a, o)
  \/ \E o \in Outputs : Hold(o)
  \/ \E gone \in SUBSET Threads : Abandoned(gone)

Spec == Init /\ [][Next]_vars
=============================================================================
