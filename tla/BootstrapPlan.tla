---------------------------- MODULE BootstrapPlan ----------------------------
(***************************************************************************)
(* The bootstrap plan (addons/bootstrap/plan.go): steps are added, the     *)
(* default steps that others refer to are filled in, and all are put in an *)
(* order in which each comes after those it names in "after" and those     *)
(* that name it in "before".  A plan that cannot be ordered is diagnosed.  *)
(*                                                                         *)
(* The methods are called one at a time, in any order that the interface   *)
(* allows; a method that loops takes one action per turn of its loop.      *)
(* Where it ranges over a Go map any order is possible.                    *)
(***************************************************************************)
EXTENDS Integers, Sequences, FiniteSets

CONSTANTS
  Names,     \* names of steps
  Catalogs   \* what the steps of those names are, and which have a default factory

AnyCatalog == [after : [Names -> SUBSET Names], before : [Names -> SUBSET Names],
               factory : SUBSET Names]
ASSUME CatalogsAssumption == Catalogs \subseteq AnyCatalog

VARIABLES
  catalog,  \* the catalog, which does not change
  pending,  \* p.pending
  ordered,  \* p.ordered
  given,    \* (history) the steps added by callers of AddSteps
  pc,       \* the method under way
  call,     \* Ready, or Run, which begins with it
  ran,      \* how many of the ordered steps Run has run
  visited, path, left, found   \* debugCircularDeps: its locals; what is left to range over

search == <<visited, path, left, found>>
vars == <<catalog, pending, ordered, given, pc, call, ran, search>>

After(s)  == catalog.after[s]
Before(s) == catalog.before[s]
In(seq)   == {seq[i] : i \in DOMAIN seq}
\* The keys of p.byName.
Planned == In(ordered) \cup In(pending)

Init ==
  /\ catalog \in Catalogs
  /\ pending = <<>> /\ ordered = <<>> /\ given = {}
  /\ pc = "idle" /\ call = "ready" /\ ran = 0
  /\ visited = {} /\ path = <<>> /\ left = [n \in Names |-> {}] /\ found = FALSE

-----------------------------------------------------------------------------
(***************************************************************************)
(* AddSteps, AddDefaultSteps and NewDerivedPlan.                           *)
(***************************************************************************)

\* A name is added once only, and a step that is to come before others not after
\* steps were put in order.
Addable(s) == s \notin Planned /\ (Before(s) = {} \/ ordered = <<>>)

\* Mutant of Insert: a step is taken at any time.
InsertLate(s) ==
  /\ IF s \notin Planned THEN pending' = Append(pending, s) /\ UNCHANGED pc
                         ELSE pc' = "panicked" /\ UNCHANGED pending
  /\ UNCHANGED <<catalog, ordered, call, ran, search>>

\* One step of AddSteps.
Insert(s) ==
  /\ IF Addable(s) THEN pending' = Append(pending, s) /\ UNCHANGED pc
                   ELSE pc' = "panicked" /\ UNCHANGED pending
  /\ UNCHANGED <<catalog, ordered, call, ran, search>>

AddStep(s) == pc = "idle" /\ Insert(s) /\ given' = given \cup {s}

\* The other plan has the same steps but for some, in this one's order.
Derive(exceptions) ==
  LET all  == ordered \o pending
      kept == {i \in DOMAIN all : all[i] \notin exceptions} IN
  /\ pc = "idle"
  /\ \E at \in [1 .. Cardinality(kept) -> kept] :
       /\ \A i, j \in DOMAIN at : i < j => at[i] < at[j]
       /\ pending' = [i \in DOMAIN at |-> all[at[i]]]
  /\ ordered' = <<>>
  /\ given' = Planned \ exceptions
  /\ UNCHANGED <<catalog, pc, call, ran, search>>

CallFill == pc = "idle" /\ pc' = "filling"
              /\ UNCHANGED <<catalog, pending, ordered, given, call, ran, search>>

\* The names a step of the plan refers to that have a factory and no step yet; of
\* steps already in order, only "before" is looked at, which is looked at first.
Unfilled(names) == {n \in names \cap catalog.factory : n \notin Planned}

\* Mutant of Wanted: the defaults are not looked at in turn.
WantedOnce(i) ==
  LET s == (ordered \o pending)[i] IN
  IF s \notin given THEN {}
  ELSE IF i <= Len(ordered) \/ Unfilled(Before(s)) # {}
       THEN Unfilled(Before(s)) ELSE Unfilled(After(s))

Wanted(i) ==
  LET s == (ordered \o pending)[i] IN
  IF i <= Len(ordered) \/ Unfilled(Before(s)) # {}
  THEN Unfilled(Before(s)) ELSE Unfilled(After(s))

\* The first step of the plan that wants a default gets it.
Fill ==
  /\ pc = "filling"
  /\ \E i \in 1 .. Len(ordered) + Len(pending) :
       /\ \A j \in 1 .. i - 1 : Wanted(j) = {}
       /\ \E n \in Wanted(i) : Insert(n)
  /\ UNCHANGED given

Filled ==
  /\ pc = "filling"
  /\ \A i \in 1 .. Len(ordered) + Len(pending) : Wanted(i) = {}
  /\ pc' = "idle"
  /\ UNCHANGED <<catalog, pending, ordered, given, call, ran, search>>

-----------------------------------------------------------------------------
(***************************************************************************)
(* Ready: tryResolveAll.                                                   *)
(***************************************************************************)

CallReady(c) ==
  /\ pc = "idle" /\ pc' = "resolving" /\ call' = c
  /\ UNCHANGED <<catalog, pending, ordered, given, ran, search>>

\* Mutant of Resolvable: who else is to come first is not asked.
ResolvableEarly(s) == After(s) \subseteq In(ordered)

\* resolveOne: what the step comes after is in order, and no step that is still
\* pending, itself included, is to come before it.
Resolvable(s) ==
  /\ After(s) \subseteq In(ordered)
  /\ \A p \in In(pending) : s \notin Before(p)

WithoutAt(seq, i) ==
  [j \in 1 .. Len(seq) - 1 |-> IF j < i THEN seq[j] ELSE seq[j + 1]]

\* The first pending step that can be is put in order.
Resolve ==
  /\ pc = "resolving"
  /\ \E i \in DOMAIN pending :
       /\ Resolvable(pending[i])
       /\ \A j \in 1 .. i - 1 : ~Resolvable(pending[j])
       /\ ordered' = Append(ordered, pending[i])
       /\ pending' = WithoutAt(pending, i)
  /\ UNCHANGED <<catalog, given, pc, call, ran, search>>

\* Mutant of Resolved: Run goes on with what could be put in order.
ResolvedPartly ==
  /\ pc = "resolving" /\ \A s \in In(pending) : ~Resolvable(s)
  /\ pc' = IF call = "run" /\ ordered # <<>> THEN "running" ELSE "idle"
  /\ UNCHANGED <<catalog, pending, ordered, given, call, ran, search>>

\* None can be any more: Ready returns, or Run goes on, with the steps or with the
\* diagnosis.
Resolved ==
  /\ pc = "resolving" /\ \A s \in In(pending) : ~Resolvable(s)
  /\ \/ call = "run" /\ pending # <<>> /\ pc' = "searching"
     \/ call = "run" /\ pending = <<>> /\ ordered # <<>> /\ pc' = "running"
     \/ call = "run" /\ pending = <<>> /\ ordered = <<>> /\ pc' = "idle"
     \/ call = "ready" /\ pc' = "idle"
  /\ UNCHANGED <<catalog, pending, ordered, given, call, ran, search>>

-----------------------------------------------------------------------------
(***************************************************************************)
(* Run, and Sim, which go through the steps alike.                         *)
(***************************************************************************)

RunStep ==
  /\ pc = "running" /\ ran < Len(ordered)
  /\ \/ ran' = ran + 1 /\ UNCHANGED pc
     \/ pc' = "idle" /\ ran' = 0
  /\ UNCHANGED <<catalog, pending, ordered, given, call, search>>

RunEnds ==
  /\ pc = "running" /\ ran = Len(ordered)
  /\ pc' = "idle" /\ ran' = 0
  /\ UNCHANGED <<catalog, pending, ordered, given, call, search>>

-----------------------------------------------------------------------------
(***************************************************************************)
(* debugCircularDeps, and debugMissingDeps when it finds nothing.          *)
(***************************************************************************)

\* afterByName: what a step, or the name of one, still waits for.
WaitsFor(n) ==
  {m \in Names : \/ n \in In(pending) /\ m \in After(n) \ In(ordered)
                 \/ m \in In(pending) /\ n \in Before(m) \ In(ordered)}
Nodes == In(pending) \cup {n \in Names : WaitsFor(n) # {}}

Top == path[Len(path)]
Pop == SubSeq(path, 1, Len(path) - 1)
OnlySearch == UNCHANGED <<catalog, pending, ordered, given, pc, call, ran>>

\* Mutant of Enter: the step is not marked.
EnterUnmarked(n) == path' = Append(path, n) /\ UNCHANGED visited

Enter(n) ==
  /\ visited' = visited \cup {n}
  /\ path' = Append(path, n)

SearchFrom(n) ==
  /\ pc = "searching" /\ path = <<>> /\ n \in Nodes \ visited
  /\ Enter(n)
  /\ left' = [left EXCEPT ![n] = WaitsFor(n)]
  /\ UNCHANGED found /\ OnlySearch

\* Mutant of SearchNext: what was visited is not looked at, on the path or not.
SearchNextSkipping(n) ==
  /\ pc = "searching" /\ path # <<>> /\ n \in left[Top]
  /\ IF n \in visited
     THEN left' = [left EXCEPT ![Top] = @ \ {n}] /\ UNCHANGED <<visited, path, found>>
     ELSE /\ Enter(n)
          /\ left' = [left EXCEPT ![Top] = @ \ {n}, ![n] = WaitsFor(n)]
          /\ UNCHANGED found
  /\ OnlySearch

\* The next of the dependencies: it closes a circle, and the search starts over from
\* another step; or it was visited; or it is visited now.
SearchNext(n) ==
  /\ pc = "searching" /\ path # <<>> /\ n \in left[Top]
  /\ CASE n \in In(path) ->
            /\ found' = TRUE /\ path' = <<>> /\ left' = [m \in Names |-> {}]
            /\ UNCHANGED visited
       [] n \in visited \ In(path) ->
            /\ left' = [left EXCEPT ![Top] = @ \ {n}]
            /\ UNCHANGED <<visited, path, found>>
       [] OTHER ->
            /\ Enter(n)
            /\ left' = [left EXCEPT ![Top] = @ \ {n}, ![n] = WaitsFor(n)]
            /\ UNCHANGED found
  /\ OnlySearch

SearchBack ==
  /\ pc = "searching" /\ path # <<>> /\ left[Top] = {}
  /\ path' = Pop
  /\ UNCHANGED <<visited, left, found>> /\ OnlySearch

\* Run fails.
Diagnosed ==
  /\ pc = "searching" /\ path = <<>> /\ Nodes \subseteq visited
  /\ pc' = "unresolved"
  /\ UNCHANGED <<catalog, pending, ordered, given, call, ran, search>>

Failed ==
  /\ pc = "unresolved" /\ pc' = "idle"
  /\ visited' = {} /\ found' = FALSE
  /\ UNCHANGED <<catalog, pending, ordered, given, call, ran, path, left>>

Method ==
  \/ Fill \/ Filled \/ Resolve \/ Resolved \/ RunStep \/ RunEnds
  \/ SearchBack \/ Diagnosed \/ Failed
  \/ \E n \in Names : SearchFrom(n) \/ SearchNext(n)

Calls ==
  \/ CallFill
  \/ \E c \in {"ready", "run"} : CallReady(c)
  \/ \E s \in Names : AddStep(s)
  \/ \E exceptions \in SUBSET Names : Derive(exceptions)

Next == Method \/ Calls

Spec == Init /\ [][Next]_vars

\* A method called goes on.
FairSpec == Spec /\ WF_vars(Method)
-----------------------------------------------------------------------------
(***************************************************************************)
(* Properties.                                                             *)
(***************************************************************************)

NoRepeats(seq) == \A i, j \in DOMAIN seq : seq[i] = seq[j] => i = j

\* The values of the variables: a step is in one of the two lists, and there once.
TypeOK ==
  /\ catalog \in AnyCatalog
  /\ pending \in Seq(Names) /\ ordered \in Seq(Names)
  /\ NoRepeats(pending) /\ NoRepeats(ordered) /\ In(pending) \cap In(ordered) = {}
  /\ given \subseteq Names
  /\ pc \in {"idle", "filling", "resolving", "running", "searching", "unresolved", "panicked"}
  /\ call \in {"ready", "run"} /\ ran \in 0 .. Len(ordered)
  /\ visited \subseteq Names /\ path \in Seq(Names)
  /\ left \in [Names -> SUBSET Names] /\ found \in BOOLEAN

\* s is to come before t.
Precedes(s, t) == s \in After(t) \/ t \in Before(s)

\* The order holds whatever is added, filled in and derived in between: a step in
\* order has all it comes after before it, and nothing, in order or still pending,
\* that is to come before it after it.
OrderRespects ==
  \A i \in DOMAIN ordered :
    /\ After(ordered[i]) \subseteq {ordered[j] : j \in 1 .. i - 1}
    /\ \A s \in Planned : Precedes(s, ordered[i]) => s \in {ordered[j] : j \in 1 .. i - 1}

\* No step is run of a plan that cannot be run to its end, nor before any step of
\* the plan that is to come before it has been run.
RunRespects ==
  [][ran' > ran =>
       /\ pending = <<>>
       /\ \A s \in Planned :
            Precedes(s, ordered[ran']) => s \in {ordered[j] : j \in 1 .. ran}]_vars

\* A circle of steps or of names that wait for one another.
Circular == \E c \in SUBSET Nodes : c # {} /\ \A n \in c : WaitsFor(n) \cap c # {}
Missing  == \E s \in In(pending) : ~(After(s) \subseteq Planned)

\* A plan that cannot be ordered is told why: a circle is found if and only if there
\* is one, and without one a step that is not in the plan is missing.
FailureExplained ==
  pc = "unresolved" => (found <=> Circular) /\ (found \/ Missing)

\* "These steps essentially will be run if and only if some other step depends on
\* them" (plan.go:281): when AddDefaultSteps returns, every default a step of the plan
\* refers to is in the plan, one that is in order included; and only such are.
DefaultsAsWanted ==
  [][pc = "filling" /\ pc' = "idle" =>
       /\ \A s \in Planned : (After(s) \cup Before(s)) \cap catalog.factory \subseteq Planned
       /\ \A d \in Planned \ given :
            d \in catalog.factory /\ \E s \in Planned \ {d} : d \in After(s) \cup Before(s)]_vars

\* Every method returns.
CallsEnd == pc # "idle" ~> pc \in {"idle", "panicked"}
=============================================================================
