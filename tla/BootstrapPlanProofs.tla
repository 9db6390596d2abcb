------------------------- MODULE BootstrapPlanProofs -------------------------
(***************************************************************************)
(* For any catalog of steps: the order of a bootstrap plan respects what   *)
(* its steps ask for, and Run does; a plan that cannot be ordered is told  *)
(* why (SearchInv follows the depth-first search); and the default steps   *)
(* added are those asked for (FillInv).  OrderRespects is its own          *)
(* strengthening, given the types and where Run can be.                    *)
(***************************************************************************)
EXTENDS BootstrapPlan, FiniteSetTheorems, SequenceTheorems, TLAPS

LEMMA AppendIn ==
  ASSUME NEW seq \in Seq(Names), NEW s \in Names
  PROVE  /\ Append(seq, s) \in Seq(Names)
         /\ In(Append(seq, s)) = In(seq) \cup {s}
         /\ s \notin In(seq) /\ NoRepeats(seq) => NoRepeats(Append(seq, s))
<1> DEFINE app == Append(seq, s)
<1>1. /\ app \in Seq(Names)
      /\ Len(app) = Len(seq) + 1
      /\ DOMAIN app = 1 .. Len(seq) + 1
      /\ DOMAIN seq = 1 .. Len(seq)
      /\ \A i \in DOMAIN seq : app[i] = seq[i]
      /\ app[Len(seq) + 1] = s
      /\ Len(seq) \in Nat
  OBVIOUS
<1> HIDE DEF app
<1>2. In(app) = In(seq) \cup {s}
  <2>1. In(app) \subseteq In(seq) \cup {s}
    BY <1>1 DEF In
  <2>2. In(seq) \subseteq In(app)
    BY <1>1 DEF In
  <2>3. s \in In(app)
    <3>1. Len(seq) + 1 \in DOMAIN app
      BY <1>1
    <3>2. QED
      BY <1>1, <3>1 DEF In
  <2>4. QED
    BY <2>1, <2>2, <2>3
<1>3. ASSUME s \notin In(seq), NoRepeats(seq)
      PROVE  NoRepeats(app)
  <2>1. \A i \in DOMAIN seq : seq[i] # s
    BY <1>3 DEF In
  <2>2. QED
    BY <1>1, <1>3, <2>1 DEF NoRepeats
<1>4. QED
  BY <1>1, <1>2, <1>3 DEF app

LEMMA WithoutAtIn ==
  ASSUME NEW seq \in Seq(Names), NEW k \in DOMAIN seq
  PROVE  /\ WithoutAt(seq, k) \in Seq(Names)
         /\ In(seq) = In(WithoutAt(seq, k)) \cup {seq[k]}
         /\ NoRepeats(seq) =>
              NoRepeats(WithoutAt(seq, k)) /\ seq[k] \notin In(WithoutAt(seq, k))
<1> DEFINE rest == WithoutAt(seq, k)
           from(j) == IF j < k THEN j ELSE j + 1
<1>1. Len(seq) \in Nat /\ DOMAIN seq = 1 .. Len(seq) /\ k \in 1 .. Len(seq)
  OBVIOUS
<1>2. Len(seq) - 1 \in Nat
  BY <1>1
<1>3. \A j \in 1 .. Len(seq) - 1 :
        from(j) \in 1 .. Len(seq) /\ from(j) # k
  BY <1>1
<1>4. rest = [j \in 1 .. Len(seq) - 1 |-> seq[from(j)]]
  BY DEF WithoutAt
<1>5. DOMAIN rest = 1 .. Len(seq) - 1 /\ \A j \in 1 .. Len(seq) - 1 : rest[j] = seq[from(j)]
  BY <1>4
<1>6. rest \in Seq(Names)
  <2>1. \A j \in 1 .. Len(seq) - 1 : seq[from(j)] \in Names
    BY <1>1, <1>3
  <2>2. QED
    BY <1>2, <1>4, <2>1, IsASeq
<1>7. In(seq) = In(rest) \cup {seq[k]}
  <2>1. In(rest) \subseteq In(seq) /\ seq[k] \in In(seq)
    BY <1>1, <1>3, <1>5 DEF In
  <2>2. ASSUME NEW i \in 1 .. Len(seq), i # k
        PROVE  seq[i] \in In(rest)
    <3>1. PICK j \in 1 .. Len(seq) - 1 : from(j) = i
      <4>1. CASE i < k
        <5>1. i \in 1 .. Len(seq) - 1 /\ from(i) = i
          BY <1>1, <4>1
        <5>2. QED
          BY <5>1
      <4>2. CASE i > k
        <5>1. i - 1 \in 1 .. Len(seq) - 1 /\ from(i - 1) = i
          BY <1>1, <4>2
        <5>2. QED
          BY <5>1
      <4>3. QED
        BY <1>1, <2>2, <4>1, <4>2
    <3>2. QED
      BY <1>5, <3>1 DEF In
  <2>3. In(seq) \subseteq In(rest) \cup {seq[k]}
    BY <1>1, <2>2 DEF In
  <2>4. QED
    BY <2>1, <2>3
<1>8. ASSUME NoRepeats(seq)
      PROVE  NoRepeats(rest) /\ seq[k] \notin In(rest)
  <2>1. \A i, j \in 1 .. Len(seq) - 1 : from(i) = from(j) => i = j
    BY <1>1
  <2>2. NoRepeats(rest)
    BY <1>1, <1>3, <1>5, <1>8, <2>1 DEF NoRepeats
  <2>3. seq[k] \notin In(rest)
    BY <1>1, <1>3, <1>5, <1>8 DEF NoRepeats, In
  <2>4. QED
    BY <2>2, <2>3
<1>9. QED
  BY <1>6, <1>7, <1>8

\* A choice of positions of a sequence without repeats, in their order, has none.
LEMMA KeptSeq ==
  ASSUME NEW all \in Seq(Names), NEW kept \in SUBSET (DOMAIN all),
         NEW at \in [1 .. Cardinality(kept) -> kept]
  PROVE  [i \in DOMAIN at |-> all[at[i]]] \in Seq(Names)
<1>1. Len(all) \in Nat /\ DOMAIN all = 1 .. Len(all)
  OBVIOUS
<1>2. Cardinality(kept) \in Nat
  <2>1. IsFiniteSet(1 .. Len(all))
    BY <1>1, FS_Interval
  <2>2. IsFiniteSet(kept)
    BY <1>1, <2>1, FS_Subset
  <2>3. QED
    BY <2>2, FS_CardinalityType
<1>3. DOMAIN at = 1 .. Cardinality(kept)
  OBVIOUS
<1>4. \A i \in 1 .. Cardinality(kept) : all[at[i]] \in Names
  OBVIOUS
<1>5. QED
  BY <1>2, <1>3, <1>4, IsASeq

LEMMA KeptRepeats ==
  ASSUME NEW all \in Seq(Names), NEW kept \in SUBSET (DOMAIN all), NoRepeats(all),
         NEW at \in [1 .. Cardinality(kept) -> kept],
         \A i, j \in DOMAIN at : i < j => at[i] < at[j]
  PROVE  NoRepeats([i \in DOMAIN at |-> all[at[i]]])
<1> DEFINE seq == [i \in DOMAIN at |-> all[at[i]]]
<1>1. SUFFICES ASSUME NEW i \in DOMAIN seq, NEW j \in DOMAIN seq, seq[i] = seq[j]
               PROVE  i = j
  BY DEF NoRepeats
<1>2. i \in DOMAIN at /\ j \in DOMAIN at /\ at[i] \in DOMAIN all /\ at[j] \in DOMAIN all
  OBVIOUS
<1>3. at[i] = at[j]
  BY <1>1, <1>2 DEF NoRepeats
<1>4. i \in Int /\ j \in Int /\ at[i] \in Int
  BY <1>2
<1>5. ~(i < j) /\ ~(j < i)
  BY <1>2, <1>3, <1>4
<1>6. QED
  BY <1>4, <1>5

-----------------------------------------------------------------------------
\* What OrderRespects and RunRespects lean on: Run is only under way with the whole
\* plan in order, and no step counts as run when it is not.
RunInv ==
  /\ pc = "running" => pending = <<>>
  /\ pc # "running" => ran = 0

LEMMA InitType == Init => TypeOK /\ RunInv /\ OrderRespects
<1> SUFFICES ASSUME Init
             PROVE  TypeOK /\ RunInv /\ OrderRespects
  OBVIOUS
<1>1. <<>> \in Seq(Names) /\ DOMAIN <<>> = {} /\ Len(<<>>) = 0
  OBVIOUS
<1>2. NoRepeats(<<>>) /\ In(<<>>) = {}
  BY <1>1 DEF NoRepeats, In
<1>3. catalog \in AnyCatalog
  BY CatalogsAssumption DEF Init
<1>4. /\ pending = <<>> /\ ordered = <<>> /\ given = {} /\ pc = "idle" /\ call = "ready"
      /\ ran = 0 /\ visited = {} /\ path = <<>> /\ found = FALSE
      /\ left \in [Names -> SUBSET Names]
  BY DEF Init
<1>5. TypeOK
  <2>1. /\ pending \in Seq(Names) /\ ordered \in Seq(Names)
        /\ NoRepeats(pending) /\ NoRepeats(ordered) /\ In(pending) \cap In(ordered) = {}
    BY <1>1, <1>2, <1>4
  <2>2. ran \in 0 .. Len(ordered) /\ path \in Seq(Names)
    BY <1>1, <1>4
  <2>3. QED
    BY <1>3, <1>4, <2>1, <2>2 DEF TypeOK
<1>6. RunInv /\ OrderRespects
  BY <1>1, <1>4 DEF RunInv, OrderRespects
<1>7. QED
  BY <1>5, <1>6

\* The lists are as they were.
SameLists == UNCHANGED <<catalog, pending, ordered, given>>

LEMMA SameListsInv ==
  ASSUME TypeOK, OrderRespects, SameLists,
         pc' \in {"idle", "filling", "resolving", "running", "searching", "unresolved",
                  "panicked"},
         call' \in {"ready", "run"}, ran' \in 0 .. Len(ordered),
         visited' \subseteq Names, path' \in Seq(Names),
         left' \in [Names -> SUBSET Names], found' \in BOOLEAN
  PROVE  TypeOK' /\ OrderRespects'
<1>1. catalog' = catalog /\ pending' = pending /\ ordered' = ordered /\ given' = given
  BY DEF SameLists
<1>2. In(pending') = In(pending) /\ In(ordered') = In(ordered) /\ Planned' = Planned
      /\ NoRepeats(pending') = NoRepeats(pending) /\ NoRepeats(ordered') = NoRepeats(ordered)
  BY <1>1 DEF Planned
<1>3. TypeOK'
  BY <1>1, <1>2 DEF TypeOK
<1>4. \A s, t : Precedes(s, t)' = Precedes(s, t) /\ After(t)' = After(t)
  BY <1>1 DEF Precedes, After, Before
<1>5. OrderRespects'
  BY <1>1, <1>2, <1>4 DEF OrderRespects
<1>6. QED
  BY <1>3, <1>5

\* A step is added.
LEMMA InsertInv ==
  ASSUME TypeOK, RunInv, OrderRespects, NEW s \in Names, Insert(s), pc # "running",
         given' \subseteq Names
  PROVE  TypeOK' /\ RunInv' /\ OrderRespects'
<1>1. CASE ~Addable(s)
  <2>1. /\ pc' = "panicked" /\ catalog' = catalog /\ pending' = pending /\ ordered' = ordered
        /\ UNCHANGED <<call, ran, visited, path, left, found>>
    BY <1>1 DEF Insert, search
  <2>2. In(pending') = In(pending) /\ In(ordered') = In(ordered) /\ Planned' = Planned
        /\ NoRepeats(pending') = NoRepeats(pending) /\ NoRepeats(ordered') = NoRepeats(ordered)
    BY <2>1 DEF Planned
  <2>3. TypeOK'
    BY <2>1, <2>2 DEF TypeOK
  <2>4. RunInv'
    BY <2>1 DEF RunInv
  <2>5. \A t, u : Precedes(t, u)' = Precedes(t, u) /\ After(u)' = After(u)
    BY <2>1 DEF Precedes, After, Before
  <2>6. OrderRespects'
    BY <2>1, <2>2, <2>5 DEF OrderRespects
  <2>7. QED
    BY <2>3, <2>4, <2>6
<1>2. CASE Addable(s)
  <2>1. /\ pending' = Append(pending, s)
        /\ UNCHANGED <<catalog, ordered, pc, call, ran, search>>
    BY <1>2 DEF Insert
  <2>2. /\ pending' \in Seq(Names)
        /\ In(pending') = In(pending) \cup {s}
        /\ NoRepeats(pending')
    BY <1>2, <2>1, AppendIn DEF TypeOK, Addable, Planned
  <2>3. TypeOK'
    <3>1. In(pending') \cap In(ordered) = {}
      BY <1>2, <2>2 DEF TypeOK, Addable, Planned
    <3>2. In(ordered') = In(ordered) /\ NoRepeats(ordered') = NoRepeats(ordered)
      BY <2>1
    <3>3. QED
      BY <2>1, <2>2, <3>1, <3>2 DEF TypeOK, search
  <2>4. RunInv'
    BY <2>1 DEF RunInv
  <2>5. OrderRespects'
    <3>1. SUFFICES ASSUME NEW i \in DOMAIN ordered, NEW t \in Planned \cup {s},
                          Precedes(t, ordered[i])
                   PROVE  t \in {ordered[j] : j \in 1 .. i - 1}
      BY <2>1, <2>2 DEF OrderRespects, Planned, After, Before, Precedes, In
    <3>2. CASE t \in Planned
      BY <3>1, <3>2 DEF OrderRespects
    <3>3. CASE t = s
      <4>1. ordered # <<>>
        OBVIOUS
      <4>2. Before(s) = {}
        BY <1>2, <4>1 DEF Addable
      <4>3. t \in After(ordered[i])
        BY <3>1, <3>3, <4>2 DEF Precedes
      <4>4. QED
        BY <4>3 DEF OrderRespects
    <3>4. QED
      BY <3>1, <3>2, <3>3
  <2>6. QED
    BY <2>3, <2>4, <2>5
<1>3. QED
  BY <1>1, <1>2

\* A pending step is put in order.
LEMMA ResolveInv ==
  ASSUME TypeOK, RunInv, OrderRespects, Resolve
  PROVE  TypeOK' /\ RunInv' /\ OrderRespects'
<1>1. PICK k \in DOMAIN pending :
        /\ Resolvable(pending[k])
        /\ ordered' = Append(ordered, pending[k])
        /\ pending' = WithoutAt(pending, k)
  BY DEF Resolve
<1> DEFINE s == pending[k]
<1>2. /\ pc = "resolving"
      /\ UNCHANGED <<catalog, given, pc, call, ran, search>>
  BY DEF Resolve
<1>3. /\ pending \in Seq(Names) /\ ordered \in Seq(Names)
      /\ NoRepeats(pending) /\ NoRepeats(ordered) /\ In(pending) \cap In(ordered) = {}
      /\ s \in Names /\ s \in In(pending) /\ s \notin In(ordered)
  <2>1. /\ pending \in Seq(Names) /\ ordered \in Seq(Names)
        /\ NoRepeats(pending) /\ NoRepeats(ordered) /\ In(pending) \cap In(ordered) = {}
    BY DEF TypeOK
  <2>2. s \in Names /\ s \in In(pending)
    BY <1>1, <2>1 DEF In
  <2>3. QED
    BY <2>1, <2>2
<1>4. /\ pending' \in Seq(Names) /\ NoRepeats(pending')
      /\ In(pending') \subseteq In(pending) /\ s \notin In(pending')
  BY <1>1, <1>3, WithoutAtIn
<1>5. /\ ordered' \in Seq(Names) /\ NoRepeats(ordered')
      /\ In(ordered') = In(ordered) \cup {s}
  BY <1>1, <1>3, AppendIn
<1>6. /\ Len(ordered) \in Nat /\ Len(ordered') = Len(ordered) + 1
      /\ DOMAIN ordered = 1 .. Len(ordered) /\ DOMAIN ordered' = 1 .. Len(ordered) + 1
      /\ \A i \in 1 .. Len(ordered) : ordered'[i] = ordered[i]
      /\ ordered'[Len(ordered) + 1] = s
  BY <1>1, <1>3
<1>7. TypeOK'
  <2>1. ran' \in 0 .. Len(ordered')
    BY <1>2, <1>6 DEF TypeOK
  <2>2. In(pending') \cap In(ordered') = {}
    BY <1>3, <1>4, <1>5
  <2>3. QED
    BY <1>2, <1>4, <1>5, <2>1, <2>2 DEF TypeOK, search
<1>8. RunInv'
  BY <1>2 DEF RunInv
<1>9. OrderRespects'
  <2>1. Planned' \subseteq Planned
    BY <1>3, <1>4, <1>5 DEF Planned
  <2>2. SUFFICES ASSUME NEW i \in DOMAIN ordered'
                 PROVE  /\ After(ordered'[i]) \subseteq {ordered'[j] : j \in 1 .. i - 1}
                        /\ \A t \in Planned : Precedes(t, ordered'[i]) =>
                             t \in {ordered'[j] : j \in 1 .. i - 1}
    BY <1>2, <2>1 DEF OrderRespects, After, Precedes, Before
  <2>3. CASE i \in 1 .. Len(ordered)
    <3>1. {ordered'[j] : j \in 1 .. i - 1} = {ordered[j] : j \in 1 .. i - 1}
      BY <1>6, <2>3
    <3>2. QED
      BY <1>6, <2>3, <3>1 DEF OrderRespects
  <2>4. CASE i = Len(ordered) + 1
    <3>1. {ordered'[j] : j \in 1 .. i - 1} = In(ordered)
      BY <1>6, <2>4 DEF In
    <3>2. After(s) \subseteq In(ordered)
      BY <1>1 DEF Resolvable
    <3>3. ASSUME NEW t \in Planned, Precedes(t, s)
          PROVE  t \in In(ordered)
      <4>1. CASE t \in After(s)
        BY <3>2, <4>1
      <4>2. CASE s \in Before(t)
        BY <1>1, <3>3, <4>2 DEF Resolvable, Planned
      <4>3. QED
        BY <3>3, <4>1, <4>2 DEF Precedes
    <3>4. QED
      BY <1>6, <2>4, <3>1, <3>2, <3>3
  <2>5. QED
    BY <1>6, <2>3, <2>4
<1>10. QED
  BY <1>7, <1>8, <1>9

\* A plan is derived.
LEMMA DeriveInv ==
  ASSUME TypeOK, RunInv, NEW exceptions \in SUBSET Names, Derive(exceptions)
  PROVE  TypeOK' /\ RunInv' /\ OrderRespects'
<1> DEFINE all  == ordered \o pending
           kept == {i \in DOMAIN all : all[i] \notin exceptions}
<1>1. PICK at \in [1 .. Cardinality(kept) -> kept] :
        /\ \A i, j \in DOMAIN at : i < j => at[i] < at[j]
        /\ pending' = [i \in DOMAIN at |-> all[at[i]]]
  BY DEF Derive
<1>2. /\ pc = "idle" /\ ordered' = <<>> /\ given' = Planned \ exceptions
      /\ UNCHANGED <<catalog, pc, call, ran, search>>
  BY DEF Derive
<1>3. all \in Seq(Names) /\ NoRepeats(all)
  <2>1. /\ Len(ordered) \in Nat /\ Len(pending) \in Nat
        /\ DOMAIN ordered = 1 .. Len(ordered) /\ DOMAIN pending = 1 .. Len(pending)
        /\ all \in Seq(Names) /\ DOMAIN all = 1 .. Len(ordered) + Len(pending)
        /\ \A i \in 1 .. Len(ordered) + Len(pending) :
             all[i] = IF i <= Len(ordered) THEN ordered[i] ELSE pending[i - Len(ordered)]
    BY ConcatProperties DEF TypeOK
  <2>2. \A i \in 1 .. Len(ordered), j \in 1 .. Len(pending) : ordered[i] # pending[j]
    BY <2>1 DEF TypeOK, In
  <2>3. ASSUME NEW i \in DOMAIN all, NEW j \in DOMAIN all, all[i] = all[j]
        PROVE  i = j
    <3>1. CASE i <= Len(ordered) /\ j <= Len(ordered)
      BY <2>1, <2>3, <3>1 DEF TypeOK, NoRepeats
    <3>2. CASE i > Len(ordered) /\ j > Len(ordered)
      <4>1. i - Len(ordered) \in DOMAIN pending /\ j - Len(ordered) \in DOMAIN pending
        BY <2>1, <3>2
      <4>2. pending[i - Len(ordered)] = pending[j - Len(ordered)]
        BY <2>1, <2>3, <3>2
      <4>3. i - Len(ordered) = j - Len(ordered)
        BY <4>1, <4>2 DEF TypeOK, NoRepeats
      <4>4. QED
        BY <2>1, <4>3
    <3>3. CASE i <= Len(ordered) /\ j > Len(ordered)
      BY <2>1, <2>2, <2>3, <3>3
    <3>4. CASE i > Len(ordered) /\ j <= Len(ordered)
      BY <2>1, <2>2, <2>3, <3>4
    <3>5. QED
      BY <2>1, <3>1, <3>2, <3>3, <3>4
  <2>4. QED
    BY <2>1, <2>3 DEF NoRepeats
<1>4. pending' \in Seq(Names) /\ NoRepeats(pending')
  <2> HIDE DEF all
  <2>1. kept \in SUBSET (DOMAIN all)
    OBVIOUS
  <2>2. QED
    BY <1>1, <1>3, <2>1, KeptSeq, KeptRepeats
<1>5. In(ordered') = {} /\ DOMAIN ordered' = {} /\ Len(ordered') = 0
  BY <1>2 DEF In
<1>6. TypeOK'
  <2>1. given' \subseteq Names
    BY <1>2 DEF TypeOK, Planned, In
  <2>2. ran' \in 0 .. Len(ordered')
    BY <1>2, <1>5 DEF RunInv
  <2>3. ordered' \in Seq(Names) /\ NoRepeats(ordered')
    BY <1>2, <1>5 DEF NoRepeats
  <2>4. QED
    BY <1>2, <1>4, <1>5, <2>1, <2>2, <2>3 DEF TypeOK, search
<1>7. RunInv'
  BY <1>2 DEF RunInv
<1>8. OrderRespects'
  BY <1>5 DEF OrderRespects
<1>9. QED
  BY <1>6, <1>7, <1>8

\* A turn of the search: neither the lists nor Run are touched.
LEMMA SearchType ==
  ASSUME TypeOK, SearchBack \/ \E n \in Names : SearchFrom(n) \/ SearchNext(n)
  PROVE  /\ visited' \subseteq Names /\ path' \in Seq(Names)
         /\ left' \in [Names -> SUBSET Names] /\ found' \in BOOLEAN
         /\ UNCHANGED <<catalog, pending, ordered, given, pc, call, ran>>
<1>1. ASSUME NEW n \in Names, SearchFrom(n)
      PROVE  /\ visited' \subseteq Names /\ path' \in Seq(Names)
             /\ left' \in [Names -> SUBSET Names] /\ found' \in BOOLEAN
             /\ UNCHANGED <<catalog, pending, ordered, given, pc, call, ran>>
  BY <1>1 DEF SearchFrom, Enter, OnlySearch, TypeOK, WaitsFor
<1>2. ASSUME NEW n \in Names, SearchNext(n)
      PROVE  /\ visited' \subseteq Names /\ path' \in Seq(Names)
             /\ left' \in [Names -> SUBSET Names] /\ found' \in BOOLEAN
             /\ UNCHANGED <<catalog, pending, ordered, given, pc, call, ran>>
  <2>1. path \in Seq(Names) /\ path # <<>> /\ Top \in Names
    BY <1>2 DEF SearchNext, TypeOK, Top
  <2>2. WaitsFor(n) \in SUBSET Names
    BY DEF WaitsFor
  <2>3. /\ UNCHANGED <<catalog, pending, ordered, given, pc, call, ran>>
        /\ visited \subseteq Names /\ found \in BOOLEAN /\ left \in [Names -> SUBSET Names]
    BY <1>2 DEF SearchNext, OnlySearch, TypeOK
  <2>4. CASE n \in In(path)
    <3>1. path' = <<>> /\ visited' = visited /\ found' = TRUE /\ left' = [m \in Names |-> {}]
      BY <1>2, <2>4 DEF SearchNext
    <3>2. left' \in [Names -> SUBSET Names] /\ path' \in Seq(Names)
      BY <3>1
    <3>3. QED
      BY <2>3, <3>1, <3>2
  <2>5. CASE n \in visited \ In(path)
    <3>1. /\ path' = path /\ visited' = visited /\ found' = found
          /\ left' = [left EXCEPT ![Top] = @ \ {n}]
      BY <1>2, <2>5 DEF SearchNext
    <3>2. QED
      BY <2>1, <2>3, <3>1
  <2>6. CASE n \notin In(path) /\ n \notin visited \ In(path)
    <3>1. /\ path' = Append(path, n) /\ visited' = visited \cup {n} /\ found' = found
          /\ left' = [left EXCEPT ![Top] = @ \ {n}, ![n] = WaitsFor(n)]
      BY <1>2, <2>6 DEF SearchNext, Enter
    <3>2. Append(path, n) \in Seq(Names)
      BY <2>1
    <3>3. left' \in [Names -> SUBSET Names]
      BY <2>1, <2>2, <2>3, <3>1
    <3>4. QED
      BY <2>3, <3>1, <3>2, <3>3
  <2>7. QED
    BY <2>4, <2>5, <2>6
<1>3. ASSUME SearchBack
      PROVE  /\ visited' \subseteq Names /\ path' \in Seq(Names)
             /\ left' \in [Names -> SUBSET Names] /\ found' \in BOOLEAN
             /\ UNCHANGED <<catalog, pending, ordered, given, pc, call, ran>>
  <2>1. Pop \in Seq(Names)
    BY <1>3 DEF SearchBack, Pop, TypeOK
  <2>2. QED
    BY <1>3, <2>1 DEF SearchBack, OnlySearch, TypeOK
<1>4. QED
  BY <1>1, <1>2, <1>3

LEMMA Step == TypeOK /\ RunInv /\ OrderRespects /\ [Next]_vars =>
                TypeOK' /\ RunInv' /\ OrderRespects'
<1> SUFFICES ASSUME TypeOK, RunInv, OrderRespects, [Next]_vars
             PROVE  TypeOK' /\ RunInv' /\ OrderRespects'
  OBVIOUS
<1>1. CASE Fill
  <2>1. PICK n \in Names : Insert(n) /\ pc = "filling" /\ given' = given
    <3>1. \A names : Unfilled(names) \subseteq Names
      BY DEF Unfilled, TypeOK, AnyCatalog
    <3>2. \A i : Wanted(i) \subseteq Names
      BY <3>1 DEF Wanted
    <3>3. QED
      BY <1>1, <3>2 DEF Fill
  <2>2. given' \subseteq Names
    BY <2>1 DEF TypeOK
  <2>3. QED
    BY <2>1, <2>2, InsertInv
<1>2. CASE \E s \in Names : AddStep(s)
  <2>1. PICK s \in Names : AddStep(s)
    BY <1>2
  <2>2. given' \subseteq Names
    BY <2>1 DEF AddStep, TypeOK
  <2>3. Insert(s) /\ pc # "running"
    BY <2>1 DEF AddStep
  <2>4. QED
    BY <2>2, <2>3, InsertInv
<1>3. CASE Resolve
  BY <1>3, ResolveInv
<1>4. CASE \E exceptions \in SUBSET Names : Derive(exceptions)
  BY <1>4, DeriveInv
<1>5. CASE SearchBack \/ \E n \in Names : SearchFrom(n) \/ SearchNext(n)
  <2>1. /\ visited' \subseteq Names /\ path' \in Seq(Names)
        /\ left' \in [Names -> SUBSET Names] /\ found' \in BOOLEAN
        /\ UNCHANGED <<catalog, pending, ordered, given, pc, call, ran>>
    BY <1>5, SearchType
  <2>2. TypeOK' /\ OrderRespects'
    BY <2>1, SameListsInv DEF SameLists, TypeOK
  <2>3. QED
    BY <2>1, <2>2 DEF RunInv
<1>6. CASE Resolved
  <2>1. /\ pc = "resolving" /\ SameLists
        /\ pc' \in {"idle", "running", "searching"}
        /\ pc' = "running" => pending = <<>>
        /\ UNCHANGED <<call, ran, visited, path, left, found>>
    BY <1>6 DEF Resolved, search, SameLists
  <2>2. TypeOK' /\ OrderRespects'
    BY <2>1, SameListsInv DEF TypeOK
  <2>3. QED
    BY <2>1, <2>2 DEF RunInv, SameLists
<1>7. CASE RunStep
  <2>1. /\ pc = "running" /\ SameLists
        /\ pc' \in {"idle", "running"} /\ (pc' = "idle" => ran' = 0)
        /\ ran' \in 0 .. Len(ordered)
        /\ UNCHANGED <<call, visited, path, left, found>>
    BY <1>7 DEF RunStep, search, SameLists, TypeOK
  <2>2. TypeOK' /\ OrderRespects'
    BY <2>1, SameListsInv DEF TypeOK
  <2>3. QED
    BY <2>1, <2>2 DEF RunInv, SameLists
<1>8. CASE RunEnds
  <2>1. /\ SameLists /\ pc' = "idle" /\ ran' = 0 /\ 0 \in 0 .. Len(ordered)
        /\ UNCHANGED <<call, visited, path, left, found>>
    BY <1>8 DEF RunEnds, search, SameLists, TypeOK
  <2>2. TypeOK' /\ OrderRespects'
    BY <2>1, SameListsInv DEF TypeOK
  <2>3. QED
    BY <2>1, <2>2 DEF RunInv
<1>9. CASE Filled \/ Diagnosed \/ Failed \/ CallFill
             \/ \E c \in {"ready", "run"} : CallReady(c)
  <2>1. /\ SameLists /\ ran' = ran /\ pc # "running"
        /\ pc' \in {"idle", "filling", "resolving", "unresolved"}
        /\ call' \in {"ready", "run"}
        /\ visited' \subseteq Names /\ path' = path /\ left' = left /\ found' \in BOOLEAN
    BY <1>9 DEF Filled, Diagnosed, Failed, CallFill, CallReady, SameLists, search, TypeOK
  <2>2. TypeOK' /\ OrderRespects'
    BY <2>1, SameListsInv DEF TypeOK
  <2>3. QED
    BY <2>1, <2>2 DEF RunInv
<1>10. CASE UNCHANGED vars
  <2>1. SameLists /\ UNCHANGED <<pc, call, ran, visited, path, left, found>>
    BY <1>10 DEF vars, search, SameLists
  <2>2. TypeOK' /\ OrderRespects'
    BY <2>1, SameListsInv DEF TypeOK
  <2>3. QED
    BY <2>1, <2>2 DEF RunInv, SameLists
<1>11. QED
  BY <1>1, <1>2, <1>3, <1>4, <1>5, <1>6, <1>7, <1>8, <1>9, <1>10 DEF Next, Method, Calls

LEMMA PlanInv == Spec => [](TypeOK /\ RunInv /\ OrderRespects)
BY InitType, Step, PTL DEF Spec

\* The plan's lists hold each step once, and all locals keep to their types.
THEOREM TypeCorrect == Spec => []TypeOK
BY PlanInv, PTL

\* Whatever is added, filled in and derived between calls of Ready, what is in order
\* is in an order that respects the constraints of every step of the plan.
THEOREM OrderRespectsCorrect == Spec => []OrderRespects
BY PlanInv, PTL

\* Run runs no step of a plan it could not order, nor one out of order.
THEOREM RunRespectsCorrect == Spec => RunRespects
<1>1. TypeOK /\ RunInv /\ OrderRespects /\ [Next]_vars =>
        [ran' > ran => /\ pending = <<>>
                       /\ \A s \in Planned :
                            Precedes(s, ordered[ran']) => s \in {ordered[j] : j \in 1 .. ran}]_vars
  <2> SUFFICES ASSUME TypeOK, RunInv, OrderRespects, Next, ran' > ran
               PROVE  /\ pending = <<>>
                      /\ \A s \in Planned :
                           Precedes(s, ordered[ran']) => s \in {ordered[j] : j \in 1 .. ran}
    OBVIOUS
  <2>1. ran \in Nat /\ Len(ordered) \in Nat /\ DOMAIN ordered = 1 .. Len(ordered)
    BY DEF TypeOK
  <2>2. RunStep
    <3>1. CASE Resolve \/ Resolved \/ Filled \/ Diagnosed \/ Failed \/ CallFill
                 \/ (\E c \in {"ready", "run"} : CallReady(c))
                 \/ (\E exceptions \in SUBSET Names : Derive(exceptions))
      BY <2>1, <3>1 DEF Resolve, Resolved, Filled, Diagnosed, Failed, CallFill, CallReady, Derive
    <3>2. CASE SearchBack \/ \E n \in Names : SearchFrom(n) \/ SearchNext(n)
      BY <2>1, <3>2 DEF SearchBack, SearchFrom, SearchNext, OnlySearch
    <3>3. CASE Fill \/ \E s \in Names : AddStep(s)
      BY <2>1, <3>3 DEF Fill, AddStep, Insert
    <3>4. CASE RunEnds
      BY <2>1, <3>4 DEF RunEnds
    <3>5. QED
      BY <3>1, <3>2, <3>3, <3>4 DEF Next, Method, Calls
  <2>3. pc = "running" /\ ran < Len(ordered) /\ ran' = ran + 1
    BY <2>1, <2>2 DEF RunStep
  <2>4. ran' \in DOMAIN ordered /\ ran' - 1 = ran
    BY <2>1, <2>3
  <2>5. QED
    BY <2>3, <2>4 DEF RunInv, OrderRespects
<1>2. QED
  BY <1>1, PlanInv, PTL DEF Spec, RunRespects

-----------------------------------------------------------------------------
(***************************************************************************)
(* The search for circles.                                                 *)
(***************************************************************************)

\* The names whose dependencies have all been looked at.
Done == visited \ In(path)

\* A circle of names, wherever it is.
Circle(c) == c # {} /\ \A n \in c : WaitsFor(n) \cap c # {}

Stuck == pending # <<>> /\ \A s \in In(pending) : ~Resolvable(s)

\* The path goes from each name to one that it waits for.
PathOk ==
  /\ NoRepeats(path) /\ In(path) \subseteq visited
  /\ \A i \in 1 .. Len(path) - 1 : path[i + 1] \in WaitsFor(path[i])
  /\ \A n \in In(path) : left[n] \subseteq WaitsFor(n)

\* As long as no circle is found: of what a name on the path waits for, all that is
\* not left is done or next on the path; and what is done is in no circle.
SeenOk ==
  /\ \A i \in DOMAIN path :
       WaitsFor(path[i]) \ left[path[i]] \subseteq
         Done \cup {path[j] : j \in {i + 1} \cap DOMAIN path}
  /\ \A c \in SUBSET Names : Circle(c) => c \cap Done = {}

\* What the diagnosis leans on.
SearchInv ==
  /\ pc \notin {"searching", "unresolved"} => visited = {} /\ path = <<>> /\ ~found
  /\ pc \in {"searching", "unresolved"} => Stuck
  /\ pc = "unresolved" => path = <<>> /\ Nodes \subseteq visited
  /\ PathOk
  /\ found => Circular
  /\ ~found => SeenOk

\* Names that are not in the plan wait too, for those that come before them.
LEMMA CircularIsCircle == Circular <=> \E c \in SUBSET Names : Circle(c)
<1>1. \A n \in Nodes : n \in In(pending) \/ n \in Names
  BY DEF Nodes
<1>2. \A n : WaitsFor(n) \subseteq Names
  BY DEF WaitsFor
<1>3. ASSUME NEW c \in SUBSET Names, Circle(c)
      PROVE  c \subseteq Nodes
  BY <1>3 DEF Circle, Nodes
<1>4. ASSUME NEW c \in SUBSET Nodes, c # {}, \A n \in c : WaitsFor(n) \cap c # {}
      PROVE  \E d \in SUBSET Names : Circle(d)
  <2>1. Circle(c \cap Names)
    BY <1>2, <1>4 DEF Circle
  <2>2. QED
    BY <2>1
<1>5. Circular => \E c \in SUBSET Names : Circle(c)
  BY <1>4 DEF Circular
<1>6. ASSUME NEW c \in SUBSET Names, Circle(c)
      PROVE  Circular
  BY <1>3, <1>6 DEF Circular, Circle
<1>7. QED
  BY <1>5, <1>6

\* The lists decide who waits for whom.
LEMMA SameListsWaits ==
  ASSUME SameLists
  PROVE  /\ \A n : WaitsFor(n)' = WaitsFor(n) /\ Resolvable(n)' = Resolvable(n)
         /\ Nodes' = Nodes /\ Stuck' = Stuck /\ Circular' = Circular
         /\ \A c : Circle(c)' = Circle(c)
<1>1. catalog' = catalog /\ pending' = pending /\ ordered' = ordered
  BY DEF SameLists
<1>2. In(pending') = In(pending) /\ In(ordered') = In(ordered)
  BY <1>1
<1>3. \A n : WaitsFor(n)' = WaitsFor(n) /\ Resolvable(n)' = Resolvable(n)
  BY <1>1, <1>2 DEF WaitsFor, Resolvable, After, Before
<1>4. Nodes' = Nodes
  BY <1>2, <1>3 DEF Nodes
<1>5. Stuck' = Stuck
  BY <1>1, <1>2, <1>3 DEF Stuck
<1>6. Circular' = Circular
  BY <1>3, <1>4 DEF Circular
<1>7. \A c : Circle(c)' = Circle(c)
  BY <1>3 DEF Circle
<1>8. QED
  BY <1>3, <1>4, <1>5, <1>6, <1>7

\* Nothing visited yet.
LEMMA SearchEmpty ==
  ASSUME visited = {}, path = <<>>, ~found
  PROVE  PathOk /\ ~found /\ SeenOk
<1>1. DOMAIN path = {} /\ Len(path) = 0 /\ In(path) = {} /\ Done = {}
  BY DEF In, Done
<1>2. QED
  BY <1>1 DEF PathOk, SeenOk, NoRepeats

\* A step that does not search: the locals stay as they are, or are gone.
LEMMA OutsideSearch ==
  ASSUME SearchInv, UNCHANGED search, pc \notin {"searching", "unresolved"},
         pc' \notin {"searching", "unresolved"}
  PROVE  SearchInv'
<1>1. visited' = {} /\ path' = <<>> /\ ~found' /\ ~found
  BY DEF SearchInv, search
<1>2. PathOk' /\ SeenOk'
  <2>1. DOMAIN path' = {} /\ Len(path') = 0 /\ In(path') = {} /\ Done' = {}
    BY <1>1 DEF In, Done
  <2>2. QED
    BY <1>1, <2>1 DEF PathOk, SeenOk, NoRepeats
<1>3. QED
  BY <1>1, <1>2 DEF SearchInv

\* The search enters n from the path, or at its start.
LEMMA EnterSeen ==
  ASSUME TypeOK, PathOk, ~found => SeenOk, NEW n \in Names, n \notin visited, SameLists,
         Enter(n), found' = found,
         \/ path = <<>> /\ left' = [left EXCEPT ![n] = WaitsFor(n)]
         \/ /\ path # <<>> /\ n \in left[Top]
            /\ left' = [left EXCEPT ![Top] = @ \ {n}, ![n] = WaitsFor(n)]
  PROVE  PathOk' /\ (~found' => SeenOk')
<1> DEFINE len == Len(path)
<1>1. /\ len = Len(path) /\ path \in Seq(Names) /\ len \in Nat /\ DOMAIN path = 1 .. len
      /\ \A i \in 1 .. len : path[i] \in In(path) /\ path[i] \in Names
      /\ left \in [Names -> SUBSET Names] /\ In(path) \subseteq visited /\ NoRepeats(path)
      /\ n \notin In(path)
  BY DEF TypeOK, PathOk, In
<1> HIDE DEF len
<1>2. /\ path' = Append(path, n) /\ visited' = visited \cup {n}
      /\ DOMAIN path' = 1 .. len + 1 /\ Len(path') = len + 1
      /\ \A i \in 1 .. len : path'[i] = path[i]
      /\ path'[len + 1] = n
  BY <1>1 DEF Enter
<1>3. In(path') = In(path) \cup {n} /\ NoRepeats(path')
  BY <1>1, <1>2, AppendIn
<1>4. Done' = Done
  BY <1>1, <1>2, <1>3 DEF Done
<1>5. \A m : WaitsFor(m)' = WaitsFor(m)
  BY SameListsWaits
<1>6. \A c : Circle(c)' = Circle(c)
  BY SameListsWaits
<1>7. WaitsFor(n) \subseteq Names
  BY DEF WaitsFor
<1>8. /\ left'[n] = WaitsFor(n)
      /\ \A i \in 1 .. len - 1 : left'[path[i]] = left[path[i]]
      /\ len # 0 => left'[path[len]] = left[path[len]] \ {n} /\ n \in left[path[len]]
  <2>1. CASE path = <<>>
    BY <1>1, <1>7, <2>1
  <2>2. CASE path # <<>>
    <3>1. /\ Top = path[len] /\ len # 0 /\ Top \in Names /\ Top # n /\ n \in left[Top]
          /\ left' = [left EXCEPT ![Top] = @ \ {n}, ![n] = WaitsFor(n)]
      BY <1>1, <2>2 DEF Top
    <3>2. \A i \in 1 .. len - 1 : path[i] # Top /\ path[i] # n
      BY <1>1, <3>1 DEF NoRepeats
    <3>3. left'[n] = WaitsFor(n) /\ left'[Top] = left[Top] \ {n}
      BY <1>1, <1>7, <3>1
    <3>4. \A m \in Names : m # Top /\ m # n => left'[m] = left[m]
      BY <1>1, <3>1
    <3>5. QED
      BY <1>1, <3>1, <3>2, <3>3, <3>4
  <2>3. QED
    BY <2>1, <2>2
<1>9. \A i \in 1 .. len : left[path[i]] \subseteq WaitsFor(path[i])
  BY <1>1 DEF PathOk
<1>10. PathOk'
  <2>1. \A i \in 1 .. Len(path') - 1 : path'[i + 1] \in WaitsFor(path'[i])
    <3>1. SUFFICES ASSUME NEW i \in 1 .. len
                   PROVE  path'[i + 1] \in WaitsFor(path'[i])
      BY <1>1, <1>2
    <3>2. CASE i < len
      BY <1>1, <1>2, <3>2 DEF PathOk
    <3>3. CASE i = len
      BY <1>1, <1>2, <1>8, <1>9, <3>3
    <3>4. QED
      BY <1>1, <3>1, <3>2, <3>3
  <2>2. \A m \in In(path') : left'[m] \subseteq WaitsFor(m)
    <3>1. \A i \in 1 .. len : left'[path[i]] \subseteq WaitsFor(path[i])
      <4>1. SUFFICES ASSUME NEW i \in 1 .. len
                     PROVE  left'[path[i]] \subseteq WaitsFor(path[i])
        OBVIOUS
      <4>2. i < len \/ i = len
        BY <1>1, <4>1
      <4>3. QED
        BY <1>1, <1>8, <1>9, <4>1, <4>2
    <3>2. In(path) = {path[i] : i \in 1 .. len}
      BY <1>1 DEF In
    <3>3. QED
      BY <1>3, <1>8, <3>1, <3>2
  <2>3. In(path') \subseteq visited'
    BY <1>1, <1>2, <1>3
  <2>4. QED
    BY <1>3, <1>5, <2>1, <2>2, <2>3 DEF PathOk
<1>11. ASSUME ~found'
       PROVE  SeenOk'
  <2>1. SeenOk
    BY <1>11
  <2>2. ASSUME NEW i \in 1 .. len + 1
        PROVE  WaitsFor(path'[i]) \ left'[path'[i]] \subseteq
                 Done \cup {path'[j] : j \in {i + 1} \cap (1 .. len + 1)}
    <3>1. CASE i = len + 1
      BY <1>1, <1>2, <1>8, <3>1
    <3>2. CASE i = len
      <4>1. n \in {path'[j] : j \in {i + 1} \cap (1 .. len + 1)}
        BY <1>1, <1>2, <3>2
      <4>2. WaitsFor(path[i]) \ left[path[i]] \subseteq Done
        BY <1>1, <2>1, <2>2, <3>2 DEF SeenOk
      <4>3. left'[path[i]] = left[path[i]] \ {n} /\ path'[i] = path[i]
        BY <1>1, <1>2, <1>8, <2>2, <3>2
      <4>4. QED
        BY <4>1, <4>2, <4>3
    <3>3. CASE i < len
      <4>1. WaitsFor(path[i]) \ left[path[i]] \subseteq Done \cup {path[i + 1]}
        BY <1>1, <2>1, <2>2, <3>3 DEF SeenOk
      <4>2. path'[i] = path[i] /\ path'[i + 1] = path[i + 1] /\ i + 1 \in 1 .. len + 1
            /\ left'[path[i]] = left[path[i]]
        BY <1>1, <1>2, <1>8, <2>2, <3>3
      <4>3. QED
        BY <4>1, <4>2
    <3>4. i = len + 1 \/ i = len \/ i < len
      BY <1>1, <2>2
    <3>5. QED
      BY <3>1, <3>2, <3>3, <3>4
  <2>3. \A c \in SUBSET Names : Circle(c) => c \cap Done = {}
    BY <2>1 DEF SeenOk
  <2>4. QED
    BY <1>2, <1>4, <1>5, <1>6, <2>2, <2>3 DEF SeenOk
<1>12. QED
  BY <1>10, <1>11

\* One of the dependencies was done before.
LEMMA SkipSeen ==
  ASSUME TypeOK, PathOk, ~found => SeenOk, NEW n \in Done, SameLists, path # <<>>,
         path' = path, visited' = visited, found' = found,
         left' = [left EXCEPT ![Top] = @ \ {n}]
  PROVE  PathOk' /\ (~found' => SeenOk')
<1> DEFINE len == Len(path)
<1>1. /\ len = Len(path) /\ path \in Seq(Names) /\ len \in Nat /\ len # 0 /\ DOMAIN path = 1 .. len
      /\ \A i \in 1 .. len : path[i] \in In(path) /\ path[i] \in Names
      /\ left \in [Names -> SUBSET Names] /\ Top = path[len] /\ Top \in Names
  BY DEF TypeOK, In, Top
<1> HIDE DEF len
<1>2. In(path') = In(path) /\ Done' = Done /\ NoRepeats(path') = NoRepeats(path)
      /\ Len(path') = len /\ DOMAIN path' = 1 .. len
  BY <1>1 DEF Done
<1>3. \A m : WaitsFor(m)' = WaitsFor(m)
  BY SameListsWaits
<1>4. \A c : Circle(c)' = Circle(c)
  BY SameListsWaits
<1>5. \A m \in Names : left[m] \ {n} \subseteq left'[m] /\ left'[m] \subseteq left[m]
  BY <1>1
<1>6. PathOk'
  <2>1. In(path) \subseteq Names
    BY <1>1 DEF In
  <2>2. \A m \in In(path) : left'[m] \subseteq WaitsFor(m)
    BY <1>5, <2>1 DEF PathOk
  <2>3. QED
    BY <1>2, <1>3, <2>2 DEF PathOk
<1>7. ASSUME ~found'
      PROVE  SeenOk'
  <2>1. SeenOk
    BY <1>7
  <2>2. \A i \in 1 .. len :
          WaitsFor(path[i]) \ left'[path[i]] \subseteq
            Done \cup {path[j] : j \in {i + 1} \cap (1 .. len)}
    BY <1>1, <1>5, <2>1 DEF SeenOk
  <2>3. QED
    BY <1>2, <1>3, <1>4, <2>1, <2>2 DEF SeenOk
<1>8. QED
  BY <1>6, <1>7

\* All dependencies of the name at the end of the path are done: so is it.
LEMMA BackSeen ==
  ASSUME TypeOK, PathOk, ~found => SeenOk, SameLists, path # <<>>, left[Top] = {},
         path' = Pop, visited' = visited, left' = left, found' = found
  PROVE  PathOk' /\ (~found' => SeenOk')
<1> DEFINE len == Len(path)
<1>1. /\ len = Len(path) /\ path \in Seq(Names) /\ len \in Nat /\ len # 0 /\ DOMAIN path = 1 .. len
      /\ \A i \in 1 .. len : path[i] \in In(path) /\ path[i] \in Names
      /\ Top = path[len] /\ Top \in Names
  BY DEF TypeOK, In, Top
<1> HIDE DEF len
<1>2. /\ path' \in Seq(Names) /\ DOMAIN path' = 1 .. len - 1 /\ Len(path') = len - 1
      /\ \A i \in 1 .. len - 1 : path'[i] = path[i]
  BY <1>1 DEF Pop
<1>3. In(path) = In(path') \cup {Top} /\ Top \notin In(path')
  <2>1. In(path) \subseteq In(path') \cup {Top}
    <3>1. \A i \in 1 .. len : i \in 1 .. len - 1 \/ i = len
      BY <1>1
    <3>2. \A i \in 1 .. len : path[i] \in In(path') \cup {Top}
      BY <1>1, <1>2, <3>1 DEF In
    <3>3. QED
      BY <1>1, <3>2 DEF In
  <2>2. In(path') \cup {Top} \subseteq In(path)
    <3>1. 1 .. len - 1 \subseteq 1 .. len /\ len \in 1 .. len
      BY <1>1
    <3>2. QED
      BY <1>1, <1>2, <3>1 DEF In
  <2>3. Top \notin In(path')
    BY SMTT(40), <1>1, <1>2 DEF PathOk, NoRepeats, In
  <2>4. QED
    BY <2>1, <2>2, <2>3
<1>4. Done' = Done \cup {Top}
  <2>1. Top \in visited
    BY <1>1, <1>3 DEF PathOk
  <2>2. QED
    BY <1>3, <2>1 DEF Done
<1>5. \A m : WaitsFor(m)' = WaitsFor(m)
  BY SameListsWaits
<1>6. \A c : Circle(c)' = Circle(c)
  BY SameListsWaits
<1>7. PathOk'
  <2>1. NoRepeats(path')
    BY <1>1, <1>2 DEF PathOk, NoRepeats
  <2>2. \A i \in 1 .. Len(path') - 1 : path'[i + 1] \in WaitsFor(path'[i])
    BY <1>1, <1>2 DEF PathOk
  <2>3. In(path') \subseteq visited' /\ \A m \in In(path') : left'[m] \subseteq WaitsFor(m)
    BY <1>3 DEF PathOk
  <2>4. QED
    BY <1>5, <2>1, <2>2, <2>3 DEF PathOk
<1>8. ASSUME ~found'
      PROVE  SeenOk'
  <2>1. SeenOk
    BY <1>8
  <2>2. WaitsFor(Top) \subseteq Done
    BY <1>1, <2>1 DEF SeenOk
  <2>3. ASSUME NEW c \in SUBSET Names, Circle(c)
        PROVE  c \cap Done' = {}
    <3>1. c \cap Done = {}
      BY <2>1, <2>3 DEF SeenOk
    <3>2. Top \notin c
      BY <2>2, <2>3, <3>1 DEF Circle
    <3>3. QED
      BY <1>4, <3>1, <3>2
  <2>4. ASSUME NEW i \in 1 .. len - 1
        PROVE  WaitsFor(path'[i]) \ left'[path'[i]] \subseteq
                 Done' \cup {path'[j] : j \in {i + 1} \cap (1 .. len - 1)}
    <3>1. WaitsFor(path[i]) \ left[path[i]] \subseteq
            Done \cup {path[j] : j \in {i + 1} \cap (1 .. len)}
      BY <1>1, <2>1, <2>4 DEF SeenOk
    <3>2. path'[i] = path[i] /\ left'[path[i]] = left[path[i]]
      BY <1>2, <2>4
    <3>3. ASSUME NEW j \in {i + 1} \cap (1 .. len)
          PROVE  path[j] \in {Top} \cup {path'[k] : k \in {i + 1} \cap (1 .. len - 1)}
      <4>1. j = len \/ j \in 1 .. len - 1
        BY <1>1, <3>3
      <4>2. QED
        BY <1>1, <1>2, <3>3, <4>1
    <3>4. QED
      BY <1>4, <3>1, <3>2, <3>3
  <2>5. QED
    BY <1>2, <1>5, <1>6, <2>3, <2>4 DEF SeenOk
<1>9. QED
  BY <1>7, <1>8

\* A name that waits for one further up the path closes a circle.
LEMMA ClosesCircle ==
  ASSUME TypeOK, PathOk, path # <<>>, NEW n \in In(path), n \in left[Top]
  PROVE  Circular
<1> DEFINE len == Len(path)
<1>1. /\ len = Len(path) /\ path \in Seq(Names) /\ len \in Nat /\ len # 0 /\ DOMAIN path = 1 .. len
      /\ \A i \in 1 .. len : path[i] \in In(path) /\ path[i] \in Names
      /\ Top = path[len]
  BY DEF TypeOK, In, Top
<1> HIDE DEF len
<1>2. PICK first \in 1 .. len : path[first] = n
  BY <1>1 DEF In
<1> DEFINE c == {path[i] : i \in first .. len}
<1>3. c \in SUBSET Names /\ n \in c
  BY <1>1, <1>2
<1>4. ASSUME NEW i \in first .. len
      PROVE  WaitsFor(path[i]) \cap c # {}
  <2>1. CASE i = len
    <3>1. n \in WaitsFor(path[len])
      BY <1>1 DEF PathOk
    <3>2. QED
      BY <1>3, <2>1, <3>1
  <2>2. CASE i < len
    <3>1. i + 1 \in first .. len /\ i \in 1 .. len - 1
      BY <1>1, <1>2, <1>4, <2>2
    <3>2. path[i + 1] \in WaitsFor(path[i]) /\ path[i + 1] \in c
      BY <1>1, <3>1 DEF PathOk
    <3>3. QED
      BY <3>2
  <2>3. QED
    BY <1>1, <1>2, <1>4, <2>1, <2>2
<1>5. Circle(c)
  BY <1>3, <1>4 DEF Circle
<1>6. QED
  BY <1>3, <1>5, CircularIsCircle

\* A turn of the search.
LEMMA SearchTurn ==
  ASSUME TypeOK, SearchInv, SearchBack \/ \E n \in Names : SearchFrom(n) \/ SearchNext(n)
  PROVE  SearchInv'
<1>1. pc = "searching" /\ pc' = "searching" /\ SameLists
  BY DEF SearchBack, SearchFrom, SearchNext, OnlySearch, SameLists
<1>2. Stuck /\ PathOk /\ (found => Circular) /\ (~found => SeenOk)
  BY <1>1 DEF SearchInv
<1>3. Stuck' = Stuck /\ Circular' = Circular
  BY <1>1, SameListsWaits
<1>4. SUFFICES PathOk' /\ (found' => Circular) /\ (~found' => SeenOk')
  BY <1>1, <1>2, <1>3 DEF SearchInv
<1>5. ASSUME NEW n \in Names, SearchFrom(n)
      PROVE  PathOk' /\ (found' => Circular) /\ (~found' => SeenOk')
  <2>1. /\ n \notin visited /\ Enter(n) /\ found' = found /\ path = <<>>
        /\ left' = [left EXCEPT ![n] = WaitsFor(n)]
    BY <1>5 DEF SearchFrom
  <2>2. PathOk' /\ (~found' => SeenOk')
    BY <1>1, <1>2, <2>1, EnterSeen
  <2>3. QED
    BY <1>2, <2>1, <2>2
<1>6. ASSUME NEW n \in Names, SearchNext(n)
      PROVE  PathOk' /\ (found' => Circular) /\ (~found' => SeenOk')
  <2>1. path # <<>> /\ n \in left[Top]
    BY <1>6 DEF SearchNext
  <2>2. CASE n \in In(path)
    <3>1. found' = TRUE /\ path' = <<>>
      BY <1>6, <2>2 DEF SearchNext
    <3>2. Circular
      BY <1>2, <2>1, <2>2, ClosesCircle
    <3>3. DOMAIN path' = {} /\ Len(path') = 0 /\ In(path') = {}
      BY <3>1 DEF In
    <3>4. PathOk'
      BY <3>3 DEF PathOk, NoRepeats
    <3>5. QED
      BY <3>1, <3>2, <3>4
  <2>3. CASE n \in visited \ In(path)
    <3>1. /\ path' = path /\ visited' = visited /\ found' = found
          /\ left' = [left EXCEPT ![Top] = @ \ {n}]
      BY <1>6, <2>3 DEF SearchNext
    <3>2. n \in Done
      BY <2>3 DEF Done
    <3>3. PathOk' /\ (~found' => SeenOk')
      BY <1>1, <1>2, <2>1, <3>1, <3>2, SkipSeen
    <3>4. QED
      BY <1>2, <3>1, <3>3
  <2>4. CASE n \notin In(path) /\ n \notin visited \ In(path)
    <3>1. /\ Enter(n) /\ found' = found
          /\ left' = [left EXCEPT ![Top] = @ \ {n}, ![n] = WaitsFor(n)]
      BY <1>6, <2>4 DEF SearchNext
    <3>2. n \notin visited
      BY <2>4
    <3>3. PathOk' /\ (~found' => SeenOk')
      BY <1>1, <1>2, <2>1, <3>1, <3>2, EnterSeen
    <3>4. QED
      BY <1>2, <3>1, <3>3
  <2>5. QED
    BY <2>2, <2>3, <2>4
<1>7. ASSUME SearchBack
      PROVE  PathOk' /\ (found' => Circular) /\ (~found' => SeenOk')
  <2>1. /\ path # <<>> /\ left[Top] = {} /\ path' = Pop
        /\ visited' = visited /\ left' = left /\ found' = found
    BY <1>7 DEF SearchBack
  <2>2. PathOk' /\ (~found' => SeenOk')
    BY <1>1, <1>2, <2>1, BackSeen
  <2>3. QED
    BY <1>2, <2>1, <2>2
<1>8. QED
  BY <1>5, <1>6, <1>7

LEMMA SearchInit == Init => SearchInv
<1> SUFFICES ASSUME Init
             PROVE  SearchInv
  OBVIOUS
<1>1. visited = {} /\ path = <<>> /\ ~found /\ pc = "idle"
  BY DEF Init
<1>2. QED
  BY <1>1, SearchEmpty DEF SearchInv

LEMMA SearchStep == TypeOK /\ SearchInv /\ [Next]_vars => SearchInv'
<1> SUFFICES ASSUME TypeOK, SearchInv, [Next]_vars
             PROVE  SearchInv'
  OBVIOUS
<1>1. CASE SearchBack \/ \E n \in Names : SearchFrom(n) \/ SearchNext(n)
  BY <1>1, SearchTurn
<1>2. CASE \/ Fill \/ Filled \/ Resolve \/ RunStep \/ RunEnds \/ CallFill
           \/ \E c \in {"ready", "run"} : CallReady(c)
           \/ \E s \in Names : AddStep(s)
           \/ \E exceptions \in SUBSET Names : Derive(exceptions)
  <2>1. pc \notin {"searching", "unresolved"} /\ pc' \notin {"searching", "unresolved"}
    BY <1>2 DEF Fill, Filled, Resolve, RunStep, RunEnds, CallFill, CallReady, AddStep,
                Derive, Insert
  <2>2. UNCHANGED search
    BY <1>2 DEF Fill, Filled, Resolve, RunStep, RunEnds, CallFill, CallReady, AddStep,
                Derive, Insert
  <2>3. QED
    BY <2>1, <2>2, OutsideSearch
<1>3. CASE Resolved
  <2>1. /\ pc = "resolving" /\ UNCHANGED search /\ SameLists
        /\ \A s \in In(pending) : ~Resolvable(s)
    BY <1>3 DEF Resolved, SameLists
  <2>2. CASE pc' \in {"searching", "unresolved"}
    <3>1. Stuck /\ pc' = "searching"
      BY <1>3, <2>1, <2>2 DEF Resolved, Stuck
    <3>2. Stuck'
      BY <2>1, <3>1, SameListsWaits
    <3>3. visited = {} /\ path = <<>> /\ ~found /\ UNCHANGED <<visited, path, left, found>>
      BY <2>1 DEF SearchInv, search
    <3>4. DOMAIN path' = {} /\ Len(path') = 0 /\ In(path') = {} /\ Done' = {}
      BY <3>3 DEF In, Done
    <3>5. PathOk' /\ SeenOk' /\ ~found'
      BY <3>3, <3>4 DEF PathOk, SeenOk, NoRepeats
    <3>6. QED
      BY <3>1, <3>2, <3>5 DEF SearchInv
  <2>3. CASE pc' \notin {"searching", "unresolved"}
    BY <2>1, <2>3, OutsideSearch
  <2>4. QED
    BY <2>2, <2>3
<1>4. CASE Diagnosed
  <2>1. /\ pc = "searching" /\ pc' = "unresolved" /\ path = <<>> /\ Nodes \subseteq visited
        /\ SameLists /\ UNCHANGED <<visited, path, left, found>>
    BY <1>4 DEF Diagnosed, SameLists, search
  <2>2. /\ Stuck' = Stuck /\ Circular' = Circular /\ Nodes' = Nodes
        /\ \A n : WaitsFor(n)' = WaitsFor(n)
    BY <2>1, SameListsWaits
  <2>3. \A c : Circle(c)' = Circle(c)
    BY <2>1, SameListsWaits
  <2>4. PathOk' = PathOk
    BY <2>1, <2>2 DEF PathOk
  <2>5. SeenOk' = SeenOk
    BY <2>1, <2>2, <2>3 DEF SeenOk, Done
  <2>6. QED
    BY <2>1, <2>2, <2>4, <2>5 DEF SearchInv
<1>5. CASE Failed
  <2>1. /\ pc = "unresolved" /\ pc' = "idle" /\ visited' = {} /\ found' = FALSE
        /\ path' = <<>>
    BY <1>5 DEF Failed, SearchInv
  <2>2. DOMAIN path' = {} /\ Len(path') = 0 /\ In(path') = {} /\ Done' = {}
    BY <2>1 DEF In, Done
  <2>3. PathOk' /\ SeenOk'
    BY <2>1, <2>2 DEF PathOk, SeenOk, NoRepeats
  <2>4. QED
    BY <2>1, <2>3 DEF SearchInv
<1>6. CASE UNCHANGED vars
  <2>1. SameLists /\ pc' = pc /\ UNCHANGED <<visited, path, left, found>>
    BY <1>6 DEF vars, SameLists, search
  <2>2. /\ Stuck' = Stuck /\ Circular' = Circular /\ Nodes' = Nodes
        /\ \A n : WaitsFor(n)' = WaitsFor(n)
    BY <2>1, SameListsWaits
  <2>3. \A c : Circle(c)' = Circle(c)
    BY <2>1, SameListsWaits
  <2>4. PathOk' = PathOk
    BY <2>1, <2>2 DEF PathOk
  <2>5. SeenOk' = SeenOk
    BY <2>1, <2>2, <2>3 DEF SeenOk, Done
  <2>6. QED
    BY <2>1, <2>2, <2>4, <2>5 DEF SearchInv
<1>7. QED
  BY <1>1, <1>2, <1>3, <1>4, <1>5, <1>6 DEF Next, Method, Calls

\* Once nothing is left to visit.
LEMMA Explained == TypeOK /\ SearchInv => FailureExplained
<1> SUFFICES ASSUME TypeOK, SearchInv, pc = "unresolved"
             PROVE  (found <=> Circular) /\ (found \/ Missing)
  BY DEF FailureExplained
<1>1. /\ path = <<>> /\ Nodes \subseteq visited /\ Stuck /\ (found => Circular)
      /\ (~found => SeenOk)
  BY DEF SearchInv
<1>2. Done = visited
  BY <1>1 DEF Done, In
<1>3. ASSUME ~found, NEW c \in SUBSET Names, Circle(c)
      PROVE  FALSE
  <2>1. c \cap Done = {}
    BY <1>1, <1>3 DEF SeenOk
  <2>2. c \subseteq Nodes /\ c # {}
    BY <1>3 DEF Circle, Nodes
  <2>3. QED
    BY <1>1, <1>2, <2>1, <2>2
<1>4. ~found => ~Circular
  BY <1>3, CircularIsCircle
<1>5. ASSUME ~found
      PROVE  Missing
  <2>1. SUFFICES ASSUME ~Missing
                 PROVE  FALSE
    OBVIOUS
  <2>2. pending \in Seq(Names) /\ In(pending) \cap In(ordered) = {} /\ pending # <<>>
    BY <1>1 DEF TypeOK, Stuck
  <2>3. In(pending) \in SUBSET Names /\ In(pending) # {}
    <3>1. 1 \in DOMAIN pending /\ \A i \in DOMAIN pending : pending[i] \in Names
      BY <2>2
    <3>2. QED
      BY <3>1 DEF In
  <2>4. ASSUME NEW s \in In(pending)
        PROVE  WaitsFor(s) \cap In(pending) # {}
    <3>1. ~Resolvable(s) /\ After(s) \subseteq Planned /\ s \notin In(ordered)
      BY <1>1, <2>1, <2>2 DEF Stuck, Missing
    <3>2. CASE ~(After(s) \subseteq In(ordered))
      <4>1. PICK m \in After(s) : m \notin In(ordered)
        BY <3>2
      <4>2. m \in In(pending)
        BY <3>1, <4>1 DEF Planned
      <4>3. m \in WaitsFor(s)
        BY <2>3, <4>1, <4>2 DEF WaitsFor
      <4>4. QED
        BY <4>2, <4>3
    <3>3. CASE \E p \in In(pending) : s \in Before(p)
      <4>1. PICK p \in In(pending) : s \in Before(p)
        BY <3>3
      <4>2. p \in WaitsFor(s)
        BY <2>3, <3>1, <4>1 DEF WaitsFor
      <4>3. QED
        BY <4>2
    <3>4. QED
      BY <3>1, <3>2, <3>3 DEF Resolvable
  <2>5. Circle(In(pending))
    BY <2>3, <2>4 DEF Circle
  <2>6. QED
    BY <1>3, <1>5, <2>3, <2>5
<1>6. QED
  BY <1>1, <1>4, <1>5

\* Run that cannot order the plan says why: it finds a circle if and only if there is
\* one, and without one a step that is not in the plan is missing; for every plan.
THEOREM FailureExplainedCorrect == Spec => []FailureExplained
<1>1. Spec => []SearchInv
  BY SearchInit, SearchStep, PlanInv, PTL DEF Spec
<1>2. QED
  BY <1>1, Explained, PlanInv, PTL

-----------------------------------------------------------------------------
(***************************************************************************)
(* The default steps.                                                      *)
(***************************************************************************)

\* Every step of the plan that was not added by a caller has a default factory, and
\* another step of the plan refers to it.
FillInv ==
  \A d \in Planned \ given :
    d \in catalog.factory /\ \E s \in Planned \ {d} : d \in After(s) \cup Before(s)

\* The steps that AddDefaultSteps goes through are those of the plan.
LEMMA Everywhere ==
  ASSUME TypeOK
  PROVE  /\ \A i \in 1 .. Len(ordered) + Len(pending) : (ordered \o pending)[i] \in Planned
         /\ \A s \in Planned : \E i \in 1 .. Len(ordered) + Len(pending) :
              (ordered \o pending)[i] = s /\ (i <= Len(ordered) => s \in In(ordered))
<1>1. /\ Len(ordered) \in Nat /\ Len(pending) \in Nat
      /\ DOMAIN ordered = 1 .. Len(ordered) /\ DOMAIN pending = 1 .. Len(pending)
      /\ \A i \in 1 .. Len(ordered) + Len(pending) :
           (ordered \o pending)[i] =
             IF i <= Len(ordered) THEN ordered[i] ELSE pending[i - Len(ordered)]
  BY ConcatProperties DEF TypeOK
<1>2. ASSUME NEW i \in 1 .. Len(ordered) + Len(pending)
      PROVE  (ordered \o pending)[i] \in Planned
  <2>1. CASE i <= Len(ordered)
    <3>1. i \in DOMAIN ordered
      BY <1>1, <1>2, <2>1
    <3>2. QED
      BY <1>1, <1>2, <2>1, <3>1 DEF Planned, In
  <2>2. CASE ~(i <= Len(ordered))
    <3>1. i - Len(ordered) \in DOMAIN pending
      BY <1>1, <1>2, <2>2
    <3>2. QED
      BY <1>1, <1>2, <2>2, <3>1 DEF Planned, In
  <2>3. QED
    BY <2>1, <2>2
<1>3. ASSUME NEW s \in Planned
      PROVE  \E i \in 1 .. Len(ordered) + Len(pending) :
               (ordered \o pending)[i] = s /\ (i <= Len(ordered) => s \in In(ordered))
  <2>1. CASE s \in In(ordered)
    <3>1. PICK i \in DOMAIN ordered : ordered[i] = s
      BY <2>1 DEF In
    <3>2. i \in 1 .. Len(ordered) + Len(pending) /\ i <= Len(ordered)
      BY <1>1, <3>1
    <3>3. QED
      BY <1>1, <2>1, <3>1, <3>2
  <2>2. CASE s \in In(pending)
    <3>1. PICK j \in DOMAIN pending : pending[j] = s
      BY <2>2 DEF In
    <3>2. PICK i \in 1 .. Len(ordered) + Len(pending) : i = Len(ordered) + j
      BY <1>1, <3>1
    <3>3. ~(i <= Len(ordered)) /\ i - Len(ordered) = j
      BY <1>1, <3>1, <3>2
    <3>4. QED
      BY <1>1, <3>1, <3>3
  <2>3. QED
    BY <1>3, <2>1, <2>2 DEF Planned
<1>4. QED
  BY <1>2, <1>3

\* What is wanted has a factory, is not in the plan yet, and the step wants it.
LEMMA WantedIs ==
  ASSUME TypeOK, NEW i \in 1 .. Len(ordered) + Len(pending), NEW n \in Wanted(i)
  PROVE  /\ n \in catalog.factory /\ n \notin Planned
         /\ n \in After((ordered \o pending)[i]) \cup Before((ordered \o pending)[i])
BY DEF Wanted, Unfilled

\* The set of steps of the plan after a step is added.
LEMMA InsertPlanned ==
  ASSUME TypeOK, NEW s \in Names, Insert(s)
  PROVE  /\ catalog' = catalog
         /\ Planned' = Planned \/ Planned' = Planned \cup {s}
<1>1. catalog' = catalog /\ ordered' = ordered
  BY DEF Insert
<1>2. pending' = Append(pending, s) \/ pending' = pending
  BY DEF Insert
<1>3. In(ordered') = In(ordered)
  BY <1>1
<1>4. CASE pending' = pending
  BY <1>1, <1>3, <1>4 DEF Planned
<1>5. CASE pending' = Append(pending, s)
  <2>1. In(pending') = In(pending) \cup {s}
    BY <1>5, AppendIn DEF TypeOK
  <2>2. QED
    BY <1>1, <1>3, <2>1 DEF Planned
<1>6. QED
  BY <1>1, <1>2, <1>4, <1>5

LEMMA FillInit == Init => FillInv
<1> SUFFICES ASSUME Init
             PROVE  FillInv
  OBVIOUS
<1>1. pending = <<>> /\ ordered = <<>> /\ DOMAIN <<>> = {}
  BY DEF Init
<1>2. Planned = {}
  BY <1>1 DEF Planned, In
<1>3. QED
  BY <1>2 DEF FillInv

LEMMA FillStep == TypeOK /\ FillInv /\ [Next]_vars => FillInv'
<1> SUFFICES ASSUME TypeOK, FillInv, [Next]_vars
             PROVE  FillInv'
  OBVIOUS
<1>1. CASE Fill
  <2>1. PICK i \in 1 .. Len(ordered) + Len(pending) : \E n \in Wanted(i) : Insert(n)
    BY <1>1 DEF Fill
  <2>2. PICK n \in Wanted(i) : Insert(n)
    BY <2>1
  <2>3. n \in catalog.factory /\ n \notin Planned
        /\ n \in After((ordered \o pending)[i]) \cup Before((ordered \o pending)[i])
    BY WantedIs
  <2>4. (ordered \o pending)[i] \in Planned
    BY Everywhere
  <2>5. n \in Names
    BY <2>3 DEF TypeOK, AnyCatalog
  <2>6. catalog' = catalog /\ (Planned' = Planned \/ Planned' = Planned \cup {n})
        /\ given' = given
    BY <1>1, <2>2, <2>5, InsertPlanned DEF Fill
  <2>7. \A s : After(s)' = After(s) /\ Before(s)' = Before(s)
    BY <2>6 DEF After, Before
  <2>8. SUFFICES ASSUME NEW d \in Planned' \ given
                 PROVE  d \in catalog.factory
                        /\ \E s \in Planned' \ {d} : d \in After(s) \cup Before(s)
    BY <2>6, <2>7 DEF FillInv
  <2>9. CASE d \in Planned
    BY <2>6, <2>8, <2>9 DEF FillInv
  <2>10. CASE d = n
    BY <2>3, <2>4, <2>6, <2>10
  <2>11. QED
    BY <2>6, <2>8, <2>9, <2>10
<1>2. CASE \E s \in Names : AddStep(s)
  <2>1. PICK s \in Names : AddStep(s)
    BY <1>2
  <2>2. catalog' = catalog /\ (Planned' = Planned \/ Planned' = Planned \cup {s})
        /\ given' = given \cup {s}
    BY <2>1, InsertPlanned DEF AddStep
  <2>3. \A t : After(t)' = After(t) /\ Before(t)' = Before(t)
    BY <2>2 DEF After, Before
  <2>4. QED
    BY <2>2, <2>3 DEF FillInv
<1>3. CASE Resolve
  <2>1. PICK k \in DOMAIN pending :
          ordered' = Append(ordered, pending[k]) /\ pending' = WithoutAt(pending, k)
    BY <1>3 DEF Resolve
  <2>2. catalog' = catalog /\ given' = given
    BY <1>3 DEF Resolve
  <2>3. In(pending) = In(pending') \cup {pending[k]}
    BY <2>1, WithoutAtIn DEF TypeOK
  <2>4. pending[k] \in Names
    BY DEF TypeOK
  <2>5. In(ordered') = In(ordered) \cup {pending[k]}
    BY <2>1, <2>4, AppendIn DEF TypeOK
  <2>6. Planned' = Planned
    BY <2>3, <2>5 DEF Planned
  <2>7. \A t : After(t)' = After(t) /\ Before(t)' = Before(t)
    BY <2>2 DEF After, Before
  <2>8. QED
    BY <2>2, <2>6, <2>7 DEF FillInv
<1>4. CASE \E exceptions \in SUBSET Names : Derive(exceptions)
  <2>1. PICK exceptions \in SUBSET Names : Derive(exceptions)
    BY <1>4
  <2> DEFINE all  == ordered \o pending
             kept == {i \in DOMAIN all : all[i] \notin exceptions}
  <2>2. PICK at \in [1 .. Cardinality(kept) -> kept] :
          pending' = [i \in DOMAIN at |-> all[at[i]]]
    BY <2>1 DEF Derive
  <2>3. ordered' = <<>> /\ given' = Planned \ exceptions
    BY <2>1 DEF Derive
  <2>4. DOMAIN all = 1 .. Len(ordered) + Len(pending)
    BY ConcatProperties DEF TypeOK
  <2>5. \A i \in DOMAIN all : all[i] \in Planned
    BY <2>4, Everywhere
  <2> HIDE DEF all
  <2>6. \A i \in DOMAIN at : all[at[i]] \in Planned \ exceptions
    BY <2>5
  <2>7. In(pending') \subseteq given'
    BY <2>2, <2>3, <2>6 DEF In
  <2>8. In(ordered') = {}
    BY <2>3 DEF In
  <2>9. Planned' \ given' = {}
    BY <2>7, <2>8 DEF Planned
  <2>10. QED
    BY <2>9 DEF FillInv
<1>5. CASE \/ Filled \/ Resolved \/ RunStep \/ RunEnds \/ Diagnosed \/ Failed \/ SearchBack
           \/ CallFill \/ UNCHANGED vars
           \/ \E c \in {"ready", "run"} : CallReady(c)
           \/ \E n \in Names : SearchFrom(n) \/ SearchNext(n)
  <2>1. catalog' = catalog /\ pending' = pending /\ ordered' = ordered /\ given' = given
    BY <1>5 DEF Filled, Resolved, RunStep, RunEnds, Diagnosed, Failed, SearchBack, CallFill,
                CallReady, SearchFrom, SearchNext, OnlySearch, vars
  <2>2. Planned' = Planned
    BY <2>1 DEF Planned, In
  <2>3. \A t : After(t)' = After(t) /\ Before(t)' = Before(t)
    BY <2>1 DEF After, Before
  <2>4. QED
    BY <2>1, <2>2, <2>3 DEF FillInv
<1>6. QED
  BY <1>1, <1>2, <1>3, <1>4, <1>5 DEF Next, Method, Calls

\* AddDefaultSteps adds exactly the defaults that steps of the plan refer to, those
\* of steps put in order earlier included.
THEOREM DefaultsAsWantedCorrect == Spec => DefaultsAsWanted
<1> DEFINE Filling ==
      pc = "filling" /\ pc' = "idle" =>
        /\ \A s \in Planned : (After(s) \cup Before(s)) \cap catalog.factory \subseteq Planned
        /\ \A d \in Planned \ given :
             d \in catalog.factory /\ \E s \in Planned \ {d} : d \in After(s) \cup Before(s)
<1>1. TypeOK /\ OrderRespects /\ FillInv /\ [Next]_vars => [Filling]_vars
  <2> SUFFICES ASSUME TypeOK, OrderRespects, FillInv, Next, pc = "filling", pc' = "idle"
               PROVE  /\ \A s \in Planned :
                           (After(s) \cup Before(s)) \cap catalog.factory \subseteq Planned
                      /\ \A d \in Planned \ given :
                           d \in catalog.factory
                           /\ \E s \in Planned \ {d} : d \in After(s) \cup Before(s)
    OBVIOUS
  <2>1. Filled
    BY DEF Next, Method, Calls, Fill, Insert, Resolve, Resolved, RunStep, RunEnds, SearchBack,
           Diagnosed, Failed, SearchFrom, SearchNext, OnlySearch, CallFill, CallReady,
           AddStep, Derive
  <2>2. \A i \in 1 .. Len(ordered) + Len(pending) : Wanted(i) = {}
    BY <2>1 DEF Filled
  <2>3. ASSUME NEW s \in Planned
        PROVE  (After(s) \cup Before(s)) \cap catalog.factory \subseteq Planned
    <3>1. PICK i \in 1 .. Len(ordered) + Len(pending) :
            (ordered \o pending)[i] = s /\ (i <= Len(ordered) => s \in In(ordered))
      BY Everywhere
    <3>2. Wanted(i) = {}
      BY <2>2
    <3>3. Unfilled(Before(s)) = {} /\ (i <= Len(ordered) \/ Unfilled(After(s)) = {})
      BY <3>1, <3>2 DEF Wanted
    <3>4. s \in In(ordered) => After(s) \subseteq Planned
      BY DEF OrderRespects, Planned, In, TypeOK
    <3>5. QED
      BY <3>1, <3>3, <3>4 DEF Unfilled
  <2>4. QED
    BY <2>3 DEF FillInv
<1>2. Spec => []FillInv
  BY FillInit, FillStep, PlanInv, PTL DEF Spec
<1>3. QED
  BY <1>1, <1>2, PlanInv, PTL DEF Spec, DefaultsAsWanted
=============================================================================
