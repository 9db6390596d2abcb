-------------------------- MODULE GoCacheStoreProofs --------------------------
(***************************************************************************)
(* The storage of the Go build cache, for any actions, outputs, setups and *)
(* number of threads: every entry leads to its output, and the storage     *)
(* implements GoCacheMap.                                                  *)
(***************************************************************************)
EXTENDS GoCacheStore, TLAPS

-----------------------------------------------------------------------------
(***************************************************************************)
(* The inductive invariant.                                                *)
(***************************************************************************)

\* Past opening the temporary file; and not yet done.
Busy == {"write", "unlink", "rename", "copy", "move", "delete", "remove"}
Ready == {"unlink", "rename", "copy", "move"}
AtWork(t, l) == W(t, l).pc \notin {"none", "ok", "failed"}

\* A file is whole, on disk, and, for an output, has its bytes.
Whole(f, n) ==
  /\ SizeOk(f, n) /\ f.synced
  /\ n.kind = "d" => \A i \in 1 .. 2 : f.data[i] = n.id

\* The local file of the output is there to stay; the layer has the output, unless
\* sftp removed it; whoever reads an entry of the layer finds its output.
Kept(o) == Output(o) \in raced \/ Intact(file[Local][Output(o)], o)
StoredIn(l, o) == Output(o) \in raced \cup lost \/ HasOutput(l, o)
Resolved(l, o) ==
  o = Empty \/ StoredIn(l, o) \/ (l = Local /\ Mode # "disk" /\ HasOutput(Remote, o))

\* Where each writer is, whatever races there are.
WriterInv ==
  \A t \in Threads, l \in Layers :
    /\ W(t, l).pc = "unlink" => l = Remote
    /\ W(t, l).pc \in {"stat", "open"} => W(t, l).at = 1
    /\ W(t, l).holds # "none" => W(t, l).pc \in Busy /\ ~Objects(l)
    /\ AtWork(t, l) /\ l = Remote => Mode = "write-through"

\* A name that was not raced for has one writer past opening at most, whose temporary file
\* has what it has written so far; and its file is whole.
TheirsAlone ==
  \A t \in Threads, l \in Layers :
    W(t, l).pc \in Busy /\ W(t, l).name \notin raced => Rivals(t, l) = {}
FilesWhole ==
  \A l \in Layers, n \in Names \ raced : file[l][n] # Absent => Whole(file[l][n], n)
TempOk(l, n, w, f, g) ==
  /\ w.pc \notin {"none", "ok", "failed"} /\ n.kind = "d" => \A i \in 1 .. 2 : w.data[i] = n.id
  /\ w.pc = "write" /\ ~Objects(l) =>
       /\ w.holds = "tmp" /\ f.size = w.at - 1 /\ f # Absent
       /\ \A i \in 1 .. 2 : i < w.at => f.data[i] = w.data[i]
  /\ w.pc \in Ready /\ f # Absent =>
       /\ SizeOk(f, n) /\ f.synced /\ \A i \in 1 .. Pieces(n) : f.data[i] = w.data[i]
  /\ w.pc = "delete" => g # Absent
TempInv ==
  \A l \in Layers, n \in Names \ raced, t \in Threads :
    W(t, l).name = n => TempOk(l, n, W(t, l), tmp[l][n], file[l][n])

\* An entry names an output that was offered for its action, raced for or not.
Names1(f, a) == f.size > 0 => f.data[1] \in offered[a]
EntriesInv ==
  \A l \in Layers, a \in Actions :
    /\ Names1(file[l][Entry(a)], a) /\ Names1(tmp[l][Entry(a)], a)
    /\ \A t \in Threads :
         AtWork(t, l) /\ W(t, l).name = Entry(a) => W(t, l).data[1] \in offered[a]

ResolveInv ==
  \A l \in Layers, a \in Actions :
    Entry(a) \notin raced =>
      /\ file[l][Entry(a)] # Absent => Resolved(l, file[l][Entry(a)].data[1])
      /\ \A t \in Threads :
           AtWork(t, l) /\ W(t, l).name = Entry(a) => Resolved(l, W(t, l).data[1])

Getting == {"entry", "remote entry", "copy entry", "output", "remote output", "copy output"}
Putting == {"put output", "put entry", "put remote entry"}
CallOk(c, outs) ==
  /\ c.pc = "idle" => c.op = "none" \/ c.res # "none"
  /\ c.pc # "idle" => c.res = "none"
  /\ c.pc \in Getting => c.op = "get"
  /\ c.pc \in Putting => c.op = "put"
  /\ c.pc \notin {"idle", "entry", "remote entry"} => c.out \in outs[c.act]
  /\ c.pc \in {"remote entry", "copy entry", "remote output", "copy output"} => Mode # "disk"
CallInv == \A t \in Threads : CallOk(thread[t], offered)

\* What a call waits for, and what it has when that has ended well.
Running(w) == w.pc \notin {"none", "ok", "failed"}
WaitOk(c, ws) ==
  /\ c.pc = "copy output" =>
       /\ c.out # Empty
       /\ Running(ws[Local]) => ws[Local].name = Output(c.out)
       /\ ws[Local].pc = "ok" => Kept(c.out)
  /\ c.pc = "put output" =>
       /\ c.out # Empty
       /\ \A l \in Written : Running(ws[l]) => ws[l].name = Output(c.out)
       /\ ws[Local].pc = "ok" => Kept(c.out)
       /\ ws[Remote].pc = "ok" /\ Mode = "write-through" => StoredIn(Remote, c.out)
  /\ c.pc \in {"put entry", "put remote entry"} =>
       c.out = Empty \/ (Kept(c.out) /\ (Mode = "write-through" => StoredIn(Remote, c.out)))
WaitInv == \A t \in Threads : WaitOk(thread[t], writer[t])

IInv ==
  /\ TypeOK /\ WriterInv /\ TheirsAlone /\ FilesWhole /\ TempInv
  /\ EntriesInv /\ ResolveInv /\ CallInv /\ WaitInv

-----------------------------------------------------------------------------
(***************************************************************************)
(* Names, files and writers.                                               *)
(***************************************************************************)

\* A name is an entry's, of one piece, or an output's, of two.
LEMMA NamesAre ==
  ASSUME NEW n \in Names
  PROVE \/ n.kind = "a" /\ n.id \in Actions /\ n = Entry(n.id) /\ Pieces(n) = 1
        \/ n.kind = "d" /\ n.id \in Outputs \ {Empty} /\ n = Output(n.id) /\ Pieces(n) = 2
BY DEF Names, Entry, Output, Pieces

\* Which name is of which.
LEMMA EntryIs ==
  ASSUME NEW a \in Actions
  PROVE Entry(a) \in Names /\ Entry(a).kind = "a" /\ Entry(a).id = a /\ Pieces(Entry(a)) = 1
BY DEF Names, Entry, Pieces

\* The name of an output.
LEMMA OutputIs ==
  ASSUME NEW o \in Outputs, o # Empty
  PROVE /\ Output(o) \in Names /\ Output(o).kind = "d" /\ Output(o).id = o
        /\ Pieces(Output(o)) = 2
BY DEF Names, Output, Pieces

\* The files and writers there may be at first.
LEMMA BlankIs == Blank \in Bytes /\ \A i \in 1 .. 2 : Blank[i] = NoOutput
BY DEF Blank, Bytes

\* No file.
LEMMA AbsentIs == Absent \in Files /\ Absent.size = -1
<1>1. -1 \in -1 .. 2
  OBVIOUS
<1> QED
  BY <1>1, BlankIs DEF Absent, Files

\* No writer.
LEMMA NoWriterIs ==
  /\ NoWriter \in Writers /\ NoWriter.pc = "none" /\ NoWriter.at = 1
  /\ NoWriter.holds = "none"
<1>1. (CHOOSE n \in Names : TRUE) \in Names
  BY ActionsAssumption, EntryIs
<1> QED
  BY <1>1, BlankIs DEF NoWriter, Writers

\* No call.
LEMMA NoCallIs ==
  /\ NoCall \in Calls /\ NoCall.op = "none" /\ NoCall.res = "none" /\ NoCall.pc = "idle"
  /\ NoCall.out = NoOutput
<1>1. (CHOOSE a \in Actions : TRUE) \in Actions
  BY ActionsAssumption
<1> QED
  BY <1>1 DEF NoCall, Calls

\* A writer that is given data.
LEMMA StartIs ==
  ASSUME NEW n \in Names, NEW data \in Bytes
  PROVE /\ Start(n, data) \in Writers
        /\ Start(n, data).name = n /\ Start(n, data).data = data
        /\ Start(n, data).pc = (IF n.kind = "a" THEN "open" ELSE "stat")
        /\ Start(n, data).at = 1 /\ Start(n, data).holds = "none"
<1> DEFINE pc == IF n.kind = "a" THEN "open" ELSE "stat"
<1>1. pc \in {"open", "stat"}
  OBVIOUS
<1>2. Start(n, data) = [NoWriter EXCEPT !.name = n, !.data = data, !.pc = pc]
  BY DEF Start
<1> HIDE DEF pc
<1>3. \A w \in Writers : w.at = 1 /\ w.holds = "none" =>
         LET v == [w EXCEPT !.name = n, !.data = data, !.pc = pc] IN
           /\ v \in Writers /\ v.name = n /\ v.data = data /\ v.pc = pc
           /\ v.at = 1 /\ v.holds = "none"
  BY <1>1 DEF Writers
<1>4. LET v == [NoWriter EXCEPT !.name = n, !.data = data, !.pc = pc] IN
        /\ v \in Writers /\ v.name = n /\ v.data = data /\ v.pc = pc
        /\ v.at = 1 /\ v.holds = "none"
  BY <1>3, NoWriterIs
<1> QED
  BY <1>2, <1>4 DEF pc

\* What there is of a writer.
LEMMA WriterIs ==
  ASSUME TypeOK, NEW t \in Threads, NEW l \in Layers
  PROVE /\ W(t, l) \in Writers /\ W(t, l).name \in Names /\ W(t, l).data \in Bytes
        /\ W(t, l).at \in 1 .. 3 /\ W(t, l).data[1] \in Outputs \cup {NoOutput}
        /\ W(t, l).data[2] \in Outputs \cup {NoOutput}
BY DEF TypeOK, W, Writers, Bytes

\* What there is of a file.
LEMMA FileIs ==
  ASSUME TypeOK, NEW l \in Layers, NEW n \in Names
  PROVE /\ file[l][n] \in Files /\ tmp[l][n] \in Files
        /\ file[l][n].size <= Pieces(n) /\ tmp[l][n].size <= Pieces(n)
BY DEF TypeOK

\* One writer is set.
LEMMA WSetIs ==
  ASSUME TypeOK, NEW t \in Threads, NEW l \in Layers, NEW w \in Writers, WSet(t, l, w)
  PROVE /\ writer' \in [Threads -> [Layers -> Writers]]
        /\ writer'[t][l] = w
        /\ \A u \in Threads, k \in Layers : u # t \/ k # l => writer'[u][k] = W(u, k)
BY DEF TypeOK, WSet, W

\* A writer goes on to its next step.
LEMMA GotoIs ==
  ASSUME NEW w \in Writers, NEW pc \in {"open", "write", "unlink", "rename", "copy", "move",
           "delete", "remove", "hung", "ok", "failed"}
  PROVE LET v == [w EXCEPT !.pc = pc] IN
          /\ v \in Writers /\ v.pc = pc /\ v.name = w.name /\ v.data = w.data
          /\ v.at = w.at /\ v.holds = w.holds
BY DEF Writers

\* A writer that is done.
LEMMA DoneIs ==
  ASSUME NEW pc \in {"ok", "failed"}
  PROVE LET v == [NoWriter EXCEPT !.pc = pc] IN
          v \in Writers /\ v.pc = pc /\ v.at = 1 /\ v.holds = "none"
<1>1. \A w \in Writers : [w EXCEPT !.pc = pc] \in Writers
                        /\ [w EXCEPT !.pc = pc].pc = pc
                        /\ [w EXCEPT !.pc = pc].at = w.at
                        /\ [w EXCEPT !.pc = pc].holds = w.holds
  BY DEF Writers
<1> QED
  BY <1>1, NoWriterIs

\* One file is set.
LEMMA FilesSet ==
  ASSUME NEW fs \in [Layers -> [Names -> Files]], NEW l \in Layers, NEW n \in Names,
         NEW f \in Files
  PROVE LET gs == [fs EXCEPT ![l][n] = f] IN
          /\ gs \in [Layers -> [Names -> Files]] /\ gs[l][n] = f
          /\ \A k \in Layers, m \in Names : k # l \/ m # n => gs[k][m] = fs[k][m]
OBVIOUS

\* When a writer gives up, its own temporary file may be gone, and no other.
LEMMA LeftIs ==
  ASSUME TypeOK, NEW t \in Threads, NEW l \in Layers,
         tmp' = [tmp EXCEPT ![l] = Left(t, l)]
  PROVE /\ tmp' \in [Layers -> [Names -> Files]]
        /\ \A k \in Layers, m \in Names : k # l \/ m # W(t, l).name => tmp'[k][m] = tmp[k][m]
        /\ tmp'[l][W(t, l).name] =
             IF Rivals(t, l) = {} THEN Absent ELSE tmp[l][W(t, l).name]
<1>1. W(t, l).name \in Names /\ Absent \in Files
  BY WriterIs, AbsentIs
<1>2. CASE Rivals(t, l) = {}
  <2> DEFINE n == W(t, l).name
             fs == [tmp[l] EXCEPT ![n] = Absent]
  <2>1. tmp' = [tmp EXCEPT ![l] = fs]
    BY <1>2 DEF Left
  <2>2. /\ fs \in [Names -> Files] /\ fs[n] = Absent
        /\ \A m \in Names : m # n => fs[m] = tmp[l][m]
    BY <1>1 DEF TypeOK
  <2> HIDE DEF fs, n
  <2>3. tmp' \in [Layers -> [Names -> Files]] /\ tmp'[l] = fs
        /\ \A k \in Layers : k # l => tmp'[k] = tmp[k]
    BY <2>1, <2>2 DEF TypeOK
  <2> QED
    BY <1>2, <2>2, <2>3 DEF n
<1>3. CASE Rivals(t, l) # {}
  BY <1>1, <1>3 DEF TypeOK, Left
<1> QED
  BY <1>2, <1>3

-----------------------------------------------------------------------------
(***************************************************************************)
(* What a step of a writer does: the same few facts of every such step,    *)
(* from which the invariant follows for all of them.                       *)
(***************************************************************************)

\* The types, and what no writer changes.
WriteTypes(l, n) ==
  /\ writer' \in [Threads -> [Layers -> Writers]]
  /\ file' \in [Layers -> [Names -> Files]] /\ tmp' \in [Layers -> [Names -> Files]]
  /\ file'[l][n].size <= Pieces(n) /\ tmp'[l][n].size <= Pieces(n)
  /\ raced' \in {raced, raced \cup {n}} /\ lost' \subseteq Names
  /\ UNCHANGED <<setup, thread, offered>>

\* It touches the files of its own name only, and of other writers no more than what
\* their descriptors hold.
WriteElsewhere(t, l, n) ==
  /\ \A k \in Layers, m \in Names : k # l \/ m # n =>
       file'[k][m] = file[k][m] /\ tmp'[k][m] = tmp[k][m]
  /\ \A u \in Threads, k \in Layers : u # t \/ k # l =>
       /\ writer'[u][k].pc = W(u, k).pc /\ writer'[u][k].name = W(u, k).name
       /\ writer'[u][k].data = W(u, k).data /\ writer'[u][k].at = W(u, k).at
       /\ \/ writer'[u][k].holds = W(u, k).holds
          \/ k = l /\ W(u, k).name = n /\ W(u, k).holds # "none" /\ W(t, l).pc \in Busy

\* The writer itself, v then, and what it knows of its name if that was not raced for.
WriteOwn(t, l, n, v) ==
  /\ AtWork(t, l) /\ v.pc # "none"
  /\ v.pc \notin {"ok", "failed"} => v.name = n /\ v.data = W(t, l).data
  /\ v.pc = "unlink" => l = Remote
  /\ v.pc \in {"stat", "open"} => v.at = 1
  /\ v.holds # "none" => v.pc \in Busy /\ ~Objects(l)
  /\ n \notin raced' =>
       /\ v.pc \in Busy => Rivals(t, l) = {}
       /\ v.name = n => TempOk(l, n, v, tmp'[l][n], file'[l][n])
       /\ Rivals(t, l) # {} => file'[l][n] = file[l][n] /\ tmp'[l][n] = tmp[l][n]
       /\ v.pc = "ok" => Whole(file'[l][n], n)

\* Its file stays, is written as a whole, or is removed by sftp, which is remembered.
WriteFile(t, l, n) ==
  /\ n \notin raced =>
       \/ file'[l][n] = file[l][n]
       \/ Whole(file'[l][n], n) /\ (n.kind = "a" => file'[l][n].data[1] = W(t, l).data[1])
       \/ l = Remote /\ file'[l][n] = Absent /\ (file[l][n] = Absent \/ n \in lost')
  /\ \A m \in lost : m \in lost' \/ (m = n /\ l = Remote /\ (n \in raced \/ Whole(file'[Remote][n], n)))

\* What is in the file of an entry was there, or is what the writer writes.
WriteEntry(t, l, n) ==
  n.kind = "a" =>
    \A g \in {file'[l][n], tmp'[l][n]} : g.size > 0 =>
      \/ g.data[1] = W(t, l).data[1]
      \/ file[l][n].size > 0 /\ g.data[1] = file[l][n].data[1]
      \/ tmp[l][n].size > 0 /\ g.data[1] = tmp[l][n].data[1]

WriteStep(t, l) ==
  LET n == W(t, l).name IN
  /\ WriteTypes(l, n) /\ WriteElsewhere(t, l, n) /\ WriteOwn(t, l, n, writer'[t][l])
  /\ WriteFile(t, l, n) /\ WriteEntry(t, l, n)

\* What the invariant says to a writer at work.
LEMMA AtHand ==
  ASSUME IInv, NEW t \in Threads, NEW l \in Layers
  PROVE LET w == W(t, l) n == w.name IN
          /\ w \in Writers /\ n \in Names /\ w.data \in Bytes /\ w.at \in 1 .. 3
          /\ file[l][n] \in Files /\ tmp[l][n] \in Files
          /\ file[l][n].size <= Pieces(n) /\ tmp[l][n].size <= Pieces(n)
          /\ w.pc = "unlink" => l = Remote
          /\ w.pc \in {"stat", "open"} => w.at = 1
          /\ w.holds # "none" => w.pc \in Busy /\ ~Objects(l)
          /\ n \notin raced =>
               /\ w.pc \in Busy => Rivals(t, l) = {}
               /\ TempOk(l, n, w, tmp[l][n], file[l][n])
               /\ file[l][n] # Absent => Whole(file[l][n], n)
<1>1. W(t, l).name \in Names
  BY WriterIs DEF IInv
<1> QED
  BY <1>1, WriterIs, FileIs DEF IInv, WriterInv, TheirsAlone, TempInv, FilesWhole

\* Nothing but the writer changes.
LEMMA OnlyWriterStep ==
  ASSUME IInv, NEW t \in Threads, NEW l \in Layers, NEW v \in Writers, WSet(t, l, v),
         UNCHANGED <<setup, file, tmp, thread, offered, raced, lost>>,
         WriteOwn(t, l, W(t, l).name, v)
  PROVE WriteStep(t, l)
<1> DEFINE n == W(t, l).name
<1>1. /\ writer' \in [Threads -> [Layers -> Writers]] /\ writer'[t][l] = v
      /\ \A u \in Threads, k \in Layers : u # t \/ k # l => writer'[u][k] = W(u, k)
  BY WSetIs DEF IInv
<1>2. n \in Names
  BY AtHand
<1>3. WriteTypes(l, n)
  BY <1>1, <1>2 DEF WriteTypes, IInv, TypeOK
<1>4. WriteElsewhere(t, l, n)
  BY <1>1 DEF WriteElsewhere
<1>5. WriteFile(t, l, n) /\ WriteEntry(t, l, n)
  BY DEF WriteFile, WriteEntry
<1> QED
  BY <1>1, <1>3, <1>4, <1>5 DEF WriteStep

\* An output found to be there, or an output to be written.
LEMMA StatKeeps ==
  ASSUME IInv, NEW t \in Threads, NEW l \in Layers, Stat(t, l)
  PROVE WriteStep(t, l)
<1> DEFINE w == W(t, l)
           n == w.name
<1>1. w.pc = "stat" /\ w.at = 1 /\ w.holds = "none" /\ w \in Writers
  BY AtHand DEF Stat, WAt, Busy
<1>2. UNCHANGED <<setup, file, tmp, thread, offered, raced, lost>>
  BY DEF Stat, OnlyWriter
<1>3. n \notin raced => TempOk(l, n, w, tmp[l][n], file[l][n])
  BY AtHand
<1>4. CASE WGoto(t, l, "open")
  <2> DEFINE v == [w EXCEPT !.pc = "open"]
  <2>1. /\ v \in Writers /\ v.pc = "open" /\ v.name = n /\ v.data = w.data
        /\ v.at = w.at /\ v.holds = w.holds
    BY <1>1, GotoIs
  <2>2. WSet(t, l, v)
    BY <1>4 DEF WGoto
  <2> HIDE DEF v
  <2>3. WriteOwn(t, l, n, v)
    BY <1>1, <1>2, <1>3, <2>1 DEF WriteOwn, AtWork, TempOk, Busy, Ready
  <2> QED
    BY <1>2, <2>1, <2>2, <2>3, OnlyWriterStep
<1>5. CASE SizeOk(file[l][n], n) /\ WGoto(t, l, "ok")
  <2> DEFINE v == [w EXCEPT !.pc = "ok"]
  <2>1. /\ v \in Writers /\ v.pc = "ok" /\ v.name = n /\ v.data = w.data
        /\ v.at = w.at /\ v.holds = w.holds
    BY <1>1, GotoIs
  <2>2. WSet(t, l, v)
    BY <1>5 DEF WGoto
  <2>3. file[l][n] # Absent
    BY <1>5, AbsentIs, AtHand, NamesAre DEF SizeOk
  <2>4. n \notin raced => Whole(file[l][n], n)
    BY <2>3, AtHand
  <2> HIDE DEF v
  <2>5. WriteOwn(t, l, n, v)
    BY <1>1, <1>2, <1>3, <2>1, <2>4 DEF WriteOwn, AtWork, TempOk, Busy, Ready
  <2> QED
    BY <1>2, <2>1, <2>2, <2>5, OnlyWriterStep
<1> QED
  BY <1>4, <1>5 DEF Stat

\* Two writers past opening one temporary file have raced for its name.
LEMMA OpenKeeps ==
  ASSUME IInv, NEW t \in Threads, NEW l \in Layers, Open(t, l)
  PROVE WriteStep(t, l)
<1> DEFINE w == W(t, l)
           n == w.name
           holds == IF Objects(l) THEN "none" ELSE "tmp"
           v == [w EXCEPT !.pc = "write", !.holds = holds]
<1>1. /\ w.pc = "open" /\ w.at = 1 /\ w \in Writers /\ n \in Names /\ tmp[l][n] \in Files
      /\ n \notin raced => TempOk(l, n, w, tmp[l][n], file[l][n])
      /\ file[l][n].size <= Pieces(n) /\ tmp[l][n].size <= Pieces(n)
  BY AtHand DEF Open, WAt
<1>2. /\ tmp' = IF Objects(l) THEN tmp ELSE [tmp EXCEPT ![l][n] = Fresh(l)]
      /\ raced' = IF Rivals(t, l) = {} THEN raced ELSE raced \cup {n}
      /\ WSet(t, l, v)
      /\ UNCHANGED <<setup, file, thread, offered, lost>>
  BY DEF Open
<1>3. /\ v \in Writers /\ v.pc = "write" /\ v.name = n /\ v.data = w.data
      /\ v.at = 1 /\ v.holds = holds
  BY <1>1 DEF Writers
<1>4. Fresh(l) \in Files /\ Fresh(l).size = 0 /\ Fresh(l) # Absent
  BY BlankIs, AbsentIs DEF Fresh, Files
<1>5. /\ tmp' \in [Layers -> [Names -> Files]]
      /\ tmp'[l][n] = IF Objects(l) THEN tmp[l][n] ELSE Fresh(l)
      /\ \A k \in Layers, m \in Names : k # l \/ m # n => tmp'[k][m] = tmp[k][m]
  BY <1>1, <1>2, <1>4, FilesSet DEF IInv, TypeOK
<1>6. /\ writer' \in [Threads -> [Layers -> Writers]] /\ writer'[t][l] = v
      /\ \A u \in Threads, k \in Layers : u # t \/ k # l => writer'[u][k] = W(u, k)
  BY <1>2, <1>3, WSetIs DEF IInv
<1> HIDE DEF v
<1>7. WriteTypes(l, n)
  <2>1. tmp'[l][n].size <= Pieces(n)
    BY <1>1, <1>4, <1>5, NamesAre
  <2> QED
    BY <1>1, <1>2, <1>5, <1>6, <2>1 DEF WriteTypes, IInv, TypeOK
<1>8. WriteElsewhere(t, l, n)
  BY <1>2, <1>5, <1>6 DEF WriteElsewhere
<1>9. WriteOwn(t, l, n, v)
  <2>1. n \notin raced' => Rivals(t, l) = {} /\ n \notin raced
    BY <1>1, <1>2
  <2>2. n \notin raced' => TempOk(l, n, v, tmp'[l][n], file'[l][n])
    BY <1>1, <1>3, <1>4, <1>5, <2>1 DEF TempOk, Ready
  <2> QED
    BY <1>1, <1>3, <2>1, <2>2 DEF WriteOwn, AtWork, Busy
<1>10. WriteFile(t, l, n)
  BY <1>2 DEF WriteFile
<1>11. WriteEntry(t, l, n)
  BY <1>2, <1>4, <1>5 DEF WriteEntry
<1> QED
  BY <1>6, <1>7, <1>8, <1>9, <1>10, <1>11 DEF WriteStep

\* A writer's file is the temporary one it opened, if its name was not raced for.
LEMMA HoldsTemp ==
  ASSUME IInv, NEW t \in Threads, NEW l \in Layers, WAt(t, l, "write"),
         W(t, l).name \notin raced
  PROVE IF Objects(l) THEN W(t, l).holds = "none"
        ELSE /\ W(t, l).holds = "tmp" /\ tmp[l][W(t, l).name].size = W(t, l).at - 1
             /\ tmp[l][W(t, l).name] # Absent
             /\ \A i \in 1 .. 2 : i < W(t, l).at =>
                  tmp[l][W(t, l).name].data[i] = W(t, l).data[i]
BY AtHand DEF WAt, TempOk

\* The next piece of a file.
Piece(f, at, b, s) ==
  [f EXCEPT !.size = IF @ < at THEN at ELSE @, !.data[at] = b, !.synced = s]

\* It is in the file then, which is no longer than before or than that.
LEMMA PieceIs ==
  ASSUME NEW f \in Files, NEW at \in 1 .. 2, NEW size \in 1 .. 2, at <= size, f.size <= size,
         NEW b \in Outputs \cup {NoOutput}, NEW s \in BOOLEAN
  PROVE /\ Piece(f, at, b, s) \in Files
        /\ Piece(f, at, b, s).size <= size /\ Piece(f, at, b, s).size >= 1
        /\ f.size = at - 1 => Piece(f, at, b, s).size = at
        /\ Piece(f, at, b, s).data[at] = b
        /\ \A i \in 1 .. 2 : i # at => Piece(f, at, b, s).data[i] = f.data[i]
<1> DEFINE n == IF f.size < at THEN at ELSE f.size
           d == [f.data EXCEPT ![at] = b]
           g == Piece(f, at, b, s)
<1>1. n \in -1 .. 2 /\ n <= size /\ n >= 1 /\ (f.size = at - 1 => n = at)
  BY DEF Files
<1>2. d \in Bytes /\ d[at] = b /\ \A i \in 1 .. 2 : i # at => d[i] = f.data[i]
  BY DEF Files, Bytes
<1>3. g = [f EXCEPT !.size = n, !.data = d, !.synced = s]
  BY DEF Files, Piece
<1> HIDE DEF n, d, g
<1>4. g \in Files /\ g.size = n /\ g.data = d
  BY <1>1, <1>2, <1>3 DEF Files
<1> QED
  BY <1>1, <1>2, <1>4 DEF g

\* A piece goes to the file the descriptor is of.
LEMMA WriteKeeps ==
  ASSUME IInv, NEW t \in Threads, NEW l \in Layers, Write(t, l)
  PROVE WriteStep(t, l)
<1> DEFINE w == W(t, l)
           n == w.name
           v == [w EXCEPT !.at = @ + 1]
           Put1(f) == Piece(f, w.at, w.data[w.at], l = Remote)
<1>1. /\ w.pc = "write" /\ w.at <= Pieces(n) /\ w \in Writers /\ n \in Names
      /\ tmp[l][n] \in Files /\ file[l][n] \in Files /\ w.at \in 1 .. 3 /\ w.data \in Bytes
      /\ file[l][n].size <= Pieces(n) /\ tmp[l][n].size <= Pieces(n)
      /\ w.holds # "none" => ~Objects(l)
      /\ n \notin raced => TempOk(l, n, w, tmp[l][n], file[l][n]) /\ Rivals(t, l) = {}
  BY AtHand DEF Write, WAt, Busy
<1>2. /\ tmp' = IF w.holds = "tmp" THEN [tmp EXCEPT ![l][n] = Put1(@)] ELSE tmp
      /\ file' = IF w.holds = "file" THEN [file EXCEPT ![l][n] = Put1(@)] ELSE file
      /\ WSet(t, l, v)
      /\ UNCHANGED <<setup, thread, offered, raced, lost>>
  BY DEF Write, OnHeld, OnlyFiles, Piece
<1>3. Pieces(n) \in 1 .. 2 /\ w.at \in 1 .. 2 /\ w.data[w.at] \in Outputs \cup {NoOutput}
      /\ (n.kind = "a" => w.at = 1)
  <2>1. Pieces(n) \in 1 .. 2 /\ (n.kind = "a" => Pieces(n) = 1)
    BY <1>1, NamesAre
  <2>2. w.at \in 1 .. 2 /\ (n.kind = "a" => w.at = 1)
    BY <1>1, <2>1
  <2> QED
    BY <1>1, <2>1, <2>2 DEF Bytes
<1>4. /\ v \in Writers /\ v.pc = "write" /\ v.name = n /\ v.data = w.data
      /\ v.at = w.at + 1 /\ v.holds = w.holds
  BY <1>1, <1>3 DEF Writers
<1>5. \A f \in {file[l][n], tmp[l][n]} :
        /\ Put1(f) \in Files /\ Put1(f).size <= Pieces(n) /\ Put1(f).size >= 1
        /\ f.size = w.at - 1 => Put1(f).size = w.at
        /\ Put1(f).data[w.at] = w.data[w.at]
        /\ \A i \in 1 .. 2 : i # w.at => Put1(f).data[i] = f.data[i]
  <2> DEFINE at == w.at
             b == w.data[w.at]
             s == l = Remote
  <2>1. at \in 1 .. 2 /\ Pieces(n) \in 1 .. 2 /\ at <= Pieces(n)
        /\ b \in Outputs \cup {NoOutput} /\ s \in BOOLEAN
    BY <1>1, <1>3
  <2>2. ASSUME NEW f \in {file[l][n], tmp[l][n]} PROVE f \in Files /\ f.size <= Pieces(n)
    BY <1>1
  <2> HIDE DEF at, b, s
  <2>3. ASSUME NEW f \in {file[l][n], tmp[l][n]}
        PROVE /\ Piece(f, at, b, s) \in Files /\ Piece(f, at, b, s).size <= Pieces(n)
              /\ Piece(f, at, b, s).size >= 1
              /\ f.size = at - 1 => Piece(f, at, b, s).size = at
              /\ Piece(f, at, b, s).data[at] = b
              /\ \A i \in 1 .. 2 : i # at => Piece(f, at, b, s).data[i] = f.data[i]
    BY <2>1, <2>2, PieceIs
  <2> QED
    BY <2>3 DEF at, b, s
<1>6. /\ tmp' \in [Layers -> [Names -> Files]]
      /\ tmp'[l][n] = IF w.holds = "tmp" THEN Put1(tmp[l][n]) ELSE tmp[l][n]
      /\ \A k \in Layers, m \in Names : k # l \/ m # n => tmp'[k][m] = tmp[k][m]
  <2> DEFINE f == Put1(tmp[l][n])
  <2>1. f \in Files
    BY <1>5
  <2>2. tmp' = IF w.holds = "tmp" THEN [tmp EXCEPT ![l][n] = f] ELSE tmp
    BY <1>1, <1>2 DEF IInv, TypeOK
  <2> HIDE DEF f
  <2>3. /\ tmp' \in [Layers -> [Names -> Files]]
        /\ tmp'[l][n] = IF w.holds = "tmp" THEN f ELSE tmp[l][n]
        /\ \A k \in Layers, m \in Names : k # l \/ m # n => tmp'[k][m] = tmp[k][m]
    BY <1>1, <2>1, <2>2, FilesSet DEF IInv, TypeOK
  <2> QED
    BY <2>3 DEF f
<1>7. /\ file' \in [Layers -> [Names -> Files]]
      /\ file'[l][n] = IF w.holds = "file" THEN Put1(file[l][n]) ELSE file[l][n]
      /\ \A k \in Layers, m \in Names : k # l \/ m # n => file'[k][m] = file[k][m]
  <2> DEFINE f == Put1(file[l][n])
  <2>1. f \in Files
    BY <1>5
  <2>2. file' = IF w.holds = "file" THEN [file EXCEPT ![l][n] = f] ELSE file
    BY <1>1, <1>2 DEF IInv, TypeOK
  <2> HIDE DEF f
  <2>3. /\ file' \in [Layers -> [Names -> Files]]
        /\ file'[l][n] = IF w.holds = "file" THEN f ELSE file[l][n]
        /\ \A k \in Layers, m \in Names : k # l \/ m # n => file'[k][m] = file[k][m]
    BY <1>1, <2>1, <2>2, FilesSet DEF IInv, TypeOK
  <2> QED
    BY <2>3 DEF f
<1>8. /\ writer' \in [Threads -> [Layers -> Writers]] /\ writer'[t][l] = v
      /\ \A u \in Threads, k \in Layers : u # t \/ k # l => writer'[u][k] = W(u, k)
  BY <1>2, <1>4, WSetIs DEF IInv
<1> HIDE DEF v, Put1
<1>9. n \notin raced => file'[l][n] = file[l][n]
  <2>1. n \notin raced => w.holds # "file"
    BY <1>1, HoldsTemp DEF WAt
  <2> QED
    BY <1>7, <2>1
<1>10. WriteTypes(l, n)
  BY <1>1, <1>2, <1>5, <1>6, <1>7, <1>8 DEF WriteTypes, IInv, TypeOK
<1>11. WriteElsewhere(t, l, n)
  BY <1>6, <1>7, <1>8 DEF WriteElsewhere
<1>12. WriteOwn(t, l, n, v)
  <2>1. ASSUME n \notin raced PROVE TempOk(l, n, v, tmp'[l][n], file'[l][n])
    <3>1. CASE Objects(l)
      BY <1>1, <1>4, <2>1, <3>1 DEF TempOk, Ready
    <3>2. CASE ~Objects(l)
      <4>1. /\ w.holds = "tmp" /\ tmp[l][n].size = w.at - 1
            /\ \A i \in 1 .. 2 : i < w.at => tmp[l][n].data[i] = w.data[i]
        BY <1>1, <2>1, <3>2, HoldsTemp DEF WAt
      <4>2. /\ tmp'[l][n].size = w.at /\ tmp'[l][n] # Absent
            /\ \A i \in 1 .. 2 : i < w.at + 1 => tmp'[l][n].data[i] = w.data[i]
        BY <1>3, <1>5, <1>6, <4>1, AbsentIs
      <4>3. tmp'[l][n].size = v.at - 1
        BY <1>3, <1>4, <4>2
      <4> QED
        BY <1>1, <1>4, <2>1, <3>2, <4>1, <4>2, <4>3 DEF TempOk, Ready
    <3> QED
      BY <3>1, <3>2
  <2> QED
    BY <1>1, <1>2, <1>4, <2>1 DEF WriteOwn, AtWork, Busy
<1>13. WriteFile(t, l, n)
  BY <1>2, <1>9 DEF WriteFile
<1>14. WriteEntry(t, l, n)
  <2> SUFFICES ASSUME n.kind = "a" PROVE WriteEntry(t, l, n)
    BY DEF WriteEntry
  <2>1. w.at = 1
    BY <1>3
  <2> QED
    BY <1>5, <1>6, <1>7, <2>1 DEF WriteEntry
<1> QED
  BY <1>8, <1>10, <1>11, <1>12, <1>13, <1>14 DEF WriteStep

\* What the files of a name become.
FilesBecome(l, n, f, g) ==
  /\ file' \in [Layers -> [Names -> Files]] /\ tmp' \in [Layers -> [Names -> Files]]
  /\ file'[l][n] = f /\ tmp'[l][n] = g
  /\ \A k \in Layers, m \in Names : k # l \/ m # n =>
       file'[k][m] = file[k][m] /\ tmp'[k][m] = tmp[k][m]

\* What the writers become.
WritersBecome(t, l, n, v) ==
  /\ writer' \in [Threads -> [Layers -> Writers]] /\ writer'[t][l] = v
  /\ \A u \in Threads, k \in Layers : u # t \/ k # l =>
       /\ writer'[u][k].pc = W(u, k).pc /\ writer'[u][k].name = W(u, k).name
       /\ writer'[u][k].data = W(u, k).data /\ writer'[u][k].at = W(u, k).at
       /\ \/ writer'[u][k].holds = W(u, k).holds
          \/ k = l /\ W(u, k).name = n /\ W(u, k).holds # "none" /\ W(t, l).pc \in Busy

\* Where a file comes from.
Known(t, l, n, f) ==
  f.size > 0 /\ n.kind = "a" =>
    \/ f.data[1] = W(t, l).data[1]
    \/ file[l][n].size > 0 /\ f.data[1] = file[l][n].data[1]
    \/ tmp[l][n].size > 0 /\ f.data[1] = tmp[l][n].data[1]

\* A step that changes the writer and the files of its name.
LEMMA FilesStep ==
  ASSUME IInv, NEW t \in Threads, NEW l \in Layers, NEW v, NEW f \in Files, NEW g \in Files,
         WritersBecome(t, l, W(t, l).name, v), FilesBecome(l, W(t, l).name, f, g),
         f.size <= Pieces(W(t, l).name), g.size <= Pieces(W(t, l).name),
         UNCHANGED <<setup, thread, offered, raced>>, lost' \subseteq Names,
         WriteOwn(t, l, W(t, l).name, v), WriteFile(t, l, W(t, l).name),
         Known(t, l, W(t, l).name, f), Known(t, l, W(t, l).name, g)
  PROVE WriteStep(t, l)
<1> DEFINE n == W(t, l).name
<1>1. WriteTypes(l, n)
  BY DEF WriteTypes, WritersBecome, FilesBecome
<1>2. WriteElsewhere(t, l, n)
  BY DEF WriteElsewhere, WritersBecome, FilesBecome
<1>3. WriteEntry(t, l, n)
  BY DEF WriteEntry, Known, FilesBecome
<1>4. WriteOwn(t, l, n, writer'[t][l])
  BY DEF WritersBecome
<1> QED
  BY <1>1, <1>2, <1>3, <1>4 DEF WriteStep

\* Setting one writer does nothing to the others.
LEMMA WSetBecomes ==
  ASSUME TypeOK, NEW t \in Threads, NEW l \in Layers, NEW n, NEW w \in Writers, WSet(t, l, w)
  PROVE WritersBecome(t, l, n, w)
BY WSetIs DEF WritersBecome

\* The temporary file is set, or the file, or none.
LEMMA TmpBecomes ==
  ASSUME TypeOK, NEW l \in Layers, NEW n \in Names, NEW g \in Files,
         tmp' = [tmp EXCEPT ![l][n] = g], UNCHANGED file
  PROVE FilesBecome(l, n, file[l][n], g)
BY FilesSet DEF TypeOK, FilesBecome

\* The file is set.
LEMMA FileBecomes ==
  ASSUME TypeOK, NEW l \in Layers, NEW n \in Names, NEW f \in Files,
         file' = [file EXCEPT ![l][n] = f], UNCHANGED tmp
  PROVE FilesBecome(l, n, f, tmp[l][n])
BY FilesSet DEF TypeOK, FilesBecome

\* Both are set.
LEMMA BothBecome ==
  ASSUME TypeOK, NEW l \in Layers, NEW n \in Names, NEW f \in Files, NEW g \in Files,
         file' = [file EXCEPT ![l][n] = f], tmp' = [tmp EXCEPT ![l][n] = g]
  PROVE FilesBecome(l, n, f, g)
BY FilesSet DEF TypeOK, FilesBecome

\* Neither is.
LEMMA NoneBecomes ==
  ASSUME TypeOK, NEW l \in Layers, NEW n \in Names, UNCHANGED <<file, tmp>>
  PROVE FilesBecome(l, n, file[l][n], tmp[l][n])
BY DEF TypeOK, FilesBecome

\* What a descriptor is of becomes f(file).
LEMMA HeldBecomes ==
  ASSUME TypeOK, NEW t \in Threads, NEW l \in Layers, NEW f \in Files, NEW g \in Files,
         tmp' = (IF W(t, l).holds = "tmp" THEN [tmp EXCEPT ![l][W(t, l).name] = g] ELSE tmp),
         file' = (IF W(t, l).holds = "file" THEN [file EXCEPT ![l][W(t, l).name] = f] ELSE file)
  PROVE FilesBecome(l, W(t, l).name,
          IF W(t, l).holds = "file" THEN f ELSE file[l][W(t, l).name],
          IF W(t, l).holds = "tmp" THEN g ELSE tmp[l][W(t, l).name])
<1> DEFINE n == W(t, l).name
           h == W(t, l).holds
<1>1. n \in Names
  BY WriterIs
<1> HIDE DEF n, h
<1>2. CASE h = "tmp"
  BY <1>1, <1>2, TmpBecomes DEF n, h
<1>3. CASE h = "file"
  BY <1>1, <1>3, FileBecomes DEF n, h
<1>4. CASE h # "tmp" /\ h # "file"
  BY <1>1, <1>4, NoneBecomes DEF n, h
<1> QED
  BY <1>2, <1>3, <1>4

\* A file flushed.
LEMMA FlushedIs ==
  ASSUME NEW f \in Files
  PROVE LET g == [f EXCEPT !.synced = TRUE] IN
          g \in Files /\ g.size = f.size /\ g.data = f.data /\ g.synced
BY DEF Files

\* An object of the first pieces that were written.
LEMMA ObjectIs ==
  ASSUME TypeOK, NEW t \in Threads, NEW l \in Layers, NEW k \in 1 .. 2
  PROVE /\ Object(t, l, k) \in Files /\ Object(t, l, k).size = k /\ Object(t, l, k).synced
        /\ \A i \in 1 .. k : Object(t, l, k).data[i] = W(t, l).data[i]
        /\ Object(t, l, k).data[1] = W(t, l).data[1]
<1> DEFINE d == [i \in 1 .. 2 |-> IF i <= k THEN W(t, l).data[i] ELSE NoOutput]
<1>1. \A i \in 1 .. 2 : W(t, l).data[i] \in Outputs \cup {NoOutput}
  BY WriterIs DEF Bytes
<1>2. d \in Bytes
  BY <1>1 DEF Bytes
<1>3. \A i \in 1 .. k : d[i] = W(t, l).data[i]
  OBVIOUS
<1>4. d[1] = W(t, l).data[1]
  OBVIOUS
<1>5. Object(t, l, k) = [size |-> k, synced |-> TRUE, data |-> d]
  BY DEF Object
<1> HIDE DEF d
<1> QED
  BY <1>2, <1>3, <1>4, <1>5 DEF Files

\* How a layer renames is one of the ways there are, and only the remote one unlinks.
LEMMA RenamingIs ==
  ASSUME NEW l \in Layers
  PROVE Renaming(l) \in Ready /\ (Renaming(l) = "unlink" => l = Remote)
<1>1. l = Local \/ l = Remote
  BY DEF Layers
<1> QED
  BY <1>1 DEF Renaming, Ready, Local, Remote

\* A writer that goes on to rename.
LEMMA ToRenaming ==
  ASSUME NEW w \in Writers, NEW l \in Layers
  PROVE LET v == [w EXCEPT !.pc = Renaming(l)] IN
          /\ v \in Writers /\ v.pc = Renaming(l) /\ v.name = w.name /\ v.data = w.data
          /\ v.at = w.at /\ v.holds = w.holds /\ Renaming(l) \in Ready
          /\ Renaming(l) = "unlink" => l = Remote
<1>1. \A pc \in Ready :
        LET v == [w EXCEPT !.pc = pc] IN
          /\ v \in Writers /\ v.pc = pc /\ v.name = w.name /\ v.data = w.data
          /\ v.at = w.at /\ v.holds = w.holds
  BY DEF Writers, Ready
<1> QED
  BY <1>1, RenamingIs

\* What was written is flushed, or completed: it is all there.
LEMMA SyncKeeps ==
  ASSUME IInv, NEW t \in Threads, NEW l \in Layers, Sync(t, l)
  PROVE WriteStep(t, l)
<1> DEFINE w == W(t, l)
           n == w.name
           v == [w EXCEPT !.pc = Renaming(l)]
           Flush(f) == [f EXCEPT !.synced = TRUE]
           f0 == file[l][n]
           g0 == tmp[l][n]
           f1 == IF ~Objects(l) /\ w.holds = "file" THEN Flush(f0) ELSE f0
           g1 == IF Objects(l) THEN Object(t, l, Pieces(n))
                 ELSE IF w.holds = "tmp" THEN Flush(g0) ELSE g0
<1>1. /\ w.pc = "write" /\ w.at > Pieces(n) /\ w \in Writers /\ n \in Names
      /\ w.at \in 1 .. 3 /\ w.data \in Bytes
      /\ g0 \in Files /\ f0 \in Files /\ f0.size <= Pieces(n) /\ g0.size <= Pieces(n)
      /\ w.holds # "none" => w.pc \in Busy /\ ~Objects(l)
      /\ n \notin raced => TempOk(l, n, w, g0, f0) /\ Rivals(t, l) = {}
  BY AtHand DEF Sync, WAt, Busy
<1>2. /\ IF Objects(l) THEN tmp' = [tmp EXCEPT ![l][n] = Object(t, l, Pieces(n))] /\ UNCHANGED file
                       ELSE OnHeld(t, l, Flush)
      /\ WSet(t, l, v)
      /\ UNCHANGED <<setup, thread, offered, raced, lost>>
  BY DEF Sync, WGoto, OnlyFiles
<1>3. Pieces(n) \in 1 .. 2
  BY <1>1, NamesAre
<1>4. /\ v \in Writers /\ v.pc = Renaming(l) /\ v.name = n /\ v.data = w.data
      /\ v.at = w.at /\ v.holds = w.holds /\ Renaming(l) \in Ready
      /\ Renaming(l) = "unlink" => l = Remote
  BY <1>1, ToRenaming
<1>5. \A f \in {f0, g0} : Flush(f) \in Files /\ Flush(f).size = f.size
                          /\ Flush(f).data = f.data /\ Flush(f).synced
  BY <1>1, FlushedIs
<1>6. /\ Object(t, l, Pieces(n)) \in Files /\ Object(t, l, Pieces(n)).size = Pieces(n)
      /\ Object(t, l, Pieces(n)).synced
      /\ \A i \in 1 .. Pieces(n) : Object(t, l, Pieces(n)).data[i] = w.data[i]
      /\ Object(t, l, Pieces(n)).data[1] = w.data[1]
  BY <1>3, ObjectIs DEF IInv
<1>7. FilesBecome(l, n, f1, g1)
  <2>1. CASE Objects(l)
    BY <1>1, <1>2, <1>6, <2>1, TmpBecomes DEF IInv
  <2>2. CASE ~Objects(l)
    <3> DEFINE ff == Flush(f0)
               gg == Flush(g0)
    <3>1. ff \in Files /\ gg \in Files
      BY <1>5
    <3>2. /\ tmp' = IF w.holds = "tmp" THEN [tmp EXCEPT ![l][n] = gg] ELSE tmp
          /\ file' = IF w.holds = "file" THEN [file EXCEPT ![l][n] = ff] ELSE file
      BY <1>1, <1>2, <2>2 DEF OnHeld, IInv, TypeOK
    <3> HIDE DEF ff, gg
    <3>3. FilesBecome(l, n, IF w.holds = "file" THEN ff ELSE f0, IF w.holds = "tmp" THEN gg ELSE g0)
      BY <3>1, <3>2, HeldBecomes DEF IInv
    <3> QED
      BY <2>2, <3>3 DEF ff, gg
  <2> QED
    BY <2>1, <2>2
<1>8. WritersBecome(t, l, n, v)
  BY <1>2, <1>4, WSetBecomes DEF IInv
<1>9. f1 \in Files /\ g1 \in Files /\ f1.size <= Pieces(n) /\ g1.size <= Pieces(n)
  BY <1>1, <1>3, <1>5, <1>6
<1>10. n \notin raced => f1 = f0
  BY <1>1, HoldsTemp DEF WAt
<1>11. Known(t, l, n, f1) /\ Known(t, l, n, g1)
  BY <1>5, <1>6 DEF Known
<1>12. ASSUME n \notin raced
       PROVE SizeOk(g1, n) /\ g1.synced /\ \A i \in 1 .. Pieces(n) : g1.data[i] = w.data[i]
  <2>1. CASE Objects(l)
    BY <1>6, <2>1 DEF SizeOk
  <2>2. CASE ~Objects(l)
    <3>1. w.holds = "tmp" /\ g0.size = w.at - 1
          /\ \A i \in 1 .. 2 : i < w.at => g0.data[i] = w.data[i]
      BY <1>1, <1>12, <2>2, HoldsTemp DEF WAt
    <3>2. g0.size = Pieces(n)
      BY <1>1, <1>3, <3>1
    <3>3. \A i \in 1 .. Pieces(n) : i \in 1 .. 2 /\ i < w.at
      BY <1>1, <1>3
    <3> QED
      BY <1>5, <2>2, <3>1, <3>2, <3>3 DEF SizeOk
  <2> QED
    BY <2>1, <2>2
<1> HIDE DEF v, f1, g1
<1>13. file'[l][n] = f1 /\ tmp'[l][n] = g1
  BY <1>7 DEF FilesBecome
<1>14. WriteOwn(t, l, n, v)
  <2>1. ASSUME n \notin raced PROVE TempOk(l, n, v, tmp'[l][n], file'[l][n])
    BY <1>1, <1>4, <1>12, <1>13, <2>1 DEF TempOk, Ready
  <2> QED
    BY <1>1, <1>2, <1>4, <2>1 DEF WriteOwn, AtWork, Busy, Ready
<1>15. WriteFile(t, l, n)
  BY <1>2, <1>10, <1>13 DEF WriteFile
<1>16. lost' \subseteq Names
  BY <1>2 DEF IInv, TypeOK
<1> QED
  BY <1>2, <1>7, <1>8, <1>9, <1>11, <1>14, <1>15, <1>16, FilesStep

\* The temporary file of a writer that gives up.
LEMMA LeftBecomes ==
  ASSUME TypeOK, NEW t \in Threads, NEW l \in Layers,
         tmp' = [tmp EXCEPT ![l] = Left(t, l)], UNCHANGED file
  PROVE FilesBecome(l, W(t, l).name, file[l][W(t, l).name],
          IF Rivals(t, l) = {} THEN Absent ELSE tmp[l][W(t, l).name])
<1> DEFINE n == W(t, l).name
           g == IF Rivals(t, l) = {} THEN Absent ELSE tmp[l][n]
<1>2. file' \in [Layers -> [Names -> Files]] /\ file' = file
  BY DEF TypeOK
<1>3. /\ tmp' \in [Layers -> [Names -> Files]] /\ tmp'[l][n] = g
      /\ \A k \in Layers, m \in Names : k # l \/ m # n => tmp'[k][m] = tmp[k][m]
  BY LeftIs
<1> HIDE DEF n, g
<1>4. FilesBecome(l, n, file[l][n], g)
  BY <1>2, <1>3 DEF FilesBecome
<1> QED
  BY <1>4 DEF n, g

\* A writer that fails leaves the file as it was.
LEMMA GivesUpStep ==
  ASSUME IInv, NEW t \in Threads, NEW l \in Layers, AtWork(t, l),
         WSet(t, l, [NoWriter EXCEPT !.pc = "failed"]),
         tmp' = [tmp EXCEPT ![l] = Left(t, l)],
         UNCHANGED <<setup, file, thread, offered, raced, lost>>
  PROVE WriteStep(t, l)
<1> DEFINE n == W(t, l).name
           v == [NoWriter EXCEPT !.pc = "failed"]
           g == IF Rivals(t, l) = {} THEN Absent ELSE tmp[l][n]
<1>1. /\ n \in Names /\ tmp[l][n] \in Files /\ file[l][n] \in Files
      /\ file[l][n].size <= Pieces(n) /\ tmp[l][n].size <= Pieces(n)
      /\ Pieces(n) \in 1 .. 2
  BY AtHand, NamesAre
<1>2. v \in Writers /\ v.pc = "failed" /\ v.at = 1 /\ v.holds = "none"
  BY DoneIs
<1>3. FilesBecome(l, n, file[l][n], g)
  BY LeftBecomes DEF IInv
<1>4. WritersBecome(t, l, n, v)
  BY <1>2, WSetBecomes DEF IInv
<1> HIDE DEF v
<1>5. g \in Files /\ g.size <= Pieces(n)
  BY <1>1, AbsentIs
<1>6. Known(t, l, n, file[l][n]) /\ Known(t, l, n, g)
  BY AbsentIs DEF Known
<1>7. file'[l][n] = file[l][n] /\ tmp'[l][n] = g
  BY <1>3 DEF FilesBecome
<1> HIDE DEF n
<1>8. WriteOwn(t, l, n, v)
  BY <1>2, <1>7 DEF WriteOwn, TempOk, Busy, Ready
<1>9. WriteFile(t, l, n) /\ lost' \subseteq Names
  BY <1>7 DEF WriteFile, IInv, TypeOK
<1> QED
  BY <1>1, <1>3, <1>4, <1>5, <1>6, <1>8, <1>9, FilesStep DEF n

\* An upload whose first part fails hangs.
LEMMA HangsKeeps ==
  ASSUME IInv, NEW t \in Threads, NEW l \in Layers, Hangs(t, l)
  PROVE WriteStep(t, l)
<1> DEFINE w == W(t, l)
           n == w.name
           v == [w EXCEPT !.pc = "hung"]
<1>1. w.pc = "write" /\ w \in Writers /\ n \in Names /\ w.holds = "none"
      /\ (n \notin raced => TempOk(l, n, w, tmp[l][n], file[l][n]))
  BY AtHand DEF Hangs, WAt, Parts, Objects
<1>2. UNCHANGED <<setup, file, tmp, thread, offered, raced, lost>> /\ WSet(t, l, v)
  BY DEF Hangs, OnlyWriter, WGoto
<1>3. /\ v \in Writers /\ v.pc = "hung" /\ v.name = n /\ v.data = w.data
      /\ v.at = w.at /\ v.holds = w.holds
  BY <1>1, GotoIs
<1> HIDE DEF v
<1>4. WriteOwn(t, l, n, v)
  BY <1>1, <1>2, <1>3 DEF WriteOwn, AtWork, TempOk, Busy, Ready
<1> QED
  BY <1>2, <1>3, <1>4, OnlyWriterStep

\* A writer that fails to write, or whose upload is completed too early.
LEMMA WriteFailsKeeps ==
  ASSUME IInv, NEW t \in Threads, NEW l \in Layers, WriteFails(t, l)
  PROVE WriteStep(t, l)
<1> DEFINE w == W(t, l)
           n == w.name
           v == [NoWriter EXCEPT !.pc = "failed"]
           g == Object(t, l, 1)
<1>1. /\ AtWork(t, l) /\ w.pc \in {"open", "write"} /\ n \in Names /\ WSet(t, l, v)
      /\ UNCHANGED <<setup, file, thread, offered, raced, lost>>
      /\ file[l][n] \in Files /\ file[l][n].size <= Pieces(n) /\ Pieces(n) \in 1 .. 2
  BY AtHand, NamesAre DEF WriteFails, AtWork
<1>2. CASE tmp' = [tmp EXCEPT ![l] = Left(t, l)]
  BY <1>1, <1>2, GivesUpStep
<1>3. CASE w.at = 2 /\ tmp' = [tmp EXCEPT ![l][n] = g]
  <2>1. /\ w.pc = "write" /\ (n \notin raced => Rivals(t, l) = {})
    BY <1>1, <1>3, AtHand DEF Busy
  <2>2. g \in Files /\ g.size = 1 /\ g.data[1] = w.data[1]
    BY ObjectIs DEF IInv
  <2>3. v \in Writers /\ v.pc = "failed" /\ v.at = 1 /\ v.holds = "none"
    BY DoneIs
  <2> HIDE DEF g
  <2>4. FilesBecome(l, n, file[l][n], g)
    BY <1>1, <1>3, <2>2, TmpBecomes DEF IInv
  <2>5. WritersBecome(t, l, n, v)
    BY <1>1, <2>3, WSetBecomes DEF IInv
  <2> HIDE DEF v
  <2>6. file'[l][n] = file[l][n]
    BY <1>1
  <2>7. WriteOwn(t, l, n, v)
    BY <1>1, <2>1, <2>3, <2>6 DEF WriteOwn, TempOk, Busy, Ready
  <2>8. WriteFile(t, l, n) /\ lost' \subseteq Names
    BY <1>1 DEF WriteFile, IInv, TypeOK
  <2>9. Known(t, l, n, file[l][n]) /\ Known(t, l, n, g)
    BY <2>2 DEF Known
  <2>10. g.size <= Pieces(n)
    BY <1>1, <2>2
  <2> QED
    BY <1>1, <2>2, <2>4, <2>5, <2>7, <2>8, <2>9, <2>10, FilesStep
<1>4. \/ tmp' = [tmp EXCEPT ![l] = Left(t, l)]
      \/ w.at = 2 /\ tmp' = [tmp EXCEPT ![l][n] = g]
  BY DEF WriteFails
<1> QED
  BY <1>2, <1>3, <1>4

\* A writer that fails to rename: that of an entry removes its file next.
LEMMA RenameFailsKeeps ==
  ASSUME IInv, NEW t \in Threads, NEW l \in Layers, RenameFails(t, l)
  PROVE WriteStep(t, l)
<1> DEFINE w == W(t, l)
           n == w.name
           v == [w EXCEPT !.pc = "remove", !.holds = "none"]
<1>1. /\ w.pc \in {"rename", "copy", "delete", "move"} /\ w \in Writers /\ n \in Names
      /\ UNCHANGED <<setup, file, thread, offered, raced, lost>>
      /\ n \notin raced => TempOk(l, n, w, tmp[l][n], file[l][n]) /\ Rivals(t, l) = {}
  BY AtHand DEF RenameFails, Busy
<1>2. CASE n.kind # "a"
  <2>1. /\ WSet(t, l, [NoWriter EXCEPT !.pc = "failed"])
        /\ tmp' = [tmp EXCEPT ![l] = Left(t, l)]
    BY <1>2 DEF RenameFails
  <2> QED
    BY <1>1, <2>1, GivesUpStep DEF AtWork
<1>3. CASE n.kind = "a"
  <2>1. WSet(t, l, v) /\ UNCHANGED tmp
    BY <1>3 DEF RenameFails
  <2>2. /\ v \in Writers /\ v.pc = "remove" /\ v.name = n /\ v.data = w.data
        /\ v.at = w.at /\ v.holds = "none"
    BY <1>1 DEF Writers
  <2> HIDE DEF v
  <2>3. WriteOwn(t, l, n, v)
    BY <1>1, <2>1, <2>2 DEF WriteOwn, AtWork, TempOk, Busy, Ready
  <2> QED
    BY <1>1, <2>1, <2>2, <2>3, OnlyWriterStep
<1> QED
  BY <1>2, <1>3

\* What is renamed or copied is whole.
LEMMA ReadyIs ==
  ASSUME IInv, NEW t \in Threads, NEW l \in Layers, W(t, l).pc \in Ready,
         tmp[l][W(t, l).name] # Absent, W(t, l).name \notin raced
  PROVE LET n == W(t, l).name f == tmp[l][n] IN
          Whole(f, n) /\ f.data[1] = W(t, l).data[1]
<1> DEFINE n == W(t, l).name
           f == tmp[l][n]
           w == W(t, l)
<1>1. TempOk(l, n, w, f, file[l][n]) /\ n \in Names
  BY AtHand
<1>2. SizeOk(f, n) /\ f.synced /\ \A i \in 1 .. Pieces(n) : f.data[i] = w.data[i]
  BY <1>1 DEF TempOk
<1>3. 1 \in 1 .. Pieces(n) /\ (n.kind = "d" => Pieces(n) = 2)
  BY <1>1, NamesAre
<1>4. n.kind = "d" => \A i \in 1 .. 2 : w.data[i] = n.id
  BY <1>1 DEF TempOk, Ready
<1> HIDE DEF n, f, w
<1> QED
  BY <1>2, <1>3, <1>4 DEF Whole, n, f, w

\* An object copied to its name, and not yet deleted.
LEMMA CopyKeeps ==
  ASSUME IInv, NEW t \in Threads, NEW l \in Layers, Copy(t, l)
  PROVE WriteStep(t, l)
<1> DEFINE w == W(t, l)
           n == w.name
           v == [w EXCEPT !.pc = "delete"]
           g == tmp[l][n]
<1>1. /\ w.pc = "copy" /\ w \in Writers /\ n \in Names /\ g \in Files /\ g.size <= Pieces(n)
      /\ w.holds # "none" => ~Objects(l)
      /\ n \notin raced => TempOk(l, n, w, g, file[l][n]) /\ Rivals(t, l) = {}
  BY AtHand DEF Copy, WAt, Busy
<1>2. /\ g # Absent /\ file' = [file EXCEPT ![l][n] = g] /\ WSet(t, l, v)
      /\ UNCHANGED <<setup, tmp, thread, offered, raced, lost>>
  BY DEF Copy, WGoto
<1>3. /\ v \in Writers /\ v.pc = "delete" /\ v.name = n /\ v.data = w.data
      /\ v.at = w.at /\ v.holds = w.holds
  BY <1>1, GotoIs
<1>4. n \notin raced => Whole(g, n) /\ g.data[1] = w.data[1]
  BY <1>1, <1>2, ReadyIs DEF Ready
<1>5. FilesBecome(l, n, g, g)
  BY <1>1, <1>2, FileBecomes DEF IInv
<1>6. WritersBecome(t, l, n, v)
  BY <1>2, <1>3, WSetBecomes DEF IInv
<1> HIDE DEF v
<1>7. file'[l][n] = g /\ tmp'[l][n] = g
  BY <1>5 DEF FilesBecome
<1>8. WriteOwn(t, l, n, v)
  BY <1>1, <1>2, <1>3, <1>7 DEF WriteOwn, AtWork, TempOk, Busy, Ready
<1>9. WriteFile(t, l, n) /\ lost' \subseteq Names
  BY <1>2, <1>4, <1>7 DEF WriteFile, IInv, TypeOK
<1>10. Known(t, l, n, g)
  BY DEF Known
<1> QED
  BY <1>1, <1>2, <1>5, <1>6, <1>8, <1>9, <1>10, FilesStep

\* The object is deleted under its temporary name.
LEMMA DeleteKeeps ==
  ASSUME IInv, NEW t \in Threads, NEW l \in Layers, Delete(t, l)
  PROVE WriteStep(t, l)
<1> DEFINE w == W(t, l)
           n == w.name
           v == [NoWriter EXCEPT !.pc = "ok"]
           f == file[l][n]
<1>1. /\ w.pc = "delete" /\ AtWork(t, l) /\ n \in Names /\ f \in Files /\ f.size <= Pieces(n)
      /\ UNCHANGED <<setup, file, thread, offered, raced, lost>> /\ Pieces(n) \in 1 .. 2
      /\ n \notin raced => Rivals(t, l) = {}
      /\ n \notin raced => Whole(f, n)
  BY AtHand, NamesAre DEF Delete, WAt, Busy, AtWork, TempOk
<1>2. tmp' = [tmp EXCEPT ![l][n] = Absent] /\ WSet(t, l, v)
  BY DEF Delete
<1>3. v \in Writers /\ v.pc = "ok" /\ v.at = 1 /\ v.holds = "none"
  BY DoneIs
<1>4. Absent \in Files /\ Absent.size <= Pieces(n) /\ ~(Absent.size > 0)
  BY <1>1, AbsentIs
<1>5. FilesBecome(l, n, f, Absent)
  BY <1>1, <1>2, <1>4, TmpBecomes DEF IInv
<1>6. WritersBecome(t, l, n, v)
  BY <1>2, <1>3, WSetBecomes DEF IInv
<1> HIDE DEF v
<1>7. file'[l][n] = f
  BY <1>1
<1>8. WriteOwn(t, l, n, v)
  BY <1>1, <1>3, <1>7 DEF WriteOwn, AtWork, TempOk, Busy, Ready
<1>9. WriteFile(t, l, n) /\ lost' \subseteq Names
  BY <1>1 DEF WriteFile, IInv, TypeOK
<1>10. Known(t, l, n, f) /\ Known(t, l, n, Absent)
  BY <1>4 DEF Known
<1> QED
  BY <1>1, <1>4, <1>5, <1>6, <1>8, <1>9, <1>10, FilesStep

\* An object of s3 moved to its name, or to another.
LEMMA MoveKeeps ==
  ASSUME IInv, NEW t \in Threads, NEW l \in Layers, Move(t, l)
  PROVE WriteStep(t, l)
<1> DEFINE w == W(t, l)
           n == w.name
           v == IF n.kind = "a" THEN [w EXCEPT !.pc = "remove"] ELSE [NoWriter EXCEPT !.pc = "failed"]
           g == tmp[l][n]
           f == file'[l][n]
<1>1. /\ w.pc = "move" /\ w \in Writers /\ n \in Names /\ g \in Files /\ g.size <= Pieces(n)
      /\ file[l][n] \in Files /\ file[l][n].size <= Pieces(n) /\ Pieces(n) \in 1 .. 2
      /\ w.holds # "none" => ~Objects(l)
      /\ n \notin raced => TempOk(l, n, w, g, file[l][n]) /\ Rivals(t, l) = {}
  BY AtHand, NamesAre DEF Move, WAt, Busy
<1>2. /\ g # Absent /\ tmp' = [tmp EXCEPT ![l][n] = Absent] /\ WSet(t, l, v)
      /\ file' \in {file, [file EXCEPT ![l][n] = g]}
      /\ UNCHANGED <<setup, thread, offered, raced, lost>>
  BY DEF Move
<1>3. /\ v \in Writers /\ v.pc \in {"remove", "failed"}
      /\ v.holds # "none" => v.pc = "remove" /\ ~Objects(l)
      /\ v.pc = "remove" => v.name = n /\ v.data = w.data
  <2>1. CASE n.kind = "a"
    <3> DEFINE x == [w EXCEPT !.pc = "remove"]
    <3>1. /\ x \in Writers /\ x.pc = "remove" /\ x.name = n /\ x.data = w.data
          /\ x.at = w.at /\ x.holds = w.holds
      BY <1>1, GotoIs
    <3> QED
      BY <1>1, <2>1, <3>1
  <2>2. CASE n.kind # "a"
    <3> DEFINE x == [NoWriter EXCEPT !.pc = "failed"]
    <3>1. x \in Writers /\ x.pc = "failed" /\ x.holds = "none"
      BY DoneIs
    <3> QED
      BY <2>2, <3>1
  <2> QED
    BY <2>1, <2>2
<1>4. n \notin raced => Whole(g, n) /\ g.data[1] = w.data[1]
  BY <1>1, <1>2, ReadyIs DEF Ready
<1>5. Absent \in Files /\ Absent.size <= Pieces(n) /\ ~(Absent.size > 0)
  BY <1>1, AbsentIs
<1>6. f \in {file[l][n], g} /\ FilesBecome(l, n, f, Absent)
  <2>1. CASE file' = file
    BY <1>1, <1>2, <1>5, <2>1, TmpBecomes DEF IInv
  <2>2. CASE file' = [file EXCEPT ![l][n] = g]
    <3>1. FilesBecome(l, n, g, Absent)
      BY <1>1, <1>2, <1>5, <2>2, BothBecome DEF IInv
    <3> QED
      BY <3>1 DEF FilesBecome
  <2> QED
    BY <1>2, <2>1, <2>2
<1>7. WritersBecome(t, l, n, v)
  BY <1>2, <1>3, WSetBecomes DEF IInv
<1> HIDE DEF v
<1>8. WriteOwn(t, l, n, v)
  BY <1>1, <1>2, <1>3 DEF WriteOwn, AtWork, TempOk, Busy, Ready
<1>9. WriteFile(t, l, n) /\ lost' \subseteq Names
  BY <1>2, <1>4, <1>6 DEF WriteFile, IInv, TypeOK
<1>10. Known(t, l, n, f) /\ Known(t, l, n, Absent)
  BY <1>5, <1>6 DEF Known
<1>11. f \in Files /\ f.size <= Pieces(n)
  BY <1>1, <1>6
<1> HIDE DEF f
<1> QED
  BY <1>2, <1>5, <1>6, <1>7, <1>8, <1>9, <1>10, <1>11, FilesStep

\* One writer goes on, and others lose the name of the file they hold.
LEMMA OthersBecome ==
  ASSUME TypeOK, NEW t \in Threads, NEW l \in Layers, NEW n, NEW x \in [Threads -> Writers],
         W(t, l).pc \in Busy, writer' = [u \in Threads |-> [writer[u] EXCEPT ![l] = x[u]]],
         \A u \in Threads \ {t} :
           \/ x[u] = W(u, l)
           \/ /\ x[u].pc = W(u, l).pc /\ x[u].name = W(u, l).name
              /\ x[u].data = W(u, l).data /\ x[u].at = W(u, l).at
              /\ W(u, l).name = n /\ W(u, l).holds # "none"
  PROVE WritersBecome(t, l, n, x[t])
<1>1. writer' \in [Threads -> [Layers -> Writers]]
  BY DEF TypeOK
<1>2. /\ \A u \in Threads : writer'[u][l] = x[u]
      /\ \A u \in Threads, k \in Layers : k # l => writer'[u][k] = writer[u][k]
  BY DEF TypeOK
<1>3. ASSUME NEW u \in Threads, NEW k \in Layers, u # t \/ k # l
      PROVE /\ writer'[u][k].pc = W(u, k).pc /\ writer'[u][k].name = W(u, k).name
            /\ writer'[u][k].data = W(u, k).data /\ writer'[u][k].at = W(u, k).at
            /\ \/ writer'[u][k].holds = W(u, k).holds
               \/ k = l /\ W(u, k).name = n /\ W(u, k).holds # "none"
                    /\ W(t, l).pc \in Busy
  <2>1. CASE k # l
    BY <1>2, <2>1 DEF W
  <2>2. CASE k = l
    BY <1>2, <1>3, <2>2
  <2> QED
    BY <2>1, <2>2
<1> QED
  BY <1>1, <1>2, <1>3 DEF WritersBecome

\* A descriptor whose file has another name then, or none.
LEMMA HoldsIs ==
  ASSUME NEW w \in Writers, NEW h \in {"none", "tmp", "file", "gone"}
  PROVE LET x == [w EXCEPT !.holds = h] IN
          /\ x \in Writers /\ x.pc = w.pc /\ x.name = w.name /\ x.data = w.data /\ x.at = w.at
BY DEF Writers

\* The temporary file of an entry is removed, or stays there.
LEMMA RemoveKeeps ==
  ASSUME IInv, NEW t \in Threads, NEW l \in Layers, Remove(t, l)
  PROVE WriteStep(t, l)
<1> DEFINE w == W(t, l)
           n == w.name
           v == [NoWriter EXCEPT !.pc = "failed"]
           f == file[l][n]
           x == [u \in Threads |->
                  IF u = t THEN v
                  ELSE IF W(u, l).name = n /\ W(u, l).holds = "tmp"
                  THEN [W(u, l) EXCEPT !.holds = "gone"] ELSE W(u, l)]
<1>1. /\ w.pc = "remove" /\ w.pc \in Busy /\ AtWork(t, l) /\ n \in Names /\ f \in Files /\ f.size <= Pieces(n)
      /\ UNCHANGED <<setup, file, thread, offered, raced, lost>> /\ Pieces(n) \in 1 .. 2
      /\ n \notin raced => Rivals(t, l) = {}
  BY AtHand, NamesAre DEF Remove, WAt, Busy, AtWork
<1>2. CASE /\ WSet(t, l, [NoWriter EXCEPT !.pc = "failed"])
           /\ tmp' = [tmp EXCEPT ![l] = Left(t, l)]
  BY <1>1, <1>2, GivesUpStep
<1>3. CASE /\ tmp' = [tmp EXCEPT ![l][n] = Absent]
           /\ writer' = [u \in Threads |-> [writer[u] EXCEPT ![l] =
                           IF u = t THEN v
                           ELSE IF @.name = n /\ @.holds = "tmp"
                           THEN [@ EXCEPT !.holds = "gone"] ELSE @]]
  <2>1. v \in Writers /\ v.pc = "failed" /\ v.at = 1 /\ v.holds = "none"
    BY DoneIs
  <2>2. Absent \in Files /\ Absent.size <= Pieces(n) /\ ~(Absent.size > 0)
    BY <1>1, AbsentIs
  <2>3. FilesBecome(l, n, f, Absent)
    BY <1>1, <1>3, <2>2, TmpBecomes DEF IInv
  <2> HIDE DEF v, n
  <2>4. x \in [Threads -> Writers]
    BY <2>1, WriterIs, HoldsIs DEF IInv
  <2>5. writer' = [u \in Threads |-> [writer[u] EXCEPT ![l] = x[u]]]
    BY <1>3 DEF W, IInv, TypeOK
  <2>6. \A u \in Threads \ {t} :
          \/ x[u] = W(u, l)
          \/ /\ x[u].pc = W(u, l).pc /\ x[u].name = W(u, l).name
             /\ x[u].data = W(u, l).data /\ x[u].at = W(u, l).at
             /\ W(u, l).name = n /\ W(u, l).holds # "none"
    BY WriterIs, HoldsIs DEF IInv
  <2>7. x[t] = v
    OBVIOUS
  <2> HIDE DEF x
  <2>8. WritersBecome(t, l, n, v)
    BY <1>1, <2>4, <2>5, <2>6, <2>7, OthersBecome DEF IInv
  <2>9. WriteOwn(t, l, n, v)
    BY <1>1, <2>1 DEF WriteOwn, AtWork, TempOk, Busy, Ready
  <2>10. WriteFile(t, l, n) /\ lost' \subseteq Names
    BY <1>1 DEF WriteFile, IInv, TypeOK
  <2>11. Known(t, l, n, f) /\ Known(t, l, n, Absent)
    BY <2>2 DEF Known
  <2> QED
    BY <1>1, <2>2, <2>3, <2>8, <2>9, <2>10, <2>11, FilesStep DEF n
<1> QED
  BY <1>2, <1>3 DEF Remove

\* sftp removes the target of a rename first, if it can.
LEMMA UnlinkKeeps ==
  ASSUME IInv, NEW t \in Threads, NEW l \in Layers, Unlink(t, l)
  PROVE WriteStep(t, l)
<1> DEFINE w == W(t, l)
           n == w.name
           v == [w EXCEPT !.pc = "rename"]
           f == file[l][n]
           g == tmp[l][n]
           x == [u \in Threads |->
                  IF u = t THEN v
                  ELSE IF W(u, l).name = n /\ W(u, l).holds = "file"
                  THEN [W(u, l) EXCEPT !.holds = "gone"] ELSE W(u, l)]
<1>1. /\ w.pc = "unlink" /\ w.pc \in Busy /\ l = Remote /\ w \in Writers /\ n \in Names
      /\ g \in Files /\ g.size <= Pieces(n) /\ Pieces(n) \in 1 .. 2
      /\ w.holds # "none" => ~Objects(l)
      /\ n \notin raced => TempOk(l, n, w, g, f) /\ Rivals(t, l) = {}
      /\ UNCHANGED <<setup, tmp, thread, offered, raced>>
  BY AtHand, NamesAre DEF Unlink, WAt, Busy
<1>2. /\ v \in Writers /\ v.pc = "rename" /\ v.name = n /\ v.data = w.data
      /\ v.at = w.at /\ v.holds = w.holds
  BY <1>1, GotoIs
<1>3. CASE l \in Failing /\ WSet(t, l, v) /\ UNCHANGED <<setup, file, lost>>
  <2> HIDE DEF v
  <2>1. WriteOwn(t, l, n, v)
    BY <1>1, <1>2, <1>3 DEF WriteOwn, AtWork, TempOk, Busy, Ready
  <2> QED
    BY <1>1, <1>2, <1>3, <2>1, OnlyWriterStep
<1>4. CASE /\ file' = [file EXCEPT ![l][n] = Absent]
           /\ lost' = IF f = Absent THEN lost ELSE lost \cup {n}
           /\ writer' = [u \in Threads |-> [writer[u] EXCEPT ![l] =
                           IF u = t THEN [@ EXCEPT !.pc = "rename"]
                           ELSE IF @.name = n /\ @.holds = "file"
                           THEN [@ EXCEPT !.holds = "gone"] ELSE @]]
  <2>1. Absent \in Files /\ Absent.size <= Pieces(n) /\ ~(Absent.size > 0)
    BY <1>1, AbsentIs
  <2>2. FilesBecome(l, n, Absent, g)
    BY <1>1, <1>4, <2>1, FileBecomes DEF IInv
  <2>3. writer' = [u \in Threads |-> [writer[u] EXCEPT ![l] = x[u]]]
    BY <1>4 DEF W, IInv, TypeOK
  <2> HIDE DEF v, n, w
  <2>4. x \in [Threads -> Writers]
    BY <1>2, WriterIs, HoldsIs DEF IInv
  <2>5. \A u \in Threads \ {t} :
          \/ x[u] = W(u, l)
          \/ /\ x[u].pc = W(u, l).pc /\ x[u].name = W(u, l).name
             /\ x[u].data = W(u, l).data /\ x[u].at = W(u, l).at
             /\ W(u, l).name = n /\ W(u, l).holds # "none"
    BY WriterIs, HoldsIs DEF IInv
  <2>6. x[t] = v
    OBVIOUS
  <2> HIDE DEF x
  <2>7. WritersBecome(t, l, n, v)
    BY <1>1, <2>3, <2>4, <2>5, <2>6, OthersBecome DEF IInv, w
  <2>8. file'[l][n] = Absent /\ tmp'[l][n] = g
    BY <2>2 DEF FilesBecome
  <2>9. WriteOwn(t, l, n, v)
    BY <1>1, <1>2, <2>8 DEF WriteOwn, AtWork, TempOk, Busy, Ready, w, n
  <2>10. WriteFile(t, l, n) /\ lost' \subseteq Names
    BY <1>1, <1>4, <2>8 DEF WriteFile, IInv, TypeOK
  <2>11. Known(t, l, n, Absent) /\ Known(t, l, n, g)
    BY <2>1 DEF Known
  <2> QED
    BY <1>1, <2>1, <2>2, <2>7, <2>9, <2>10, <2>11, FilesStep DEF n, w
<1> QED
  BY <1>3, <1>4 DEF Unlink, WGoto

\* Whatever is under the temporary name has the file's name then.
LEMMA RenameKeeps ==
  ASSUME IInv, NEW t \in Threads, NEW l \in Layers, Rename(t, l)
  PROVE WriteStep(t, l)
<1> DEFINE w == W(t, l)
           n == w.name
           v == [NoWriter EXCEPT !.pc = "ok"]
           g == tmp[l][n]
           Now(h) == IF h = "tmp" THEN "file" ELSE "gone"
           x == [u \in Threads |->
                  IF u = t THEN v
                  ELSE IF W(u, l).name = n /\ W(u, l).holds # "none"
                  THEN [W(u, l) EXCEPT !.holds = Now(W(u, l).holds)] ELSE W(u, l)]
<1>1. /\ w.pc = "rename" /\ w.pc \in Busy /\ AtWork(t, l) /\ n \in Names /\ g \in Files /\ g.size <= Pieces(n)
      /\ Pieces(n) \in 1 .. 2
      /\ n \notin raced => TempOk(l, n, w, g, file[l][n]) /\ Rivals(t, l) = {}
  BY AtHand, NamesAre DEF Rename, WAt, Busy, AtWork
<1>2. /\ g # Absent /\ file' = [file EXCEPT ![l][n] = g] /\ tmp' = [tmp EXCEPT ![l][n] = Absent]
      /\ lost' = IF l = Remote THEN lost \ {n} ELSE lost
      /\ writer' = [u \in Threads |-> [writer[u] EXCEPT ![l] =
                      IF u = t THEN v
                      ELSE IF @.name = n /\ @.holds # "none"
                      THEN [@ EXCEPT !.holds = Now(W(u, l).holds)] ELSE @]]
      /\ UNCHANGED <<setup, thread, offered, raced>>
  BY DEF Rename
<1>3. n \notin raced => Whole(g, n) /\ g.data[1] = w.data[1]
  BY <1>1, <1>2, ReadyIs DEF Ready
<1>4. v \in Writers /\ v.pc = "ok" /\ v.at = 1 /\ v.holds = "none"
  BY DoneIs
<1>5. Absent \in Files /\ Absent.size <= Pieces(n) /\ ~(Absent.size > 0)
  BY <1>1, AbsentIs
<1>6. FilesBecome(l, n, g, Absent)
  BY <1>1, <1>2, <1>5, BothBecome DEF IInv
<1> HIDE DEF v, n, w
<1>7. writer' = [u \in Threads |-> [writer[u] EXCEPT ![l] = x[u]]]
  BY <1>2 DEF W, IInv, TypeOK
<1>8. \A u \in Threads : Now(W(u, l).holds) \in {"none", "tmp", "file", "gone"}
  OBVIOUS
<1> HIDE DEF Now
<1>9. x \in [Threads -> Writers]
  BY <1>4, <1>8, WriterIs, HoldsIs DEF IInv
<1>10. \A u \in Threads \ {t} :
         \/ x[u] = W(u, l)
         \/ /\ x[u].pc = W(u, l).pc /\ x[u].name = W(u, l).name
            /\ x[u].data = W(u, l).data /\ x[u].at = W(u, l).at
            /\ W(u, l).name = n /\ W(u, l).holds # "none"
  BY <1>8, WriterIs, HoldsIs DEF IInv
<1>11. x[t] = v
  OBVIOUS
<1> HIDE DEF x
<1>12. WritersBecome(t, l, n, v)
  BY <1>1, <1>7, <1>9, <1>10, <1>11, OthersBecome DEF IInv, w
<1>13. file'[l][n] = g /\ tmp'[l][n] = Absent
  BY <1>6 DEF FilesBecome
<1>14. WriteOwn(t, l, n, v)
  BY <1>1, <1>2, <1>3, <1>4, <1>13 DEF WriteOwn, AtWork, TempOk, Busy, Ready, w
<1>15. WriteFile(t, l, n) /\ lost' \subseteq Names
  BY <1>2, <1>3, <1>13 DEF WriteFile, IInv, TypeOK, w
<1>16. Known(t, l, n, g) /\ Known(t, l, n, Absent)
  BY <1>5 DEF Known, n, w
<1> QED
  BY <1>1, <1>2, <1>5, <1>6, <1>12, <1>14, <1>15, <1>16, FilesStep DEF n, w

\* Every step of a writer.
LEMMA WritesKeep ==
  ASSUME IInv, NEW t \in Threads, NEW l \in Layers, Writes(t, l)
  PROVE WriteStep(t, l)
BY StatKeeps, OpenKeeps, WriteKeeps, SyncKeeps, UnlinkKeeps, RenameKeeps, RenameFailsKeeps,
   RemoveKeeps, WriteFailsKeeps, CopyKeeps, DeleteKeeps, MoveKeeps, HangsKeeps DEF Writes

-----------------------------------------------------------------------------
(***************************************************************************)
(* Such a step keeps the invariant.                                        *)
(***************************************************************************)

\* The writer at work, and the types.
LEMMA WriteStepIs ==
  ASSUME IInv, NEW t \in Threads, NEW l \in Layers, WriteStep(t, l)
  PROVE LET n == W(t, l).name IN
          /\ WriteTypes(l, n) /\ WriteElsewhere(t, l, n) /\ WriteOwn(t, l, n, writer'[t][l])
          /\ WriteFile(t, l, n) /\ WriteEntry(t, l, n)
          /\ n \in Names /\ raced \subseteq raced' /\ raced' \subseteq Names
          /\ setup' = setup /\ offered' = offered /\ thread' = thread
          /\ l = Remote => Mode = "write-through"
<1>1. W(t, l).name \in Names
  BY AtHand
<1>2. AtWork(t, l)
  BY DEF WriteStep, WriteOwn
<1>3. l = Remote => Mode = "write-through"
  BY <1>2 DEF IInv, WriterInv
<1> QED
  BY <1>1, <1>3 DEF WriteStep, WriteTypes, IInv, TypeOK

\* The types.
LEMMA WriteTypeOK ==
  ASSUME IInv, NEW t \in Threads, NEW l \in Layers, WriteStep(t, l)
  PROVE TypeOK'
<1> DEFINE n == W(t, l).name
<1>1. /\ WriteTypes(l, n) /\ WriteElsewhere(t, l, n) /\ raced' \subseteq Names
  BY WriteStepIs
<1>2. ASSUME NEW k \in Layers, NEW m \in Names
      PROVE file'[k][m].size <= Pieces(m) /\ tmp'[k][m].size <= Pieces(m)
  <2>1. CASE k = l /\ m = n
    BY <1>1, <2>1 DEF WriteTypes
  <2>2. CASE k # l \/ m # n
    BY <1>1, <2>2, FileIs DEF WriteElsewhere, IInv
  <2> QED
    BY <2>1, <2>2
<1> QED
  BY <1>1, <1>2 DEF WriteTypes, IInv, TypeOK

\* Where the writers are.
LEMMA WriteWriterInv ==
  ASSUME IInv, NEW t \in Threads, NEW l \in Layers, WriteStep(t, l)
  PROVE WriterInv'
<1> DEFINE n == W(t, l).name
<1>1. /\ WriteElsewhere(t, l, n) /\ WriteOwn(t, l, n, writer'[t][l]) /\ setup' = setup
      /\ l = Remote => Mode = "write-through"
  BY WriteStepIs
<1>2. (Mode = "write-through")' <=> Mode = "write-through"
  BY <1>1 DEF Mode
<1>3. \A k \in Layers : Objects(k)' <=> Objects(k)
  BY <1>1 DEF Objects
<1>4. SUFFICES ASSUME NEW u \in Threads, NEW k \in Layers
               PROVE /\ writer'[u][k].pc = "unlink" => k = Remote
                     /\ writer'[u][k].pc \in {"stat", "open"} => writer'[u][k].at = 1
                     /\ writer'[u][k].holds # "none" => writer'[u][k].pc \in Busy /\ ~Objects(k)
                     /\ writer'[u][k].pc \notin {"none", "ok", "failed"} /\ k = Remote =>
                          Mode = "write-through"
  BY <1>2, <1>3 DEF WriterInv, AtWork, W
<1>5. CASE u = t /\ k = l
  BY <1>1, <1>5 DEF WriteOwn
<1>6. CASE u # t \/ k # l
  BY <1>1, <1>6 DEF WriteElsewhere, IInv, WriterInv, AtWork
<1> QED
  BY <1>5, <1>6

\* Nobody else is past opening the temporary file of a name that was not raced for.
LEMMA WriteTheirsAlone ==
  ASSUME IInv, NEW t \in Threads, NEW l \in Layers, WriteStep(t, l)
  PROVE TheirsAlone'
<1> DEFINE n == W(t, l).name
           V(u, k) == writer'[u][k]
<1>1. /\ WriteElsewhere(t, l, n) /\ WriteOwn(t, l, n, V(t, l)) /\ raced \subseteq raced'
  BY WriteStepIs
<1>2. SUFFICES ASSUME NEW u \in Threads, NEW k \in Layers, NEW x \in Threads \ {u},
                      V(u, k).pc \in Busy, V(u, k).name \notin raced',
                      V(x, k).name = V(u, k).name, V(x, k).pc \in Busy
               PROVE FALSE
  BY DEF TheirsAlone, W, Rivals, Busy
<1>3. \A y \in Threads : y # t \/ k # l => V(y, k).pc = W(y, k).pc /\ V(y, k).name = W(y, k).name
  BY <1>1 DEF WriteElsewhere
<1>4. V(t, l).pc \in Busy => V(t, l).name = n /\ (n \notin raced' => Rivals(t, l) = {})
  BY <1>1 DEF WriteOwn, Busy
<1> HIDE DEF V
<1>5. CASE k # l \/ (u # t /\ x # t)
  <2>1. W(u, k).pc \in Busy /\ W(u, k).name \notin raced /\ x \in Rivals(u, k)
    BY <1>1, <1>2, <1>3, <1>5 DEF Rivals, Busy
  <2> QED
    BY <2>1 DEF IInv, TheirsAlone
<1>6. CASE k = l /\ u = t
  <2>1. x \in Rivals(t, l)
    BY <1>2, <1>3, <1>4, <1>6 DEF Rivals, Busy
  <2> QED
    BY <1>2, <1>4, <1>6, <2>1
<1>7. CASE k = l /\ x = t
  <2>1. u \in Rivals(t, l)
    BY <1>2, <1>3, <1>4, <1>7 DEF Rivals, Busy
  <2> QED
    BY <1>2, <1>4, <1>7, <2>1
<1> QED
  BY <1>5, <1>6, <1>7

\* Files are whole.
LEMMA WriteFilesWhole ==
  ASSUME IInv, NEW t \in Threads, NEW l \in Layers, WriteStep(t, l)
  PROVE FilesWhole'
<1> DEFINE n == W(t, l).name
<1>1. /\ WriteElsewhere(t, l, n) /\ WriteFile(t, l, n) /\ raced \subseteq raced'
  BY WriteStepIs
<1>2. SUFFICES ASSUME NEW k \in Layers, NEW m \in Names \ raced', file'[k][m] # Absent
               PROVE Whole(file'[k][m], m)
  BY DEF FilesWhole
<1>3. file[k][m] # Absent => Whole(file[k][m], m)
  BY <1>1 DEF IInv, FilesWhole
<1>4. CASE k = l /\ m = n
  BY <1>1, <1>2, <1>3, <1>4 DEF WriteFile
<1>5. CASE k # l \/ m # n
  BY <1>1, <1>2, <1>3, <1>5 DEF WriteElsewhere
<1> QED
  BY <1>4, <1>5

\* The temporary files are what their writers have written.
LEMMA WriteTempInv ==
  ASSUME IInv, NEW t \in Threads, NEW l \in Layers, WriteStep(t, l)
  PROVE TempInv'
<1> DEFINE n == W(t, l).name
<1>1. /\ WriteElsewhere(t, l, n) /\ WriteOwn(t, l, n, writer'[t][l]) /\ raced \subseteq raced'
      /\ setup' = setup
  BY WriteStepIs
<1>2. SUFFICES ASSUME NEW k \in Layers, NEW m \in Names \ raced', NEW u \in Threads,
                      writer'[u][k].name = m
               PROVE TempOk(k, m, writer'[u][k], tmp'[k][m], file'[k][m])
  <2>1. \A k \in Layers : Objects(k)' <=> Objects(k)
    BY <1>1 DEF Objects
  <2> QED
    BY <2>1 DEF TempInv, W, TempOk
<1>3. CASE u = t /\ k = l
  BY <1>1, <1>2, <1>3 DEF WriteOwn, TempOk, Ready
<1>4. CASE u # t \/ k # l
  <2> DEFINE w == W(u, k)
             v == writer'[u][k]
  <2>1. /\ v.pc = w.pc /\ v.name = w.name /\ v.data = w.data /\ v.at = w.at
        /\ \/ v.holds = w.holds
           \/ k = l /\ w.name = n /\ w.holds # "none" /\ W(t, l).pc \in Busy
    BY <1>1, <1>4 DEF WriteElsewhere
  <2>2. TempOk(k, m, w, tmp[k][m], file[k][m]) /\ m \notin raced
    BY <1>1, <1>2, <2>1 DEF IInv, TempInv
  <2>3. CASE k # l \/ m # n
    <3>1. file'[k][m] = file[k][m] /\ tmp'[k][m] = tmp[k][m]
      BY <1>1, <2>3 DEF WriteElsewhere
    <3>2. v.holds = w.holds
      BY <1>2, <2>1, <2>3
    <3> HIDE DEF v, w
    <3> QED
      BY <2>1, <2>2, <3>1, <3>2 DEF TempOk, v
  <2>4. CASE k = l /\ m = n /\ w.pc \in Busy
    <3>1. u \in Rivals(t, l)
      BY <1>2, <1>4, <2>1, <2>4 DEF Rivals, Busy
    <3>2. file'[k][m] = file[k][m] /\ tmp'[k][m] = tmp[k][m]
      BY <1>1, <1>2, <2>4, <3>1 DEF WriteOwn
    <3>3. W(t, l).pc \notin Busy
      BY <2>2, <2>4, <3>1 DEF IInv, TheirsAlone
    <3> HIDE DEF v, w
    <3> QED
      BY <2>1, <2>2, <3>2, <3>3 DEF TempOk, v
  <2>5. CASE w.pc \notin Busy
    <3> HIDE DEF v, w
    <3> QED
      BY <2>1, <2>2, <2>5 DEF TempOk, Busy, Ready, v
  <2> QED
    BY <2>3, <2>4, <2>5
<1> QED
  BY <1>3, <1>4

\* Entries name what was offered.
LEMMA WriteEntriesInv ==
  ASSUME IInv, NEW t \in Threads, NEW l \in Layers, WriteStep(t, l)
  PROVE EntriesInv'
<1> DEFINE n == W(t, l).name
<1>1. /\ WriteElsewhere(t, l, n) /\ WriteOwn(t, l, n, writer'[t][l]) /\ WriteEntry(t, l, n)
      /\ offered' = offered
  BY WriteStepIs
<1>2. SUFFICES ASSUME NEW k \in Layers, NEW a \in Actions
               PROVE /\ Names1(file'[k][Entry(a)], a) /\ Names1(tmp'[k][Entry(a)], a)
                     /\ \A u \in Threads :
                          writer'[u][k].pc \notin {"none", "ok", "failed"}
                            /\ writer'[u][k].name = Entry(a) =>
                              writer'[u][k].data[1] \in offered[a]
  BY <1>1 DEF EntriesInv, Names1, AtWork, W
<1>3. /\ Names1(file[k][Entry(a)], a) /\ Names1(tmp[k][Entry(a)], a)
      /\ \A u \in Threads :
           AtWork(u, k) /\ W(u, k).name = Entry(a) => W(u, k).data[1] \in offered[a]
  BY DEF IInv, EntriesInv
<1>4. Names1(file'[k][Entry(a)], a) /\ Names1(tmp'[k][Entry(a)], a)
  <2>1. CASE k = l /\ n = Entry(a)
    <3>1. n.kind = "a"
      BY <2>1, EntryIs
    <3>2. W(t, l).data[1] \in offered[a]
      BY <1>1, <1>3, <2>1 DEF WriteOwn
    <3> QED
      BY <1>1, <1>3, <2>1, <3>1, <3>2 DEF WriteEntry, Names1
  <2>2. CASE k # l \/ n # Entry(a)
    BY <1>1, <1>3, <2>2, EntryIs DEF WriteElsewhere, Names1
  <2> QED
    BY <2>1, <2>2
<1>5. ASSUME NEW u \in Threads, writer'[u][k].pc \notin {"none", "ok", "failed"},
             writer'[u][k].name = Entry(a)
      PROVE writer'[u][k].data[1] \in offered[a]
  <2>1. CASE u = t /\ k = l
    BY <1>1, <1>3, <1>5, <2>1 DEF WriteOwn
  <2>2. CASE u # t \/ k # l
    BY <1>1, <1>3, <1>5, <2>2 DEF WriteElsewhere, AtWork
  <2> QED
    BY <2>1, <2>2
<1> QED
  BY <1>4, <1>5

\* An output that is there to stay stays.
LEMMA WriteKept ==
  ASSUME IInv, NEW t \in Threads, NEW l \in Layers, WriteStep(t, l),
         NEW o \in Outputs, o # Empty, Kept(o)
  PROVE Kept(o)'
<1> DEFINE n == W(t, l).name
           m == Output(o)
<1>1. /\ WriteElsewhere(t, l, n) /\ WriteFile(t, l, n) /\ raced \subseteq raced'
  BY WriteStepIs
<1>2. m \in Names /\ m.kind = "d" /\ m.id = o /\ Pieces(m) = 2 /\ Local \in Layers
  BY OutputIs DEF Layers
<1>3. CASE m \in raced
  BY <1>1, <1>3 DEF Kept
<1>4. CASE m \notin raced
  <2>1. Intact(file[Local][m], o)
    BY <1>4 DEF Kept
  <2>2. Intact(file'[Local][m], o)
    <3>1. CASE l # Local \/ n # m
      BY <1>1, <1>2, <2>1, <3>1 DEF WriteElsewhere
    <3>2. CASE l = Local /\ n = m
      <4>1. file'[Local][m] = file[Local][m] \/ Whole(file'[Local][m], m)
        BY <1>1, <1>4, <3>2 DEF WriteFile, Local, Remote
      <4> QED
        BY <1>2, <2>1, <4>1 DEF Whole, Intact, SizeOk
    <3> QED
      BY <3>1, <3>2
  <2> QED
    BY <2>2 DEF Kept
<1> QED
  BY <1>3, <1>4

\* One that is in a layer is there, or sftp has removed it; or, if it had removed it, it
\* is in the remote layer again.
LEMMA WriteStored ==
  ASSUME IInv, NEW t \in Threads, NEW l \in Layers, WriteStep(t, l), NEW k \in Layers,
         NEW o \in Outputs, o # Empty, StoredIn(k, o)
  PROVE StoredIn(k, o)' \/ (k = Local /\ Mode # "disk" /\ HasOutput(Remote, o)')
<1> DEFINE n == W(t, l).name
           m == Output(o)
<1>1. /\ WriteElsewhere(t, l, n) /\ WriteFile(t, l, n) /\ raced \subseteq raced'
      /\ l = Remote => Mode = "write-through"
  BY WriteStepIs
<1>2. m \in Names /\ m.kind = "d" /\ m.id = o /\ Pieces(m) = 2
  BY OutputIs
<1>3. CASE m \in raced
  BY <1>1, <1>3 DEF StoredIn
<1>4. CASE m \notin raced /\ m \in lost
  <2>1. m \in lost' \/ (m = n /\ l = Remote /\ Whole(file'[Remote][m], m))
    BY <1>1, <1>4 DEF WriteFile
  <2>2. Whole(file'[Remote][m], m) => HasOutput(Remote, o)'
    BY DEF Whole, HasOutput
  <2>3. k = Local \/ k = Remote
    BY DEF Layers
  <2> QED
    BY <1>1, <2>1, <2>2, <2>3 DEF StoredIn
<1>5. CASE m \notin raced /\ m \notin lost
  <2>1. SizeOk(file[k][m], m)
    BY <1>5 DEF StoredIn, HasOutput
  <2>2. CASE k # l \/ n # m
    BY <1>1, <1>2, <2>1, <2>2 DEF WriteElsewhere, StoredIn, HasOutput
  <2>3. CASE k = l /\ n = m
    <3>1. \/ file'[k][m] = file[k][m]
          \/ Whole(file'[k][m], m)
          \/ l = Remote /\ file'[k][m] = Absent /\ (file[k][m] = Absent \/ m \in lost')
      BY <1>1, <1>5, <2>3 DEF WriteFile
    <3>2. file[k][m] # Absent
      BY <1>2, <2>1, AbsentIs DEF SizeOk
    <3> QED
      BY <2>1, <3>1, <3>2 DEF StoredIn, HasOutput, Whole
  <2> QED
    BY <2>2, <2>3
<1> QED
  BY <1>3, <1>4, <1>5

\* Whoever could find the output still can.
LEMMA WriteResolved ==
  ASSUME IInv, NEW t \in Threads, NEW l \in Layers, WriteStep(t, l), NEW k \in Layers,
         NEW o \in Outputs, Resolved(k, o)
  PROVE Resolved(k, o)'
<1>1. (Mode # "disk")' <=> Mode # "disk"
  BY WriteStepIs DEF Mode
<1>2. CASE o = Empty
  BY <1>2 DEF Resolved
<1>3. CASE o # Empty /\ StoredIn(k, o)
  BY <1>1, <1>3, WriteStored DEF Resolved
<1>4. CASE o # Empty /\ k = Local /\ Mode # "disk" /\ HasOutput(Remote, o)
  <2>1. Remote \in Layers /\ Remote # Local
    BY DEF Layers, Remote, Local
  <2>2. StoredIn(Remote, o)
    BY <1>4 DEF StoredIn
  <2>3. StoredIn(Remote, o)'
    BY <1>4, <2>1, <2>2, WriteStored
  <2> QED
    BY <1>1, <1>4, <2>3 DEF Resolved, StoredIn
<1> QED
  BY <1>2, <1>3, <1>4 DEF Resolved

\* What the invariant says of an entry that was not raced for.
LEMMA EntryAtHand ==
  ASSUME IInv, NEW k \in Layers, NEW a \in Actions, Entry(a) \notin raced
  PROVE /\ Entry(a) \in Names /\ Entry(a).kind = "a" /\ Pieces(Entry(a)) = 1
        /\ file[k][Entry(a)] # Absent =>
             /\ file[k][Entry(a)].size = 1 /\ Resolved(k, file[k][Entry(a)].data[1])
             /\ file[k][Entry(a)].data[1] \in offered[a]
             /\ file[k][Entry(a)].data[1] \in Outputs
        /\ \A u \in Threads : AtWork(u, k) /\ W(u, k).name = Entry(a) =>
             Resolved(k, W(u, k).data[1]) /\ W(u, k).data[1] \in Outputs
<1>1. /\ Entry(a) \in Names /\ Entry(a).kind = "a" /\ Pieces(Entry(a)) = 1
      /\ offered[a] \subseteq Outputs
  BY EntryIs DEF IInv, TypeOK
<1>2. file[k][Entry(a)] # Absent => file[k][Entry(a)].size = 1
  BY <1>1 DEF IInv, FilesWhole, Whole, SizeOk
<1> QED
  BY <1>1, <1>2 DEF IInv, ResolveInv, EntriesInv, Names1

\* Whoever reads an entry of a layer finds its output, and so will whoever reads one that
\* is being written.
LEMMA WriteResolveFile ==
  ASSUME IInv, NEW t \in Threads, NEW l \in Layers, WriteStep(t, l),
         NEW k \in Layers, NEW a \in Actions, Entry(a) \notin raced',
         NEW o, file'[k][Entry(a)] # Absent, o = file'[k][Entry(a)].data[1]
  PROVE Resolved(k, o)'
<1> DEFINE n == W(t, l).name
<1>1. /\ WriteElsewhere(t, l, n) /\ WriteOwn(t, l, n, writer'[t][l]) /\ WriteFile(t, l, n)
      /\ Entry(a) \notin raced
  BY WriteStepIs
<1>2. CASE file'[k][Entry(a)] = file[k][Entry(a)]
  <2>1. Resolved(k, o) /\ o \in Outputs
    BY <1>1, <1>2, EntryAtHand
  <2> QED
    BY <2>1, WriteResolved
<1>3. CASE k = l /\ n = Entry(a) /\ o = W(t, l).data[1]
  <2>1. Resolved(k, o) /\ o \in Outputs
    BY <1>1, <1>3, EntryAtHand DEF WriteOwn
  <2> QED
    BY <2>1, WriteResolved
<1>4. file'[k][Entry(a)] = file[k][Entry(a)] \/ (k = l /\ n = Entry(a) /\ o = W(t, l).data[1])
  BY <1>1, EntryIs DEF WriteFile, WriteElsewhere
<1> QED
  BY <1>2, <1>3, <1>4

\* So does an entry that is being written.
LEMMA WriteResolveWriter ==
  ASSUME IInv, NEW t \in Threads, NEW l \in Layers, WriteStep(t, l),
         NEW k \in Layers, NEW a \in Actions, Entry(a) \notin raced', NEW o, NEW u \in Threads,
         writer'[u][k].pc \notin {"none", "ok", "failed"}, writer'[u][k].name = Entry(a),
         o = writer'[u][k].data[1]
  PROVE Resolved(k, o)'
<1> DEFINE n == W(t, l).name
<1>1. /\ WriteElsewhere(t, l, n) /\ WriteOwn(t, l, n, writer'[t][l]) /\ Entry(a) \notin raced
  BY WriteStepIs
<1>2. AtWork(u, k) /\ W(u, k).name = Entry(a) /\ o = W(u, k).data[1]
  <2>1. CASE u = t /\ k = l
    BY <1>1, <2>1 DEF WriteOwn
  <2>2. CASE u # t \/ k # l
    BY <1>1, <2>2 DEF WriteElsewhere, AtWork
  <2> QED
    BY <2>1, <2>2
<1>3. Resolved(k, o) /\ o \in Outputs
  BY <1>1, <1>2, EntryAtHand
<1> QED
  BY <1>3, WriteResolved

\* The entries of a layer lead to their outputs.
LEMMA WriteResolveInv ==
  ASSUME IInv, NEW t \in Threads, NEW l \in Layers, WriteStep(t, l)
  PROVE ResolveInv'
<1>1. ASSUME NEW k \in Layers, NEW a \in Actions, Entry(a) \notin raced',
             file'[k][Entry(a)] # Absent
      PROVE Resolved(k, file[k][Entry(a)].data[1])'
  BY <1>1, WriteResolveFile DEF Resolved, StoredIn, HasOutput, SizeOk, Mode
<1>2. ASSUME NEW k \in Layers, NEW a \in Actions, Entry(a) \notin raced', NEW u \in Threads,
             AtWork(u, k)', W(u, k)'.name = Entry(a)
      PROVE Resolved(k, W(u, k).data[1])'
  BY <1>2, WriteResolveWriter DEF Resolved, StoredIn, HasOutput, SizeOk, Mode, AtWork, W
<1> QED
  BY <1>1, <1>2 DEF ResolveInv

\* A call's output is one that was offered.
LEMMA CallIs ==
  ASSUME IInv, NEW u \in Threads
  PROVE LET c == thread[u] IN
          /\ c \in Calls /\ c.act \in Actions /\ offered[c.act] \subseteq Outputs
          /\ c.pc \notin {"idle", "entry", "remote entry"} => c.out \in Outputs
          /\ c.pc \notin {"idle", "entry", "remote entry"} => c.out \in offered[c.act]
<1>1. thread[u] \in Calls /\ thread[u].act \in Actions
  BY DEF IInv, TypeOK, Calls
<1>2. offered[thread[u].act] \subseteq Outputs
  BY <1>1 DEF IInv, TypeOK
<1> QED
  BY <1>1, <1>2 DEF IInv, CallInv, CallOk

\* What an output that was written well is for those that wait for it.
LEMMA WrittenIs ==
  ASSUME IInv, NEW t \in Threads, NEW l \in Layers, WriteStep(t, l), writer'[t][l].pc = "ok",
         NEW o \in Outputs, o # Empty, W(t, l).name = Output(o)
  PROVE (l = Local => Kept(o)') /\ (l = Remote => StoredIn(Remote, o)')
<1> DEFINE n == W(t, l).name
<1>1. WriteOwn(t, l, n, writer'[t][l])
  BY WriteStepIs
<1>2. n \notin raced' => Whole(file'[l][n], n)
  BY <1>1 DEF WriteOwn
<1>3. n.kind = "d" /\ n.id = o /\ Pieces(n) = 2
  BY OutputIs
<1> QED
  BY <1>2, <1>3 DEF Kept, StoredIn, Whole, Intact, HasOutput, SizeOk

\* The writer a call waits for.
LEMMA WaitedFor ==
  ASSUME IInv, NEW t \in Threads, NEW l \in Layers, WriteStep(t, l),
         NEW u \in Threads, NEW k \in Layers
  PROVE /\ AtWork(u, k)' => AtWork(u, k) /\ writer'[u][k].name = W(u, k).name
        /\ WAt(u, k, "ok")' => WAt(u, k, "ok") \/ (u = t /\ k = l /\ AtWork(t, l))
<1> DEFINE n == W(t, l).name
<1>1. WriteElsewhere(t, l, n) /\ WriteOwn(t, l, n, writer'[t][l])
  BY WriteStepIs
<1>2. CASE u = t /\ k = l
  BY <1>1, <1>2 DEF WriteOwn, AtWork, WAt, W
<1>3. CASE u # t \/ k # l
  BY <1>1, <1>3 DEF WriteElsewhere, AtWork, WAt, W
<1> QED
  BY <1>2, <1>3

\* The calls, and what they wait for.
LEMMA WriteCallInv ==
  ASSUME IInv, NEW t \in Threads, NEW l \in Layers, WriteStep(t, l)
  PROVE CallInv'
<1>1. thread' = thread /\ offered' = offered /\ setup' = setup
  BY WriteStepIs
<1> QED
  BY <1>1 DEF IInv, CallInv, CallOk, Mode

\* What the calls wait for is as they need it.
LEMMA WriteWaitInv ==
  ASSUME IInv, NEW t \in Threads, NEW l \in Layers, WriteStep(t, l)
  PROVE WaitInv'
<1>1. thread' = thread /\ setup' = setup
  BY WriteStepIs
<1>2. ((Mode = "write-through")' <=> Mode = "write-through") /\ Written' = Written
  BY <1>1 DEF Mode, Written
<1>3. Local \in Layers /\ Remote \in Layers /\ Local \in Written
      /\ (Mode = "write-through" => Remote \in Written)
  BY DEF Layers, Written
<1>4. ASSUME NEW u \in Threads, thread[u].pc = "copy output"
      PROVE /\ thread[u].out # Empty
            /\ AtWork(u, Local)' => writer'[u][Local].name = Output(thread[u].out)
            /\ WAt(u, Local, "ok")' => Kept(thread[u].out)'
  <2> DEFINE o == thread[u].out
  <2>1. o \in Outputs
    BY <1>4, CallIs
  <2>2. /\ o # Empty /\ (AtWork(u, Local) => W(u, Local).name = Output(o))
        /\ (WAt(u, Local, "ok") => Kept(o))
    BY <1>4 DEF IInv, WaitInv, WaitOk, AtWork, WAt, W, Running
  <2>3. PICK p : p = o
    OBVIOUS
  <2> HIDE DEF o
  <2>4. WAt(u, Local, "ok")' => Kept(p)'
    BY <1>3, <2>1, <2>2, <2>3, WaitedFor, WrittenIs, WriteKept DEF WAt, W
  <2>5. AtWork(u, Local)' => writer'[u][Local].name = Output(o)
    BY <1>3, <2>2, WaitedFor
  <2>6. Kept(p)' <=> Kept(thread[u].out)'
    BY <1>1, <2>3 DEF Kept, o
  <2> QED
    BY <1>1, <2>2, <2>4, <2>5, <2>6 DEF o
<1>5. ASSUME NEW u \in Threads, thread[u].pc = "put output"
      PROVE /\ thread[u].out # Empty
            /\ \A k \in Written : AtWork(u, k)' => writer'[u][k].name = Output(thread[u].out)
            /\ WAt(u, Local, "ok")' => Kept(thread[u].out)'
            /\ WAt(u, Remote, "ok")' /\ Mode = "write-through" => StoredIn(Remote, thread[u].out)'
  <2> DEFINE o == thread[u].out
  <2>1. o \in Outputs
    BY <1>5, CallIs
  <2>2. /\ o # Empty /\ (\A k \in Written : AtWork(u, k) => W(u, k).name = Output(o))
        /\ (WAt(u, Local, "ok") => Kept(o))
        /\ (WAt(u, Remote, "ok") /\ Mode = "write-through" => StoredIn(Remote, o))
    BY <1>5 DEF IInv, WaitInv, WaitOk, AtWork, WAt, W, Running
  <2>3. PICK p : p = o
    OBVIOUS
  <2> HIDE DEF o
  <2>4. WAt(u, Local, "ok")' => Kept(p)'
    BY <1>3, <2>1, <2>2, <2>3, WaitedFor, WrittenIs, WriteKept DEF WAt, W
  <2>5. WAt(u, Remote, "ok")' /\ Mode = "write-through" => StoredIn(Remote, p)'
    BY <1>3, <2>1, <2>2, <2>3, WaitedFor, WrittenIs, WriteStored DEF WAt, W, Local, Remote
  <2>6. \A k \in Written : AtWork(u, k)' => writer'[u][k].name = Output(o)
    <3>1. Written \subseteq Layers
      BY DEF Written, Layers
    <3> QED
      BY <2>2, <3>1, WaitedFor
  <2>7. (Kept(p)' <=> Kept(thread[u].out)') /\ (StoredIn(Remote, p)' <=> StoredIn(Remote, thread[u].out)')
    BY <1>1, <2>3 DEF Kept, StoredIn, HasOutput, o
  <2> QED
    BY <1>1, <2>2, <2>4, <2>5, <2>6, <2>7 DEF o
<1>6. ASSUME NEW u \in Threads, thread[u].pc \in {"put entry", "put remote entry"},
             thread[u].out # Empty
      PROVE Kept(thread[u].out)' /\ (Mode = "write-through" => StoredIn(Remote, thread[u].out)')
  <2> DEFINE o == thread[u].out
  <2>1. o \in Outputs
    BY <1>6, CallIs
  <2>2. Kept(o) /\ (Mode = "write-through" => StoredIn(Remote, o))
    BY <1>6 DEF IInv, WaitInv, WaitOk, AtWork, WAt, W, Running
  <2>3. PICK p : p = o
    OBVIOUS
  <2>4. Kept(p)' /\ (Mode = "write-through" => StoredIn(Remote, p)')
    BY <1>3, <1>6, <2>1, <2>2, <2>3, WriteKept, WriteStored DEF Local, Remote
  <2> QED
    BY <1>1, <2>3, <2>4 DEF Kept, StoredIn, HasOutput
<1> QED
  BY <1>1, <1>2, <1>4, <1>5, <1>6 DEF WaitInv, WaitOk, AtWork, WAt, W, Running

\* A writer's step keeps the invariant.
LEMMA WritesInductive ==
  ASSUME IInv, NEW t \in Threads, NEW l \in Layers, Writes(t, l)
  PROVE IInv'
BY WritesKeep, WriteTypeOK, WriteWriterInv, WriteTheirsAlone, WriteFilesWhole, WriteTempInv,
   WriteEntriesInv, WriteResolveInv, WriteCallInv, WriteWaitInv DEF IInv

-----------------------------------------------------------------------------
(***************************************************************************)
(* What a step of a call does: it leaves the files alone, starts writers   *)
(* or forgets them, and goes on to its next place.                         *)
(***************************************************************************)

\* A writer that a call starts has what it is to write.
Started(l, w) ==
  /\ w.pc \in {"stat", "open"} /\ w.at = 1 /\ w.holds = "none"
  /\ l = Remote => Mode = "write-through"
  /\ w.name.kind = "d" /\ w.name \notin raced => \A i \in 1 .. 2 : w.data[i] = w.name.id
  /\ \A a \in Actions : w.name = Entry(a) =>
       w.data[1] \in offered'[a] /\ (Entry(a) \notin raced => Resolved(l, w.data[1]))

CallStep(t) ==
  /\ UNCHANGED <<setup, file, tmp, raced, lost>>
  /\ thread' \in [Threads -> Calls] /\ writer' \in [Threads -> [Layers -> Writers]]
  /\ \A u \in Threads \ {t} : thread'[u] = thread[u] /\ writer'[u] = writer[u]
  /\ offered' \in [Actions -> SUBSET Outputs] /\ \A a \in Actions : offered[a] \subseteq offered'[a]
  /\ \A l \in Layers : \/ writer'[t][l] \in {W(t, l), NoWriter}
                       \/ Started(l, writer'[t][l])
  /\ CallOk(thread'[t], offered') /\ WaitOk(thread'[t], writer'[t])

\* Each writer then is as it was, or is not at work, or has been started.
LEMMA CallWriters ==
  ASSUME IInv, NEW t \in Threads, CallStep(t), NEW u \in Threads, NEW l \in Layers
  PROVE \/ writer'[u][l] = W(u, l)
        \/ /\ writer'[u][l].pc \in {"none", "stat", "open"} /\ writer'[u][l].at = 1
           /\ writer'[u][l].holds = "none"
           /\ writer'[u][l].pc = "none" \/ Started(l, writer'[u][l])
<1>1. CASE u = t
  BY <1>1, NoWriterIs DEF CallStep, Started
<1>2. CASE u # t
  BY <1>2 DEF CallStep, W
<1> QED
  BY <1>1, <1>2

\* The part of the invariant that is about files and writers.
LEMMA CallTypeOK ==
  ASSUME IInv, NEW t \in Threads, CallStep(t)
  PROVE TypeOK'
BY DEF CallStep, IInv, TypeOK

\* A step of a call starts writers where they begin.
LEMMA CallWriterInv ==
  ASSUME IInv, NEW t \in Threads, CallStep(t)
  PROVE WriterInv'
<1>1. setup' = setup
  BY DEF CallStep
<1>2. ((Mode = "write-through")' <=> Mode = "write-through")
      /\ \A k \in Layers : Objects(k)' <=> Objects(k)
  BY <1>1 DEF Mode, Objects
<1>3. SUFFICES ASSUME NEW u \in Threads, NEW k \in Layers
               PROVE /\ writer'[u][k].pc = "unlink" => k = Remote
                     /\ writer'[u][k].pc \in {"stat", "open"} => writer'[u][k].at = 1
                     /\ writer'[u][k].holds # "none" => writer'[u][k].pc \in Busy /\ ~Objects(k)
                     /\ writer'[u][k].pc \notin {"none", "ok", "failed"} /\ k = Remote =>
                          Mode = "write-through"
  BY <1>2 DEF WriterInv, AtWork, W
<1>4. CASE writer'[u][k] = W(u, k)
  BY <1>4 DEF IInv, WriterInv, AtWork
<1>5. CASE writer'[u][k] # W(u, k)
  BY <1>5, CallWriters DEF Started
<1> QED
  BY <1>4, <1>5

\* None it starts is past opening its file.
LEMMA CallTheirsAlone ==
  ASSUME IInv, NEW t \in Threads, CallStep(t)
  PROVE TheirsAlone'
<1>1. raced' = raced
  BY DEF CallStep
<1>2. \A u \in Threads, k \in Layers :
        writer'[u][k].pc \in Busy => writer'[u][k] = W(u, k)
  BY CallWriters DEF Busy
<1>3. ASSUME NEW u \in Threads, NEW k \in Layers, NEW x \in Threads \ {u},
             writer'[u][k].pc \in Busy, writer'[u][k].name \notin raced,
             writer'[x][k].name = writer'[u][k].name, writer'[x][k].pc \in Busy
      PROVE FALSE
  <2>1. writer'[u][k] = W(u, k) /\ writer'[x][k] = W(x, k)
    BY <1>2, <1>3
  <2>2. x \in Rivals(u, k) /\ W(u, k).pc \in Busy /\ W(u, k).name \notin raced
    BY <1>3, <2>1 DEF Rivals, Busy
  <2> QED
    BY <2>2 DEF IInv, TheirsAlone
<1> QED
  BY <1>1, <1>3 DEF TheirsAlone, W, Rivals, Busy

\* No file changes, and what it has written is of the output that is named.
LEMMA CallTempInv ==
  ASSUME IInv, NEW t \in Threads, CallStep(t)
  PROVE FilesWhole' /\ TempInv'
<1>1. UNCHANGED <<setup, file, tmp, raced>>
  BY DEF CallStep
<1>2. FilesWhole'
  BY <1>1 DEF IInv, FilesWhole
<1>3. \A k \in Layers : Objects(k)' <=> Objects(k)
  BY <1>1 DEF Objects
<1>4. SUFFICES ASSUME NEW k \in Layers, NEW m \in Names \ raced, NEW u \in Threads,
                      writer'[u][k].name = m
               PROVE TempOk(k, m, writer'[u][k], tmp[k][m], file[k][m])
  BY <1>1, <1>2, <1>3 DEF TempInv, W, TempOk
<1>5. CASE writer'[u][k] = W(u, k)
  BY <1>4, <1>5 DEF IInv, TempInv
<1>6. CASE writer'[u][k] # W(u, k)
  BY <1>4, <1>6, CallWriters DEF TempOk, Started, Ready
<1> QED
  BY <1>5, <1>6

\* The entries it has written name outputs that were offered.
LEMMA CallEntriesInv ==
  ASSUME IInv, NEW t \in Threads, CallStep(t)
  PROVE EntriesInv'
<1>1. UNCHANGED <<file, tmp>> /\ \A a \in Actions : offered[a] \subseteq offered'[a]
  BY DEF CallStep
<1>2. SUFFICES ASSUME NEW k \in Layers, NEW a \in Actions
               PROVE /\ Names1(file[k][Entry(a)], a)' /\ Names1(tmp[k][Entry(a)], a)'
                     /\ \A u \in Threads :
                          AtWork(u, k)' /\ W(u, k)'.name = Entry(a) =>
                            W(u, k)'.data[1] \in offered'[a]
  BY DEF EntriesInv
<1>3. Names1(file[k][Entry(a)], a)' /\ Names1(tmp[k][Entry(a)], a)'
  BY <1>1 DEF IInv, EntriesInv, Names1
<1>4. ASSUME NEW u \in Threads, writer'[u][k].pc \notin {"none", "ok", "failed"},
             writer'[u][k].name = Entry(a)
      PROVE writer'[u][k].data[1] \in offered'[a]
  <2>1. CASE writer'[u][k] = W(u, k)
    BY <1>1, <1>4, <2>1 DEF IInv, EntriesInv, AtWork
  <2>2. CASE writer'[u][k] # W(u, k)
    BY <1>4, <2>2, CallWriters DEF Started
  <2> QED
    BY <2>1, <2>2
<1> QED
  BY <1>3, <1>4 DEF AtWork, W

\* Nothing changes for whoever looks for an output.
LEMMA CallLeaves ==
  ASSUME NEW t \in Threads, CallStep(t), NEW o, NEW k
  PROVE /\ Kept(o)' <=> Kept(o)
        /\ StoredIn(k, o)' <=> StoredIn(k, o)
        /\ Resolved(k, o)' <=> Resolved(k, o)
BY DEF CallStep, Kept, StoredIn, Resolved, HasOutput, Intact, SizeOk, Mode

\* And they lead to their outputs.
LEMMA CallResolveInv ==
  ASSUME IInv, NEW t \in Threads, CallStep(t)
  PROVE ResolveInv'
<1>1. UNCHANGED <<setup, file, raced, lost>>
  BY DEF CallStep
<1>2. ASSUME NEW k \in Layers, NEW a \in Actions, Entry(a) \notin raced, file[k][Entry(a)] # Absent
      PROVE Resolved(k, file[k][Entry(a)].data[1])'
  <2>1. Resolved(k, file[k][Entry(a)].data[1])
    BY <1>2 DEF IInv, ResolveInv
  <2> QED
    BY <1>1, <2>1 DEF Resolved, StoredIn, HasOutput, SizeOk, Mode
<1>3. ASSUME NEW k \in Layers, NEW a \in Actions, Entry(a) \notin raced, NEW u \in Threads,
             AtWork(u, k)', W(u, k)'.name = Entry(a)
      PROVE Resolved(k, W(u, k).data[1])'
  <2> DEFINE w == writer'[u][k]
  <2>1. w.pc \notin {"none", "ok", "failed"} /\ w.name = Entry(a)
    BY <1>3 DEF AtWork, W
  <2>2. Resolved(k, w.data[1])
    <3>1. CASE w = W(u, k)
      BY <1>3, <2>1, <3>1 DEF IInv, ResolveInv, AtWork
    <3>2. CASE w # W(u, k)
      BY <1>3, <2>1, <3>2, CallWriters DEF Started
    <3> QED
      BY <3>1, <3>2
  <2> QED
    BY <1>1, <2>2 DEF Resolved, StoredIn, HasOutput, SizeOk, Mode, W
<1> QED
  BY <1>1, <1>2, <1>3 DEF ResolveInv

\* A step of a call keeps the invariant.
LEMMA CallStepInductive ==
  ASSUME IInv, NEW t \in Threads, CallStep(t)
  PROVE IInv'
<1>1. /\ UNCHANGED <<setup, file, raced, lost>>
      /\ \A u \in Threads \ {t} : thread'[u] = thread[u] /\ writer'[u] = writer[u]
      /\ \A a \in Actions : offered[a] \subseteq offered'[a]
      /\ CallOk(thread'[t], offered') /\ WaitOk(thread'[t], writer'[t])
  BY DEF CallStep
<1>2. CallInv'
  <2>1. ASSUME NEW u \in Threads PROVE CallOk(thread'[u], offered')
    <3>1. CASE u = t
      BY <1>1, <3>1
    <3>2. CASE u # t
      BY <1>1, <3>2, CallIs DEF IInv, CallInv, CallOk
    <3> QED
      BY <3>1, <3>2
  <2> QED
    BY <1>1, <2>1 DEF CallInv, CallOk, Mode
<1>3. WaitInv'
  <2>1. ASSUME NEW u \in Threads PROVE WaitOk(thread'[u], writer'[u])
    BY <1>1 DEF IInv, WaitInv
  <2> QED
    BY <1>1, <2>1 DEF WaitInv, WaitOk, Mode, Written, Kept, StoredIn, HasOutput, Intact, SizeOk
<1> QED
  BY <1>2, <1>3, CallTypeOK, CallWriterInv, CallTheirsAlone, CallTempInv, CallEntriesInv,
     CallResolveInv DEF IInv

\* A call at another place, or answered.
LEMMA GoneTo ==
  ASSUME NEW c \in Calls,
         NEW pc \in {"idle", "entry", "remote entry", "copy entry", "output", "remote output",
                     "copy output", "put output", "put entry", "put remote entry"},
         NEW o \in Outputs \cup {NoOutput}, NEW r \in {"none", "hit", "miss", "ok", "failed"}
  PROVE /\ [c EXCEPT !.pc = pc] \in Calls /\ [c EXCEPT !.pc = pc].pc = pc
        /\ [c EXCEPT !.pc = pc].op = c.op /\ [c EXCEPT !.pc = pc].act = c.act
        /\ [c EXCEPT !.pc = pc].out = c.out /\ [c EXCEPT !.pc = pc].res = c.res
        /\ [c EXCEPT !.pc = pc, !.out = o] \in Calls /\ [c EXCEPT !.pc = pc, !.out = o].pc = pc
        /\ [c EXCEPT !.pc = pc, !.out = o].op = c.op /\ [c EXCEPT !.pc = pc, !.out = o].act = c.act
        /\ [c EXCEPT !.pc = pc, !.out = o].out = o /\ [c EXCEPT !.pc = pc, !.out = o].res = c.res
        /\ [c EXCEPT !.pc = pc, !.res = r, !.out = o] \in Calls
        /\ [c EXCEPT !.pc = pc, !.res = r, !.out = o].pc = pc
        /\ [c EXCEPT !.pc = pc, !.res = r, !.out = o].res = r
        /\ [c EXCEPT !.pc = pc, !.res = r, !.out = o].out = o
        /\ [c EXCEPT !.pc = pc, !.res = r, !.out = o].op = c.op
        /\ [c EXCEPT !.pc = pc, !.res = r, !.out = o].act = c.act
BY ZenonT(60) DEF Calls

\* The writers a call starts.
LEMMA Launched ==
  ASSUME IInv, NEW t \in Threads, NEW n \in Names, NEW data \in Bytes,
         NEW ls \in SUBSET Layers, Launch(t, n, data, ls)
  PROVE /\ writer' \in [Threads -> [Layers -> Writers]]
        /\ \A u \in Threads \ {t} : writer'[u] = writer[u]
        /\ \A l \in Layers \ ls : writer'[t][l] = W(t, l)
        /\ \A l \in ls : /\ writer'[t][l].name = n /\ writer'[t][l].data = data
                         /\ writer'[t][l].pc = (IF n.kind = "a" THEN "open" ELSE "stat")
                         /\ writer'[t][l].at = 1 /\ writer'[t][l].holds = "none"
<1> DEFINE s == Start(n, data)
           x == [l \in Layers |-> IF l \in ls THEN s ELSE writer[t][l]]
<1>1. /\ s \in Writers /\ s.name = n /\ s.data = data
      /\ s.pc = (IF n.kind = "a" THEN "open" ELSE "stat") /\ s.at = 1 /\ s.holds = "none"
  BY StartIs
<1>2. writer' = [writer EXCEPT ![t] = x]
  BY DEF Launch
<1> HIDE DEF s
<1>3. x \in [Layers -> Writers] /\ (\A l \in ls : x[l] = s) /\ (\A l \in Layers \ ls : x[l] = writer[t][l])
  BY <1>1 DEF IInv, TypeOK
<1> HIDE DEF x
<1>4. writer' \in [Threads -> [Layers -> Writers]] /\ writer'[t] = x
      /\ \A u \in Threads \ {t} : writer'[u] = writer[u]
  BY <1>2, <1>3 DEF IInv, TypeOK
<1> QED
  BY <1>1, <1>3, <1>4 DEF W

\* A call that changes its place and its output, and nothing else.
LEMMA GoStep ==
  ASSUME IInv, NEW t \in Threads, NEW c \in Calls, thread' = [thread EXCEPT ![t] = c],
         UNCHANGED <<setup, file, tmp, writer, offered, raced, lost>>,
         CallOk(c, offered), c.pc \in {"entry", "remote entry", "output", "remote output"}
  PROVE CallStep(t)
<1>1. /\ thread' \in [Threads -> Calls] /\ thread'[t] = c
      /\ \A u \in Threads \ {t} : thread'[u] = thread[u]
  BY DEF IInv, TypeOK
<1>2. WaitOk(c, writer'[t])
  BY DEF WaitOk
<1>3. CallOk(thread'[t], offered') /\ WaitOk(thread'[t], writer'[t])
  BY <1>1, <1>2
<1> QED
  BY <1>1, <1>3 DEF CallStep, IInv, TypeOK, W

\* A call that starts to write.
LEMMA LaunchStep ==
  ASSUME IInv, NEW t \in Threads, NEW c \in Calls, thread' = [thread EXCEPT ![t] = c],
         UNCHANGED <<setup, file, tmp, raced, lost>>,
         offered' \in [Actions -> SUBSET Outputs],
         \A a \in Actions : offered[a] \subseteq offered'[a],
         NEW n \in Names, NEW data \in Bytes, NEW ls \in SUBSET Layers, Launch(t, n, data, ls),
         Remote \in ls => Mode = "write-through",
         n.kind = "d" /\ n \notin raced => \A i \in 1 .. 2 : data[i] = n.id,
         \A a \in Actions : n = Entry(a) =>
           data[1] \in offered'[a] /\ (Entry(a) \notin raced => \A l \in ls : Resolved(l, data[1])),
         CallOk(c, offered'), WaitOk(c, writer'[t])
  PROVE CallStep(t)
<1>1. /\ thread' \in [Threads -> Calls] /\ thread'[t] = c
      /\ \A u \in Threads \ {t} : thread'[u] = thread[u]
  BY DEF IInv, TypeOK
<1>2. CallOk(thread'[t], offered') /\ WaitOk(thread'[t], writer'[t])
  BY <1>1
<1>3. ASSUME NEW l \in ls PROVE Started(l, writer'[t][l])
  BY <1>3, Launched DEF Started
<1> QED
  BY <1>1, <1>2, <1>3, Launched DEF CallStep

\* A call that is answered.
LEMMA AnswerStep ==
  ASSUME IInv, NEW t \in Threads, NEW r \in {"hit", "miss", "ok", "failed"}, Answer(t, r), Quiet
  PROVE CallStep(t)
<1> DEFINE c == thread[t]
           o == IF r \in {"hit", "ok"} THEN c.out ELSE NoOutput
           d == [c EXCEPT !.pc = "idle", !.res = r, !.out = o]
           none == [l \in Layers |-> NoWriter]
<1>1. c \in Calls /\ c.out \in Outputs \cup {NoOutput} /\ c.act \in Actions
  BY DEF IInv, TypeOK, Calls
<1>2. o \in Outputs \cup {NoOutput}
  BY <1>1
<1>3. thread' = [thread EXCEPT ![t] = d] /\ writer' = [writer EXCEPT ![t] = none]
  BY <1>1 DEF Answer, IInv, TypeOK, Calls
<1> HIDE DEF o, c
<1>4. d \in Calls /\ d.pc = "idle" /\ d.res = r
  BY <1>1, <1>2 DEF Calls
<1> HIDE DEF d
<1>5. none \in [Layers -> Writers] /\ \A l \in Layers : none[l] = NoWriter
  BY NoWriterIs
<1> HIDE DEF none
<1>6. /\ thread' \in [Threads -> Calls] /\ thread'[t] = d
      /\ \A u \in Threads \ {t} : thread'[u] = thread[u]
  BY <1>3, <1>4 DEF IInv, TypeOK
<1>7. /\ writer' \in [Threads -> [Layers -> Writers]] /\ writer'[t] = none
      /\ \A u \in Threads \ {t} : writer'[u] = writer[u]
  BY <1>3, <1>5 DEF IInv, TypeOK
<1>8. CallOk(d, offered')
  BY <1>4 DEF CallOk, Getting, Putting
<1>9. WaitOk(d, writer'[t])
  BY <1>4 DEF WaitOk
<1>10. CallOk(thread'[t], offered') /\ WaitOk(thread'[t], writer'[t])
  BY <1>6, <1>8, <1>9
<1> QED
  BY <1>5, <1>6, <1>7, <1>10 DEF CallStep, Quiet, IInv, TypeOK

\* The data written.
LEMMA DataIs ==
  ASSUME NEW o \in Outputs
  PROVE /\ EntryOf(o) \in Bytes /\ EntryOf(o)[1] = o
        /\ BytesOf(o) \in Bytes /\ \A i \in 1 .. 2 : BytesOf(o)[i] = o
<1>1. Blank \in Bytes
  BY BlankIs
<1> QED
  BY <1>1 DEF EntryOf, BytesOf, Bytes

\* Only these layers are written to, the remote one if everything is written to both.
LEMMA LayersAre ==
  /\ {Local} \in SUBSET Layers /\ {Remote} \in SUBSET Layers /\ Written \in SUBSET Layers
  /\ Remote \notin {Local} /\ Local \in Written
  /\ (Mode = "write-through") <=> Remote \in Written
BY DEF Layers, Written, Local, Remote

\* An entry found in a layer leads to its output, for the local layer as well.
LEMMA EntryFound ==
  ASSUME IInv, NEW k \in Layers, NEW a \in Actions, HasEntry(k, a)
  PROVE LET o == file[k][Entry(a)].data[1] IN
          /\ o \in offered[a] /\ o \in Outputs
          /\ Entry(a) \notin raced => Resolved(k, o)
<1>1. file[k][Entry(a)].size = 1 /\ file[k][Entry(a)] # Absent
  BY EntryIs, AbsentIs DEF HasEntry, SizeOk
<1>2. file[k][Entry(a)].data[1] \in offered[a] /\ offered[a] \subseteq Outputs
  BY <1>1 DEF IInv, EntriesInv, Names1, TypeOK
<1> QED
  BY <1>1, <1>2 DEF IInv, ResolveInv

\* Behind a remote layer the local one leads there as well.
LEMMA ResolvedLocally ==
  ASSUME NEW o, NEW k \in Layers, Resolved(k, o), Mode # "disk"
  PROVE Resolved(Local, o)
BY DEF Resolved, StoredIn, Layers

\* Get and put begin.
LEMMA GetKeeps ==
  ASSUME IInv, NEW t \in Threads, NEW a \in Actions, Get(t, a)
  PROVE CallStep(t)
<1> DEFINE c == [op |-> "get", act |-> a, out |-> NoOutput, pc |-> "entry", res |-> "none"]
<1>1. c \in Calls /\ c.pc = "entry" /\ c.res = "none" /\ c.op = "get"
  BY DEF Calls
<1>2. /\ thread' = [thread EXCEPT ![t] = c]
      /\ UNCHANGED <<setup, file, tmp, writer, offered, raced, lost>>
  BY DEF Get, Begin, Quiet
<1> HIDE DEF c
<1>3. CallOk(c, offered)
  BY <1>1 DEF CallOk, Getting, Putting
<1> QED
  BY <1>1, <1>2, <1>3, GoStep

\* A put begins.
LEMMA PutKeeps ==
  ASSUME IInv, NEW t \in Threads, NEW a \in Actions, NEW o \in Outputs, Put(t, a, o)
  PROVE CallStep(t)
<1> DEFINE pc == IF o = Empty THEN "put entry" ELSE "put output"
           c == [op |-> "put", act |-> a, out |-> o, pc |-> pc, res |-> "none"]
           n == IF o = Empty THEN Entry(a) ELSE Output(o)
           data == IF o = Empty THEN EntryOf(o) ELSE BytesOf(o)
           ls == IF o = Empty THEN {Local} ELSE Written
<1>1. /\ c \in Calls /\ c.pc = pc /\ c.res = "none" /\ c.op = "put" /\ c.act = a /\ c.out = o
      /\ pc \in {"put entry", "put output"}
  BY DEF Calls
<1>2. /\ thread' = [thread EXCEPT ![t] = c] /\ Launch(t, n, data, ls)
      /\ UNCHANGED <<setup, file, tmp, raced, lost>>
      /\ offered' = [offered EXCEPT ![a] = @ \cup {o}]
  BY DEF Put, Begin
<1>3. n \in Names /\ data \in Bytes /\ ls \in SUBSET Layers /\ (Remote \in ls => Mode = "write-through")
  BY EntryIs, OutputIs, DataIs, LayersAre
<1>4. /\ offered' \in [Actions -> SUBSET Outputs] /\ o \in offered'[a]
      /\ \A b \in Actions : offered[b] \subseteq offered'[b]
  BY <1>2 DEF IInv, TypeOK
<1>5. n.kind = "d" => \A i \in 1 .. 2 : data[i] = n.id
  BY EntryIs, OutputIs, DataIs
<1>6. ASSUME NEW b \in Actions, n = Entry(b)
      PROVE data[1] \in offered'[b] /\ \A l \in ls : Resolved(l, data[1])
  <2>1. o = Empty
    BY <1>6, EntryIs, OutputIs
  <2>2. b = a
    BY <1>6, <2>1, EntryIs
  <2>3. data[1] = Empty
    BY <2>1, DataIs
  <2> HIDE DEF data
  <2> QED
    BY <1>4, <2>1, <2>2, <2>3 DEF Resolved
<1>7. o # Empty => \A l \in ls : writer'[t][l].name = Output(o) /\ writer'[t][l].pc = "stat"
  <2> HIDE DEF n, data, ls, c
  <2>1. \A l \in ls : writer'[t][l].name = n /\ writer'[t][l].pc = IF n.kind = "a" THEN "open" ELSE "stat"
    BY <1>2, <1>3, Launched
  <2>2. o # Empty => n = Output(o) /\ n.kind = "d"
    BY OutputIs DEF n
  <2> QED
    BY <2>1, <2>2
<1>8. o # Empty => pc = "put output" /\ ls = Written
  OBVIOUS
<1>9. o = Empty => pc = "put entry"
  OBVIOUS
<1> HIDE DEF c, n, data, ls, pc
<1>10. CallOk(c, offered')
  BY <1>1, <1>4 DEF CallOk, Getting, Putting
<1>11. WaitOk(c, writer'[t])
  BY <1>1, <1>7, <1>8, <1>9, LayersAre DEF WaitOk
<1>12. \A b \in Actions : n = Entry(b) =>
         data[1] \in offered'[b] /\ (Entry(b) \notin raced => \A l \in ls : Resolved(l, data[1]))
  BY <1>6
<1> QED
  BY ZenonT(40), <1>1, <1>2, <1>3, <1>4, <1>5, <1>10, <1>11, <1>12, LaunchStep

\* The local entry is read, or there is none.
LEMMA ReadEntryKeeps ==
  ASSUME IInv, NEW t \in Threads, ReadEntry(t)
  PROVE CallStep(t)
<1> DEFINE c == thread[t]
           a == c.act
           o == file[Local][Entry(a)].data[1]
<1>1. /\ c \in Calls /\ c.pc = "entry" /\ c.res = "none" /\ c.op = "get" /\ a \in Actions
      /\ Local \in Layers /\ Quiet
  BY CallIs, LayersAre DEF ReadEntry, At, IInv, CallInv, CallOk, Getting
<1>2. CASE HasEntry(Local, a) /\ thread' = [thread EXCEPT ![t].pc = "output", ![t].out = o] /\ UNCHANGED writer
  <2> DEFINE d == [c EXCEPT !.pc = "output", !.out = o]
  <2>1. o \in offered[a] /\ o \in Outputs
    BY <1>1, <1>2, EntryFound
  <2>2. /\ d \in Calls /\ d.pc = "output" /\ d.out = o /\ d.res = c.res /\ d.op = c.op /\ d.act = a
    BY <1>1, <2>1 DEF Calls
  <2>3. thread' = [thread EXCEPT ![t] = d]
    BY <1>1, <1>2 DEF IInv, TypeOK
  <2> HIDE DEF d
  <2>4. CallOk(d, offered)
    BY <1>1, <2>1, <2>2 DEF CallOk, Getting, Putting
  <2> QED
    BY <1>1, <1>2, <2>2, <2>3, <2>4, GoStep DEF Quiet
<1>3. CASE Answer(t, "miss")
  BY <1>1, <1>3, AnswerStep
<1>4. CASE Mode # "disk" /\ Goto(t, "remote entry") /\ UNCHANGED writer
  <2> DEFINE d == [c EXCEPT !.pc = "remote entry"]
  <2>1. /\ d \in Calls /\ d.pc = "remote entry" /\ d.res = c.res /\ d.op = c.op
    BY <1>1 DEF Calls
  <2>2. thread' = [thread EXCEPT ![t] = d]
    BY <1>4 DEF Goto, IInv, TypeOK
  <2> HIDE DEF d
  <2>3. CallOk(d, offered)
    BY <1>1, <1>4, <2>1 DEF CallOk, Getting, Putting
  <2> QED
    BY <1>1, <1>4, <2>1, <2>2, <2>3, GoStep DEF Quiet
<1> QED
  BY <1>2, <1>3, <1>4 DEF ReadEntry

\* The remote entry is read, and written to the local layer.
LEMMA ReadRemoteEntryKeeps ==
  ASSUME IInv, NEW t \in Threads, ReadRemoteEntry(t)
  PROVE CallStep(t)
<1> DEFINE c == thread[t]
           a == c.act
           o == file[Remote][Entry(a)].data[1]
<1>1. /\ c \in Calls /\ c.pc = "remote entry" /\ c.res = "none" /\ c.op = "get" /\ a \in Actions
      /\ Mode # "disk" /\ Local \in Layers /\ Remote \in Layers /\ Quiet
  BY CallIs, LayersAre DEF ReadRemoteEntry, At, IInv, CallInv, CallOk, Getting
<1>2. CASE /\ HasEntry(Remote, a)
           /\ thread' = [thread EXCEPT ![t].pc = "copy entry", ![t].out = o]
           /\ Launch(t, Entry(a), EntryOf(o), {Local})
  <2> DEFINE d == [c EXCEPT !.pc = "copy entry", !.out = o]
             n == Entry(a)
             data == EntryOf(o)
  <2>1. o \in offered[a] /\ o \in Outputs /\ (n \notin raced => Resolved(Remote, o))
    BY <1>1, <1>2, EntryFound
  <2>2. n \notin raced => Resolved(Local, o)
    BY <1>1, <2>1, ResolvedLocally
  <2>3. /\ d \in Calls /\ d.pc = "copy entry" /\ d.out = o /\ d.res = c.res /\ d.op = c.op /\ d.act = a
    BY <1>1, <2>1 DEF Calls
  <2>4. thread' = [thread EXCEPT ![t] = d]
    BY <1>1, <1>2 DEF IInv, TypeOK
  <2> HIDE DEF d
  <2>5. CallOk(d, offered)
    BY <1>1, <2>1, <2>3 DEF CallOk, Getting, Putting
  <2>6. n \in Names /\ n.kind = "a" /\ n.id = a /\ \A b \in Actions : n = Entry(b) => b = a
    BY <1>1, EntryIs
  <2>7. data \in Bytes /\ data[1] = o
    BY <2>1, DataIs
  <2>8. UNCHANGED <<setup, file, tmp, offered, raced, lost>> /\ offered \in [Actions -> SUBSET Outputs]
    BY <1>1 DEF Quiet, IInv, TypeOK
  <2>9. WaitOk(d, writer'[t])
    BY <2>3 DEF WaitOk
  <2>10. {Local} \in SUBSET Layers /\ Remote \notin {Local}
    BY LayersAre
  <2>11. Launch(t, n, data, {Local})
    BY <1>2
  <2> HIDE DEF n, data, o
  <2>12. \A b \in Actions : n = Entry(b) =>
           data[1] \in offered'[b] /\ (Entry(b) \notin raced => \A l \in {Local} : Resolved(l, data[1]))
    BY <2>1, <2>2, <2>6, <2>7, <2>8
  <2>13. CallOk(d, offered') /\ offered' \in [Actions -> SUBSET Outputs]
         /\ \A b \in Actions : offered[b] \subseteq offered'[b]
    BY <2>5, <2>8
  <2> QED
    BY <2>3, <2>4, <2>6, <2>7, <2>8, <2>9, <2>10, <2>11, <2>12, <2>13, LaunchStep
<1>3. CASE Answer(t, "miss")
  BY <1>1, <1>3, AnswerStep
<1> QED
  BY <1>2, <1>3 DEF ReadRemoteEntry

\* A call at work waits for what it is to have.
LEMMA Waiting ==
  ASSUME IInv, NEW t \in Threads
  PROVE LET c == thread[t] IN
          /\ c \in Calls /\ CallOk(c, offered) /\ WaitOk(c, writer[t]) /\ c.act \in Actions
          /\ c.pc \notin {"idle", "entry", "remote entry"} =>
               c.out \in Outputs /\ c.out \in offered[c.act]
          /\ offered \in [Actions -> SUBSET Outputs]
BY CallIs DEF IInv, CallInv, WaitInv, TypeOK

\* The entry was written locally: the output next.
LEMMA EntryCopiedKeeps ==
  ASSUME IInv, NEW t \in Threads, EntryCopied(t)
  PROVE CallStep(t)
<1> DEFINE c == thread[t]
           d == [c EXCEPT !.pc = "output"]
<1>1. /\ c \in Calls /\ c.pc = "copy entry" /\ c.res = "none" /\ c.op = "get"
      /\ c.out \in offered[c.act] /\ Quiet
  BY Waiting DEF EntryCopied, At, CallOk, Getting
<1>2. CASE Answer(t, "miss")
  BY <1>1, <1>2, AnswerStep
<1>3. CASE Goto(t, "output") /\ UNCHANGED writer
  <2>1. /\ d \in Calls /\ d.pc = "output" /\ d.res = c.res /\ d.op = c.op /\ d.out = c.out
        /\ d.act = c.act
    BY <1>1 DEF Calls
  <2>2. thread' = [thread EXCEPT ![t] = d]
    BY <1>3 DEF Goto, IInv, TypeOK
  <2> HIDE DEF d
  <2>3. CallOk(d, offered)
    BY <1>1, <2>1 DEF CallOk, Getting, Putting
  <2> QED
    BY <1>1, <1>3, <2>1, <2>2, <2>3, GoStep DEF Quiet
<1> QED
  BY <1>2, <1>3 DEF EntryCopied

\* The output is looked for, locally.
LEMMA CheckOutputKeeps ==
  ASSUME IInv, NEW t \in Threads, CheckOutput(t)
  PROVE CallStep(t)
<1> DEFINE c == thread[t]
           d == [c EXCEPT !.pc = "remote output"]
<1>1. /\ c \in Calls /\ c.pc = "output" /\ c.res = "none" /\ c.op = "get"
      /\ c.out \in offered[c.act] /\ Quiet
  BY Waiting DEF CheckOutput, At, CallOk, Getting
<1>2. CASE Answer(t, "miss") \/ Answer(t, "hit")
  BY <1>1, <1>2, AnswerStep
<1>3. CASE Mode # "disk" /\ Goto(t, "remote output") /\ UNCHANGED writer
  <2>1. /\ d \in Calls /\ d.pc = "remote output" /\ d.res = c.res /\ d.op = c.op /\ d.out = c.out
        /\ d.act = c.act
    BY <1>1 DEF Calls
  <2>2. thread' = [thread EXCEPT ![t] = d]
    BY <1>3 DEF Goto, IInv, TypeOK
  <2> HIDE DEF d
  <2>3. CallOk(d, offered)
    BY <1>1, <1>3, <2>1 DEF CallOk, Getting, Putting
  <2> QED
    BY <1>1, <1>3, <2>1, <2>2, <2>3, GoStep DEF Quiet
<1> QED
  BY <1>2, <1>3 DEF CheckOutput

\* The output is looked for, remotely, and copied to the local layer.
LEMMA CheckRemoteOutputKeeps ==
  ASSUME IInv, NEW t \in Threads, CheckRemoteOutput(t)
  PROVE CallStep(t)
<1> DEFINE c == thread[t]
           o == c.out
           n == Output(o)
           data == file[Remote][n].data
           d == [c EXCEPT !.pc = "copy output"]
<1>1. /\ c \in Calls /\ c.pc = "remote output" /\ c.res = "none" /\ c.op = "get"
      /\ o \in offered[c.act] /\ o \in Outputs /\ Mode # "disk" /\ Quiet
      /\ Remote \in Layers /\ Local \in Layers
  BY Waiting, LayersAre DEF CheckRemoteOutput, At, CallOk, Getting
<1>2. CASE Answer(t, "miss")
  BY <1>1, <1>2, AnswerStep
<1>3. CASE HasOutput(Remote, o) /\ Goto(t, "copy output") /\ Launch(t, n, data, {Local})
  <2>1. o # Empty /\ SizeOk(file[Remote][n], n)
    BY <1>3 DEF HasOutput
  <2>2. n \in Names /\ n.kind = "d" /\ n.id = o /\ Pieces(n) = 2 /\ \A b \in Actions : n # Entry(b)
    BY <1>1, <2>1, OutputIs, EntryIs
  <2>3. file[Remote][n] # Absent
    BY <2>1, <2>2, AbsentIs DEF SizeOk
  <2>4. data \in Bytes /\ (n \notin raced => \A i \in 1 .. 2 : data[i] = n.id)
    <3> DEFINE f == file[Remote][n]
    <3>1. f \in Files /\ f # Absent
      BY <1>1, <2>2, <2>3, FileIs DEF IInv
    <3>2. n \notin raced => Whole(f, n)
      BY <1>1, <2>2, <3>1 DEF IInv, FilesWhole
    <3> HIDE DEF f, n
    <3>3. f.data \in Bytes /\ (n \notin raced => \A i \in 1 .. 2 : f.data[i] = n.id)
      BY <2>2, <3>1, <3>2 DEF Files, Whole
    <3> QED
      BY <3>3 DEF f, n
  <2>5. /\ d \in Calls /\ d.pc = "copy output" /\ d.res = c.res /\ d.op = c.op /\ d.out = o
        /\ d.act = c.act
    BY <1>1 DEF Calls
  <2>6. thread' = [thread EXCEPT ![t] = d] /\ Launch(t, n, data, {Local})
    BY <1>3 DEF Goto, IInv, TypeOK
  <2>7. UNCHANGED <<setup, file, tmp, offered, raced, lost>> /\ offered \in [Actions -> SUBSET Outputs]
    BY <1>1 DEF Quiet, IInv, TypeOK
  <2>8. {Local} \in SUBSET Layers /\ Remote \notin {Local}
    BY LayersAre
  <2> HIDE DEF d, data
  <2>9. writer'[t][Local].name = n /\ writer'[t][Local].pc = "stat"
    <3> HIDE DEF n
    <3>1. \A l \in {Local} : /\ writer'[t][l].name = n
                             /\ writer'[t][l].pc = (IF n.kind = "a" THEN "open" ELSE "stat")
      BY <2>2, <2>4, <2>6, <2>8, Launched
    <3> QED
      BY <2>2, <3>1
  <2>10. WaitOk(d, writer'[t])
    BY <2>1, <2>5, <2>9 DEF WaitOk
  <2>11. CallOk(d, offered') /\ offered' \in [Actions -> SUBSET Outputs]
         /\ \A b \in Actions : offered[b] \subseteq offered'[b]
    BY <1>1, <2>5, <2>7 DEF CallOk, Getting, Putting
  <2>12. \A b \in Actions : n = Entry(b) =>
           data[1] \in offered'[b] /\ (Entry(b) \notin raced => \A l \in {Local} : Resolved(l, data[1]))
    BY <2>2
  <2> HIDE DEF n
  <2> QED
    BY <2>2, <2>4, <2>5, <2>6, <2>7, <2>8, <2>10, <2>11, <2>12, LaunchStep
<1> QED
  BY <1>2, <1>3 DEF CheckRemoteOutput

\* The output was copied, or was not.
LEMMA OutputCopiedKeeps ==
  ASSUME IInv, NEW t \in Threads, OutputCopied(t)
  PROVE CallStep(t)
<1>1. Answer(t, "hit") \/ Answer(t, "miss")
  BY DEF OutputCopied
<1> QED
  BY <1>1, AnswerStep DEF OutputCopied

\* Where an output was put, its entry leads to it.
LEMMA EntryStep ==
  ASSUME IInv, NEW t \in Threads, Quiet, NEW l \in Layers,
         NEW pc \in {"put entry", "put remote entry"}, Goto(t, pc),
         thread[t].pc \in {"put output", "put entry"},
         Launch(t, Entry(thread[t].act), EntryOf(thread[t].out), {l}),
         l = Remote => Mode = "write-through",
         LET o == thread[t].out IN
           o = Empty \/ (Kept(o) /\ (Mode = "write-through" => StoredIn(Remote, o)))
  PROVE CallStep(t)
<1> DEFINE c == thread[t]
           o == c.out
           n == Entry(c.act)
           data == EntryOf(o)
           d == [c EXCEPT !.pc = pc]
<1>1. /\ c \in Calls /\ c.res = "none" /\ c.op = "put" /\ o \in offered[c.act] /\ o \in Outputs
      /\ c.act \in Actions
      /\ o = Empty \/ (Kept(o) /\ (Mode = "write-through" => StoredIn(Remote, o)))
  BY Waiting DEF CallOk, Putting
<1>2. n \in Names /\ n.kind = "a" /\ \A b \in Actions : n = Entry(b) => b = c.act
  BY <1>1, EntryIs
<1>3. data \in Bytes /\ data[1] = o
  BY <1>1, DataIs
<1>4. /\ d \in Calls /\ d.pc = pc /\ d.res = c.res /\ d.op = c.op /\ d.out = o /\ d.act = c.act
  BY <1>1 DEF Calls
<1>5. thread' = [thread EXCEPT ![t] = d] /\ Launch(t, n, data, {l})
  BY DEF Goto, IInv, TypeOK
<1>6. UNCHANGED <<setup, file, tmp, offered, raced, lost>> /\ offered \in [Actions -> SUBSET Outputs]
  BY DEF Quiet, IInv, TypeOK
<1>7. Resolved(l, o)
  <2>1. CASE o = Empty
    BY <2>1 DEF Resolved
  <2>2. CASE o # Empty /\ l = Remote
    BY <1>1, <2>2 DEF Resolved
  <2>3. CASE o # Empty /\ l = Local
    <3>1. Kept(o)
      BY <1>1, <2>3
    <3> QED
      BY <2>3, <3>1 DEF Resolved, Kept, StoredIn, HasOutput, Intact
  <2> QED
    BY <2>1, <2>2, <2>3 DEF Layers
<1> HIDE DEF d, data, n
<1>8. WaitOk(d, writer'[t])
  BY <1>1, <1>4 DEF WaitOk
<1>9. CallOk(d, offered') /\ offered' \in [Actions -> SUBSET Outputs]
      /\ \A b \in Actions : offered[b] \subseteq offered'[b]
  BY <1>1, <1>4, <1>6 DEF CallOk, Getting, Putting
<1>10. \A b \in Actions : n = Entry(b) =>
         data[1] \in offered'[b] /\ (Entry(b) \notin raced => \A k \in {l} : Resolved(k, data[1]))
  BY <1>1, <1>2, <1>3, <1>6, <1>7
<1>11. {l} \in SUBSET Layers /\ (Remote \in {l} => Mode = "write-through")
  OBVIOUS
<1> QED
  BY <1>2, <1>3, <1>4, <1>5, <1>6, <1>8, <1>9, <1>10, <1>11, LaunchStep

\* The rest of a put.
LEMMA OutputPutKeeps ==
  ASSUME IInv, NEW t \in Threads, OutputPut(t)
  PROVE CallStep(t)
<1>1. CASE Answer(t, "failed")
  BY <1>1, AnswerStep DEF OutputPut
<1>2. CASE /\ AllOk(t, Written) /\ Goto(t, "put entry")
           /\ Launch(t, Entry(thread[t].act), EntryOf(thread[t].out), {Local})
  <2>1. thread[t].pc = "put output" /\ Quiet
    BY DEF OutputPut, At
  <2>2. \A l \in Written : writer[t][l].pc = "ok"
    BY <1>2 DEF AllOk, WAt, W
  <2>3. Kept(thread[t].out) /\ (Mode = "write-through" => StoredIn(Remote, thread[t].out))
    BY <2>1, <2>2, Waiting, LayersAre DEF WaitOk
  <2>4. Local \in Layers /\ Local # Remote
    BY LayersAre
  <2> QED
    BY <1>2, <2>1, <2>3, <2>4, EntryStep
<1> QED
  BY <1>1, <1>2 DEF OutputPut

\* The local entry is put, then the remote one.
LEMMA EntryPutKeeps ==
  ASSUME IInv, NEW t \in Threads, EntryPut(t)
  PROVE CallStep(t)
<1>1. CASE Answer(t, "failed") \/ Answer(t, "ok")
  BY <1>1, AnswerStep DEF EntryPut
<1>2. CASE /\ Mode = "write-through" /\ Goto(t, "put remote entry")
           /\ Launch(t, Entry(thread[t].act), EntryOf(thread[t].out), {Remote})
  <2>1. thread[t].pc = "put entry" /\ Quiet
    BY DEF EntryPut, At
  <2>2. LET o == thread[t].out IN
          o = Empty \/ (Kept(o) /\ (Mode = "write-through" => StoredIn(Remote, o)))
    BY <2>1, Waiting DEF WaitOk
  <2>3. Remote \in Layers
    BY LayersAre
  <2> QED
    BY <1>2, <2>1, <2>2, <2>3, EntryStep
<1> QED
  BY <1>1, <1>2 DEF EntryPut

\* The remote entry is put.
LEMMA RemoteEntryPutKeeps ==
  ASSUME IInv, NEW t \in Threads, RemoteEntryPut(t)
  PROVE CallStep(t)
<1>1. Answer(t, "failed") \/ Answer(t, "ok")
  BY DEF RemoteEntryPut
<1> QED
  BY <1>1, AnswerStep DEF RemoteEntryPut

\* Every step of a call.
LEMMA CallsInductive ==
  ASSUME IInv, NEW t \in Threads,
         \/ Gets(t) \/ Puts(t)
         \/ \E a \in Actions : Get(t, a) \/ \E o \in Outputs : Put(t, a, o)
  PROVE IInv'
<1>1. CallStep(t)
  BY ReadEntryKeeps, ReadRemoteEntryKeeps, EntryCopiedKeeps, CheckOutputKeeps,
     CheckRemoteOutputKeeps, OutputCopiedKeeps, OutputPutKeeps, EntryPutKeeps,
     RemoteEntryPutKeeps, GetKeeps, PutKeeps DEF Gets, Puts
<1> QED
  BY <1>1, CallStepInductive

-----------------------------------------------------------------------------
(***************************************************************************)
(* Processes end, and the machine stops.                                   *)
(***************************************************************************)

\* Calls are given up with their writers; files nobody is past opening may be gone, and
\* what was raced for may be cut.
AbandonStep ==
  /\ UNCHANGED <<setup, offered, raced, lost>>
  /\ thread' \in [Threads -> Calls] /\ writer' \in [Threads -> [Layers -> Writers]]
  /\ file' \in [Layers -> [Names -> Files]] /\ tmp' \in [Layers -> [Names -> Files]]
  /\ \A u \in Threads :
       \/ thread'[u] = thread[u] /\ writer'[u] = writer[u]
       \/ thread'[u] = NoCall /\ \A l \in Layers : writer'[u][l] = NoWriter
  /\ \A k \in Layers, m \in Names :
       /\ file'[k][m].size <= Pieces(m)
       /\ file'[k][m] = file[k][m] \/ (m \in raced /\ ~(file'[k][m].size > 0))
       /\ \/ tmp'[k][m] = tmp[k][m]
          \/ tmp'[k][m] = Absent /\ \A u \in Threads :
               writer'[u][k].name = m => writer'[u][k].pc \notin Busy

\* The files and writers after it.
LEMMA AbandonFiles ==
  ASSUME IInv, AbandonStep
  PROVE TypeOK' /\ WriterInv' /\ TheirsAlone' /\ FilesWhole'
<1>1. TypeOK'
  <2>1. \A k \in Layers, m \in Names :
          file'[k][m].size <= Pieces(m) /\ tmp'[k][m].size <= Pieces(m)
    <3>1. ASSUME NEW k \in Layers, NEW m \in Names
          PROVE file'[k][m].size <= Pieces(m) /\ tmp'[k][m].size <= Pieces(m)
      <4>1. Absent.size <= Pieces(m) /\ tmp[k][m].size <= Pieces(m)
        BY AbsentIs, NamesAre, FileIs DEF IInv
      <4> QED
        BY <4>1 DEF AbandonStep
    <3> QED
      BY <3>1
  <2> QED
    BY <2>1 DEF AbandonStep, IInv, TypeOK
<1>2. \A u \in Threads, k \in Layers :
        writer'[u][k] = W(u, k) \/ (writer'[u][k].pc = "none" /\ writer'[u][k].holds = "none")
  BY NoWriterIs DEF AbandonStep, W
<1>3. setup' = setup /\ raced' = raced
  BY DEF AbandonStep
<1>4. WriterInv'
  <2>1. ((Mode = "write-through")' <=> Mode = "write-through")
        /\ \A k \in Layers : Objects(k)' <=> Objects(k)
    BY <1>3 DEF Mode, Objects
  <2> QED
    BY <1>2, <2>1 DEF IInv, WriterInv, AtWork, W
<1>5. TheirsAlone'
  <2>1. ASSUME NEW u \in Threads, NEW k \in Layers, NEW x \in Threads \ {u},
               writer'[u][k].pc \in Busy, writer'[u][k].name \notin raced,
               writer'[x][k].name = writer'[u][k].name, writer'[x][k].pc \in Busy
        PROVE FALSE
    <3>1. writer'[u][k] = W(u, k) /\ writer'[x][k] = W(x, k)
      BY <1>2, <2>1 DEF Busy
    <3>2. x \in Rivals(u, k) /\ W(u, k).pc \in Busy /\ W(u, k).name \notin raced
      BY <2>1, <3>1 DEF Rivals, Busy
    <3> QED
      BY <3>2 DEF IInv, TheirsAlone
  <2> QED
    BY <1>3, <2>1 DEF TheirsAlone, W, Rivals, Busy
<1>6. FilesWhole'
  BY <1>3 DEF IInv, FilesWhole, AbandonStep
<1> QED
  BY <1>1, <1>4, <1>5, <1>6

\* The temporary files of those that go on.
LEMMA AbandonTempInv ==
  ASSUME IInv, AbandonStep
  PROVE TempInv'
<1>1. setup' = setup /\ raced' = raced
  BY DEF AbandonStep
<1>2. \A k \in Layers : Objects(k)' <=> Objects(k)
  BY <1>1 DEF Objects
<1>3. SUFFICES ASSUME NEW k \in Layers, NEW m \in Names \ raced, NEW u \in Threads,
                      writer'[u][k].name = m
               PROVE TempOk(k, m, writer'[u][k], tmp'[k][m], file'[k][m])
  BY <1>1, <1>2 DEF TempInv, W, TempOk
<1>4. file'[k][m] = file[k][m]
  BY <1>3 DEF AbandonStep
<1>5. CASE writer'[u][k] = NoWriter
  BY <1>5, NoWriterIs DEF TempOk, Ready
<1>6. CASE writer'[u][k] = W(u, k)
  <2>1. TempOk(k, m, W(u, k), tmp[k][m], file[k][m])
    BY <1>3, <1>6 DEF IInv, TempInv
  <2>2. CASE tmp'[k][m] = tmp[k][m]
    BY <1>4, <1>6, <2>1, <2>2
  <2>3. CASE W(u, k).pc \notin Busy
    BY <1>4, <1>6, <2>1, <2>3 DEF TempOk, Ready, Busy
  <2> QED
    BY <1>3, <1>6, <2>2, <2>3 DEF AbandonStep
<1> QED
  BY <1>5, <1>6 DEF AbandonStep, W

\* What an output is to those that go on.
LEMMA AbandonLeaves ==
  ASSUME IInv, AbandonStep, NEW o \in Outputs, o # Empty, NEW k \in Layers
  PROVE /\ Kept(o) => Kept(o)'
        /\ StoredIn(k, o) => StoredIn(k, o)'
        /\ Resolved(k, o) => Resolved(k, o)'
<1>1. Output(o) \in Names /\ Local \in Layers /\ Remote \in Layers
  BY OutputIs, LayersAre
<1>2. setup' = setup /\ raced' = raced /\ lost' = lost
  BY DEF AbandonStep
<1>3. Output(o) \in raced \/ \A l \in Layers : file'[l][Output(o)] = file[l][Output(o)]
  BY <1>1 DEF AbandonStep
<1> QED
  BY <1>1, <1>2, <1>3 DEF Kept, StoredIn, Resolved, HasOutput, Intact, SizeOk, Mode

\* Outputs that were found are found.
LEMMA AbandonResolved ==
  ASSUME IInv, AbandonStep, NEW o \in Outputs, NEW k \in Layers, Resolved(k, o)
  PROVE Resolved(k, o)'
BY AbandonLeaves DEF Resolved

\* The entries.
LEMMA AbandonEntries ==
  ASSUME IInv, AbandonStep
  PROVE EntriesInv' /\ ResolveInv'
<1>1. setup' = setup /\ raced' = raced /\ lost' = lost /\ offered' = offered
  BY DEF AbandonStep
<1>2. \A u \in Threads, k \in Layers :
        writer'[u][k].pc \notin {"none", "ok", "failed"} => writer'[u][k] = W(u, k) /\ AtWork(u, k)
  BY NoWriterIs DEF AbandonStep, W, AtWork
<1>3. EntriesInv'
  <2>1. ASSUME NEW k \in Layers, NEW a \in Actions
        PROVE Names1(file[k][Entry(a)], a)' /\ Names1(tmp[k][Entry(a)], a)'
    <3>1. Entry(a) \in Names /\ ~(Absent.size > 0)
      BY EntryIs, AbsentIs
    <3>2. Names1(file[k][Entry(a)], a) /\ Names1(tmp[k][Entry(a)], a)
      BY DEF IInv, EntriesInv
    <3> QED
      BY <1>1, <3>1, <3>2 DEF AbandonStep, Names1
  <2>2. ASSUME NEW k \in Layers, NEW a \in Actions, NEW u \in Threads,
               writer'[u][k].pc \notin {"none", "ok", "failed"}, writer'[u][k].name = Entry(a)
        PROVE writer'[u][k].data[1] \in offered[a]
    BY <1>2, <2>2 DEF IInv, EntriesInv
  <2> QED
    BY <1>1, <2>1, <2>2 DEF EntriesInv, AtWork, W
<1>4. ASSUME NEW k \in Layers, NEW a \in Actions, Entry(a) \notin raced, NEW o,
             file'[k][Entry(a)] # Absent, o = file'[k][Entry(a)].data[1]
      PROVE Resolved(k, o)'
  <2>1. file'[k][Entry(a)] = file[k][Entry(a)]
    BY <1>4, EntryIs DEF AbandonStep
  <2>2. Resolved(k, o) /\ o \in Outputs
    BY <1>4, <2>1, EntryAtHand
  <2> QED
    BY <2>2, AbandonResolved
<1>5. ASSUME NEW k \in Layers, NEW a \in Actions, Entry(a) \notin raced, NEW u \in Threads, NEW o,
             writer'[u][k].pc \notin {"none", "ok", "failed"}, writer'[u][k].name = Entry(a),
             o = writer'[u][k].data[1]
      PROVE Resolved(k, o)'
  <2>1. Resolved(k, o) /\ o \in Outputs
    BY <1>2, <1>5, EntryAtHand
  <2> QED
    BY <2>1, AbandonResolved
<1>6. ASSUME NEW k \in Layers, NEW a \in Actions, Entry(a) \notin raced', file'[k][Entry(a)] # Absent
      PROVE Resolved(k, file[k][Entry(a)].data[1])'
  BY <1>1, <1>4, <1>6 DEF Resolved, StoredIn, HasOutput, SizeOk, Mode
<1>7. ASSUME NEW k \in Layers, NEW a \in Actions, Entry(a) \notin raced', NEW u \in Threads,
             AtWork(u, k)', W(u, k)'.name = Entry(a)
      PROVE Resolved(k, W(u, k).data[1])'
  BY <1>1, <1>5, <1>7 DEF Resolved, StoredIn, HasOutput, SizeOk, Mode, AtWork, W
<1> QED
  BY <1>3, <1>6, <1>7 DEF ResolveInv

\* The calls that go on.
LEMMA AbandonCalls ==
  ASSUME IInv, AbandonStep
  PROVE CallInv' /\ WaitInv'
<1>1. setup' = setup /\ raced' = raced /\ lost' = lost /\ offered' = offered
  BY DEF AbandonStep
<1>2. ASSUME NEW u \in Threads PROVE CallOk(thread'[u], offered)
  <2>1. CASE thread'[u] = thread[u]
    BY <2>1 DEF IInv, CallInv
  <2>2. CASE thread'[u] = NoCall
    BY <2>2, NoCallIs DEF CallOk, Getting, Putting
  <2> QED
    BY <2>1, <2>2 DEF AbandonStep
<1>3. CallInv'
  BY <1>1, <1>2 DEF CallInv, CallOk, Mode
<1>4. ASSUME NEW u \in Threads PROVE WaitOk(thread[u], writer[u])'
  <2>1. CASE thread'[u] = NoCall
    BY <2>1, NoCallIs DEF WaitOk
  <2>2. CASE thread'[u] = thread[u] /\ writer'[u] = writer[u]
    <3> DEFINE c == thread[u]
               ws == writer[u]
    <3>1. WaitOk(c, ws) /\ (c.pc \notin {"idle", "entry", "remote entry"} => c.out \in Outputs)
      BY Waiting
    <3>2. PICK p : p = c.out
      OBVIOUS
    <3>3. p \in Outputs /\ p # Empty => (Kept(p) => Kept(p)') /\ (StoredIn(Remote, p) => StoredIn(Remote, p)')
      BY AbandonLeaves, LayersAre
    <3>4. (Kept(p)' <=> Kept(thread[u].out)') /\ (StoredIn(Remote, p)' <=> StoredIn(Remote, thread[u].out)')
      BY <2>2, <3>2 DEF Kept, StoredIn, HasOutput
    <3>5. (Mode = "write-through")' <=> Mode = "write-through"
      BY <1>1 DEF Mode
    <3>6. Written' = Written
      BY <1>1 DEF Mode, Written
    <3> QED
      BY <2>2, <3>1, <3>2, <3>3, <3>4, <3>5, <3>6 DEF WaitOk, Running
  <2> QED
    BY <2>1, <2>2 DEF AbandonStep
<1> QED
  BY <1>3, <1>4 DEF WaitInv

\* One process ends: what its writers leave is as good as gone, if nobody else is at it.
LEMMA QuitKeeps ==
  ASSUME IInv, NEW t \in Threads, Quit(t)
  PROVE AbandonStep
<1> DEFINE none == [l \in Layers |-> NoWriter]
<1>1. /\ thread' = [u \in Threads |-> IF u \in {t} THEN NoCall ELSE thread[u]]
      /\ writer' = [u \in Threads |-> IF u \in {t} THEN none ELSE writer[u]]
      /\ tmp' = [l \in Layers |-> Left(t, l)]
      /\ UNCHANGED <<setup, file, offered, raced, lost>>
  BY DEF Quit, Abandon
<1>2. none \in [Layers -> Writers] /\ \A l \in Layers : none[l] = NoWriter
  BY NoWriterIs
<1> HIDE DEF none
<1>3. thread' \in [Threads -> Calls] /\ writer' \in [Threads -> [Layers -> Writers]]
  BY <1>1, <1>2, NoCallIs DEF IInv, TypeOK
<1>4. \A u \in Threads :
        \/ thread'[u] = thread[u] /\ writer'[u] = writer[u]
        \/ thread'[u] = NoCall /\ \A l \in Layers : writer'[u][l] = NoWriter
  BY <1>1, <1>2
<1>5. ASSUME NEW l \in Layers
      PROVE /\ Left(t, l) \in [Names -> Files]
            /\ \A m \in Names :
                 \/ Left(t, l)[m] = tmp[l][m]
                 \/ Left(t, l)[m] = Absent /\ m = W(t, l).name /\ Rivals(t, l) = {}
  <2>1. W(t, l).name \in Names /\ Absent \in Files /\ tmp[l] \in [Names -> Files]
    BY WriterIs, AbsentIs DEF IInv, TypeOK
  <2> DEFINE n == W(t, l).name
  <2> HIDE DEF n
  <2>2. CASE Rivals(t, l) = {}
    BY <2>1, <2>2 DEF Left, n
  <2>3. CASE Rivals(t, l) # {}
    BY <2>1, <2>3 DEF Left
  <2> QED
    BY <2>2, <2>3
<1>6. tmp' \in [Layers -> [Names -> Files]] /\ file' \in [Layers -> [Names -> Files]]
  BY <1>1, <1>5 DEF IInv, TypeOK
<1>7. ASSUME NEW k \in Layers, NEW m \in Names
      PROVE \/ tmp'[k][m] = tmp[k][m]
            \/ tmp'[k][m] = Absent /\ \A u \in Threads :
                 writer'[u][k].name = m => writer'[u][k].pc \notin Busy
  <2>1. \/ tmp'[k][m] = tmp[k][m]
        \/ tmp'[k][m] = Absent /\ m = W(t, k).name /\ Rivals(t, k) = {}
    BY <1>1, <1>5
  <2>2. ASSUME m = W(t, k).name, Rivals(t, k) = {}, NEW u \in Threads, writer'[u][k].name = m
        PROVE writer'[u][k].pc \notin Busy
    <3>1. CASE u = t
      BY <1>1, <1>2, <3>1, NoWriterIs DEF Busy
    <3>2. CASE u # t
      BY <1>1, <2>2, <3>2 DEF Rivals, Busy, W
    <3> QED
      BY <3>1, <3>2
  <2> QED
    BY <2>1, <2>2
<1>8. \A k \in Layers, m \in Names : file'[k][m] = file[k][m] /\ file'[k][m].size <= Pieces(m)
  BY <1>1, FileIs DEF IInv
<1> QED
  BY <1>1, <1>3, <1>4, <1>6, <1>7, <1>8 DEF AbandonStep

\* A file cut.
LEMMA CutIs ==
  ASSUME NEW f \in Files, NEW b \in Bytes
  PROVE LET g == [f EXCEPT !.size = 0, !.data = b] IN g \in Files /\ g.size = 0
<1>1. 0 \in -1 .. 2
  OBVIOUS
<1> QED
  BY <1>1 DEF Files

\* The machine stops: only files that were not flushed are cut, and those were raced for.
LEMMA CrashKeeps ==
  ASSUME IInv, Crash
  PROVE AbandonStep
<1> DEFINE none == [l \in Layers |-> NoWriter]
           Cut(f) == [f EXCEPT !.size = 0, !.data = Blank]
<1>1. PICK cut \in SUBSET {n \in Names : ~file[Local][n].synced} :
        file' = [file EXCEPT ![Local] = [n \in Names |-> IF n \in cut THEN Cut(@[n]) ELSE @[n]]]
  BY DEF Crash
<1>2. /\ thread' = [u \in Threads |-> IF u \in Threads THEN NoCall ELSE thread[u]]
      /\ writer' = [u \in Threads |-> IF u \in Threads THEN none ELSE writer[u]]
      /\ tmp' = [l \in Layers |-> [n \in Names |-> Absent]]
      /\ UNCHANGED <<setup, offered, raced, lost>>
  BY DEF Crash, Abandon
<1>3. none \in [Layers -> Writers] /\ \A l \in Layers : none[l] = NoWriter
  BY NoWriterIs
<1> HIDE DEF none
<1>4. thread' \in [Threads -> Calls] /\ writer' \in [Threads -> [Layers -> Writers]]
  BY <1>2, <1>3, NoCallIs
<1>5. \A u \in Threads : thread'[u] = NoCall /\ \A l \in Layers : writer'[u][l] = NoWriter
  BY <1>2, <1>3
<1>6. Local \in Layers /\ file[Local] \in [Names -> Files] /\ file \in [Layers -> [Names -> Files]]
  BY LayersAre DEF IInv, TypeOK
<1>7. \A f \in Files : Cut(f) \in Files /\ Cut(f).size = 0
  BY BlankIs, CutIs
<1> DEFINE fs == [n \in Names |-> IF n \in cut THEN Cut(file[Local][n]) ELSE file[Local][n]]
<1>8. file' = [file EXCEPT ![Local] = fs]
  BY <1>1, <1>6
<1> HIDE DEF Cut
<1>9. fs \in [Names -> Files] /\ \A n \in Names :
        fs[n] = IF n \in cut THEN Cut(file[Local][n]) ELSE file[Local][n]
  BY <1>6, <1>7
<1> HIDE DEF fs
<1>10. /\ file' \in [Layers -> [Names -> Files]] /\ file'[Local] = fs
       /\ \A k \in Layers : k # Local => file'[k] = file[k]
  BY <1>6, <1>8, <1>9
<1>11. ASSUME NEW k \in Layers, NEW m \in Names
       PROVE /\ file'[k][m].size <= Pieces(m)
             /\ file'[k][m] = file[k][m] \/ (m \in raced /\ ~(file'[k][m].size > 0))
  <2>1. file[k][m].size <= Pieces(m) /\ Pieces(m) \in 1 .. 2
    BY FileIs, NamesAre DEF IInv
  <2>2. CASE k # Local \/ m \notin cut
    BY <1>9, <1>10, <2>1, <2>2
  <2>3. CASE k = Local /\ m \in cut
    <3>1. file'[k][m] = Cut(file[Local][m]) /\ file[Local][m] \in Files
      BY <1>6, <1>9, <1>10, <2>3
    <3>2. file'[k][m].size = 0
      BY <1>7, <3>1
    <3>3. ~file[Local][m].synced
      BY <2>3
    <3>4. file[Local][m] # Absent
      BY <3>3 DEF Absent
    <3>5. m \in raced
      BY <1>6, <3>3, <3>4 DEF IInv, FilesWhole, Whole
    <3> QED
      BY <2>1, <3>2, <3>5
  <2> QED
    BY <2>2, <2>3
<1>12. \A k \in Layers, m \in Names : tmp'[k][m] = Absent
  BY <1>2
<1>13. tmp' \in [Layers -> [Names -> Files]]
  BY <1>2, AbsentIs
<1>14. \A u \in Threads, k \in Layers : writer'[u][k].pc \notin Busy
  BY <1>5, NoWriterIs DEF Busy
<1> QED
  BY <1>2, <1>4, <1>5, <1>10, <1>11, <1>12, <1>13, <1>14 DEF AbandonStep

\* Processes that end keep the invariant.
LEMMA AbandonInductive ==
  ASSUME IInv, Crash \/ \E t \in Threads : Quit(t)
  PROVE IInv'
<1>1. AbandonStep
  BY CrashKeeps, QuitKeeps
<1> QED
  BY <1>1, AbandonFiles, AbandonTempInv, AbandonEntries, AbandonCalls DEF IInv

-----------------------------------------------------------------------------
(***************************************************************************)
(* The invariant holds.                                                    *)
(***************************************************************************)

\* What was put earlier is there.
LEMMA EarlierIs ==
  ASSUME NEW old \in [Actions -> {NoOutput} \cup Outputs]
  PROVE /\ Earlier(old) \in [Names -> Files]
        /\ \A n \in Names :
             \/ Earlier(old)[n] = Absent
             \/ /\ Whole(Earlier(old)[n], n) /\ Earlier(old)[n].size <= Pieces(n)
                /\ n.kind = "a" => /\ Earlier(old)[n].data[1] = old[n.id] /\ old[n.id] # NoOutput
        /\ \A a \in Actions : old[a] # NoOutput /\ old[a] # Empty =>
             SizeOk(Earlier(old)[Output(old[a])], Output(old[a]))
<1>1. \A o \in Outputs :
        /\ Named(o) \in Files /\ Named(o).size = 1 /\ Named(o).synced /\ Named(o).data[1] = o
        /\ Stored(o) \in Files /\ Stored(o).size = 2 /\ Stored(o).synced
        /\ \A i \in 1 .. 2 : Stored(o).data[i] = o
  <2>1. ASSUME NEW o \in Outputs
        PROVE /\ [Blank EXCEPT ![1] = o] \in Bytes /\ [Blank EXCEPT ![1] = o][1] = o
              /\ [i \in 1 .. 2 |-> o] \in Bytes /\ \A i \in 1 .. 2 : [j \in 1 .. 2 |-> o][i] = o
    BY BlankIs DEF Bytes
  <2>2. 1 \in -1 .. 2 /\ 2 \in -1 .. 2
    OBVIOUS
  <2> QED
    BY <2>1, <2>2 DEF Named, Stored, Files
<1> DEFINE e(n) == CASE n.kind = "a" /\ old[n.id] # NoOutput -> Named(old[n.id])
                     [] n.kind = "d" /\ \E a \in Actions : old[a] = n.id -> Stored(n.id)
                     [] OTHER -> Absent
<1>2. Earlier(old) = [n \in Names |-> e(n)]
  BY DEF Earlier
<1>3. ASSUME NEW n \in Names
      PROVE /\ e(n) \in Files
            /\ \/ e(n) = Absent
               \/ /\ Whole(e(n), n) /\ e(n).size <= Pieces(n)
                  /\ n.kind = "a" => e(n).data[1] = old[n.id] /\ old[n.id] # NoOutput
  <2>1. CASE n.kind = "a" /\ n.id \in Actions /\ Pieces(n) = 1
    <3>1. CASE old[n.id] # NoOutput
      <4>1. e(n) = Named(old[n.id])
        BY <2>1, <3>1
      <4>2. old[n.id] \in Outputs
        BY <2>1, <3>1
      <4>3. Whole(e(n), n)
        BY <1>1, <2>1, <4>1, <4>2 DEF Whole, SizeOk
      <4> QED
        BY <1>1, <2>1, <3>1, <4>1, <4>2, <4>3
    <3>2. CASE old[n.id] = NoOutput
      <4>1. e(n) = Absent
        BY <2>1, <3>2
      <4> QED
        BY <4>1, AbsentIs
    <3> QED
      BY <3>1, <3>2
  <2>2. CASE n.kind = "d" /\ n.id \in Outputs /\ Pieces(n) = 2
    <3>1. CASE \E a \in Actions : old[a] = n.id
      <4>1. e(n) = Stored(n.id)
        BY <2>2, <3>1
      <4>2. Whole(e(n), n)
        BY <1>1, <2>2, <4>1 DEF Whole, SizeOk
      <4> QED
        BY <1>1, <2>2, <4>1, <4>2
    <3>2. CASE ~\E a \in Actions : old[a] = n.id
      <4>1. e(n) = Absent
        BY <2>2, <3>2
      <4> QED
        BY <4>1, AbsentIs
    <3> QED
      BY <3>1, <3>2
  <2> QED
    BY <2>1, <2>2, NamesAre
<1>4. ASSUME NEW a \in Actions, old[a] # NoOutput, old[a] # Empty
      PROVE Output(old[a]) \in Names /\ SizeOk(e(Output(old[a])), Output(old[a]))
  <2> DEFINE n == Output(old[a])
  <2>1. old[a] \in Outputs
    BY <1>4
  <2>2. n \in Names /\ n.kind = "d" /\ n.id = old[a] /\ Pieces(n) = 2
    BY <1>4, <2>1, OutputIs
  <2>3. e(n) = Stored(old[a])
    BY <2>2
  <2> QED
    BY <1>1, <2>1, <2>2, <2>3 DEF SizeOk
<1> HIDE DEF e
<1> QED
  BY <1>2, <1>3, <1>4

\* At first.
LEMMA InitIs ==
  ASSUME Init
  PROVE /\ setup \in Setups
        /\ file \in [Layers -> [Names -> Files]] /\ tmp \in [Layers -> [Names -> Files]]
        /\ offered \in [Actions -> SUBSET Outputs] /\ raced = {} /\ lost = {}
        /\ writer \in [Threads -> [Layers -> Writers]] /\ thread \in [Threads -> Calls]
        /\ \A t \in Threads : thread[t] = NoCall /\ \A l \in Layers : W(t, l) = NoWriter
        /\ \A l \in Layers, n \in Names :
             /\ tmp[l][n] = Absent
             /\ \/ file[l][n] = Absent
                \/ l = Remote /\ Whole(file[l][n], n) /\ file[l][n].size <= Pieces(n)
        /\ \A a \in Actions : LET f == file[Remote][Entry(a)] IN
             f # Absent =>
               /\ f.data[1] \in offered[a]
               /\ f.data[1] # Empty => HasOutput(Remote, f.data[1])
<1>1. setup \in Setups /\ setup.puts \subseteq Outputs
  BY SetupsAssumption DEF Init
<1>2. PICK old \in [Actions -> {NoOutput} \cup IF Mode = "disk" THEN {} ELSE setup.puts] :
        /\ file = [l \in Layers |-> IF l = Local THEN [n \in Names |-> Absent]
                                                 ELSE Earlier(old)]
        /\ offered = [a \in Actions |-> {old[a]} \ {NoOutput}]
  BY DEF Init
<1>3. old \in [Actions -> {NoOutput} \cup Outputs]
  BY <1>1
<1>4. /\ Earlier(old) \in [Names -> Files]
      /\ \A n \in Names :
           \/ Earlier(old)[n] = Absent
           \/ /\ Whole(Earlier(old)[n], n) /\ Earlier(old)[n].size <= Pieces(n)
              /\ n.kind = "a" => /\ Earlier(old)[n].data[1] = old[n.id] /\ old[n.id] # NoOutput
      /\ \A a \in Actions : old[a] # NoOutput /\ old[a] # Empty =>
           SizeOk(Earlier(old)[Output(old[a])], Output(old[a]))
  BY <1>3, EarlierIs
<1>5. /\ file \in [Layers -> [Names -> Files]]
      /\ \A n \in Names : file[Local][n] = Absent
      /\ file[Remote] = Earlier(old)
  BY <1>2, <1>4, AbsentIs, LayersAre DEF Layers, Local, Remote
<1>6. offered \in [Actions -> SUBSET Outputs]
  BY <1>2, <1>3
<1>7. /\ tmp = [l \in Layers |-> [n \in Names |-> Absent]]
      /\ writer = [t \in Threads |-> [l \in Layers |-> NoWriter]]
      /\ thread = [t \in Threads |-> NoCall] /\ raced = {} /\ lost = {}
  BY DEF Init
<1>8. /\ tmp \in [Layers -> [Names -> Files]] /\ writer \in [Threads -> [Layers -> Writers]]
      /\ thread \in [Threads -> Calls]
      /\ \A t \in Threads : thread[t] = NoCall /\ \A l \in Layers : W(t, l) = NoWriter
      /\ \A l \in Layers, n \in Names : tmp[l][n] = Absent
  BY <1>7, AbsentIs, NoWriterIs, NoCallIs DEF W
<1>9. \A l \in Layers, n \in Names :
        \/ file[l][n] = Absent
        \/ l = Remote /\ Whole(file[l][n], n) /\ file[l][n].size <= Pieces(n)
  BY <1>4, <1>5 DEF Layers
<1>10. ASSUME NEW a \in Actions, file[Remote][Entry(a)] # Absent
       PROVE LET f == file[Remote][Entry(a)] IN
               /\ f.data[1] \in offered[a]
               /\ f.data[1] # Empty => HasOutput(Remote, f.data[1])
  <2>1. file[Remote][Entry(a)].data[1] = old[a] /\ old[a] # NoOutput
    BY <1>4, <1>5, <1>10, EntryIs
  <2> QED
    BY <1>2, <1>4, <1>5, <2>1 DEF HasOutput
<1> QED
  BY <1>1, <1>5, <1>6, <1>7, <1>8, <1>9, <1>10

\* The invariant holds at first.
LEMMA InitInv ==
  ASSUME Init
  PROVE IInv
<1>1. TypeOK
  <2>1. ASSUME NEW l \in Layers, NEW n \in Names
        PROVE file[l][n].size <= Pieces(n) /\ tmp[l][n].size <= Pieces(n)
    <3>1. Absent.size <= Pieces(n)
      BY AbsentIs, NamesAre
    <3> QED
      BY <3>1, InitIs
  <2> QED
    BY <2>1, InitIs DEF TypeOK
<1>2. WriterInv /\ TheirsAlone /\ TempInv
  BY InitIs, NoWriterIs DEF WriterInv, TheirsAlone, TempInv, TempOk, AtWork, Busy, Ready
<1>3. FilesWhole
  BY InitIs DEF FilesWhole
<1>4. EntriesInv
  <2>1. ASSUME NEW l \in Layers, NEW a \in Actions
        PROVE Names1(file[l][Entry(a)], a) /\ Names1(tmp[l][Entry(a)], a)
    <3>1. Entry(a) \in Names /\ ~(Absent.size > 0)
      BY EntryIs, AbsentIs
    <3> QED
      BY <3>1, InitIs DEF Names1
  <2> QED
    BY <2>1, InitIs, NoWriterIs DEF EntriesInv, AtWork
<1>5. ResolveInv
  <2>1. ASSUME NEW l \in Layers, NEW a \in Actions, file[l][Entry(a)] # Absent
        PROVE Resolved(l, file[l][Entry(a)].data[1])
    <3>1. l = Remote
      BY <2>1, InitIs, EntryIs
    <3> QED
      BY <2>1, <3>1, InitIs DEF Resolved, StoredIn
  <2> QED
    BY <2>1, InitIs, NoWriterIs DEF ResolveInv, AtWork
<1>6. CallInv /\ WaitInv
  BY InitIs, NoCallIs DEF CallInv, CallOk, WaitInv, WaitOk, Getting, Putting
<1> QED
  BY <1>1, <1>2, <1>3, <1>4, <1>5, <1>6 DEF IInv

\* Every step keeps it.
LEMMA NextInv ==
  ASSUME IInv, [Next]_vars
  PROVE IInv'
<1>1. CASE \E t \in Threads, l \in Layers : Writes(t, l)
  BY <1>1, WritesInductive
<1>2. CASE \E t \in Threads : Gets(t) \/ Puts(t)
  BY <1>2, CallsInductive
<1>3. CASE \E t \in Threads, a \in Actions : Get(t, a) \/ \E o \in Outputs : Put(t, a, o)
  BY <1>3, CallsInductive
<1>4. CASE Crash \/ \E t \in Threads : Quit(t)
  BY <1>4, AbandonInductive
<1>5. CASE UNCHANGED vars
  <2>1. /\ setup' = setup /\ file' = file /\ tmp' = tmp /\ writer' = writer /\ thread' = thread
        /\ offered' = offered /\ raced' = raced /\ lost' = lost
    BY <1>5 DEF vars
  <2>2. TypeOK' /\ WriterInv' /\ TheirsAlone' /\ FilesWhole' /\ EntriesInv'
    BY <2>1 DEF IInv, TypeOK, WriterInv, TheirsAlone, FilesWhole, EntriesInv, Names1, AtWork,
       Rivals, Objects, W, Mode
  <2>3. TempInv'
    <3>1. \A k \in Layers : Objects(k)' <=> Objects(k)
      BY <2>1 DEF Objects
    <3>2. SUFFICES ASSUME NEW k \in Layers, NEW m \in Names \ raced, NEW u \in Threads,
                          W(u, k).name = m
                   PROVE TempOk(k, m, W(u, k), tmp[k][m], file[k][m])
      BY <2>1, <3>1 DEF TempInv, TempOk, W
    <3> QED
      BY <3>2 DEF IInv, TempInv
  <2>4. ResolveInv'
    BY SMTT(40), <2>1 DEF IInv, ResolveInv, Resolved, StoredIn, HasOutput, SizeOk, AtWork, W, Mode
  <2>5. CallInv'
    BY <2>1 DEF IInv, CallInv, CallOk, Mode
  <2>6. WaitInv'
    BY <2>1 DEF IInv, WaitInv, WaitOk, Kept, StoredIn, HasOutput, Intact, SizeOk, Mode, Written
  <2> QED
    BY <2>2, <2>3, <2>4, <2>5, <2>6 DEF IInv
<1> QED
  BY <1>1, <1>2, <1>3, <1>4, <1>5 DEF Next

\* The storage is always in a state the invariant describes: names nobody raced for have
\* one writer at most, their files are whole, and entries lead to outputs.
THEOREM StorageInductive == Spec => []IInv
<1>1. Init => IInv
  BY InitInv
<1>2. IInv /\ [Next]_vars => IInv'
  BY NextInv
<1> QED
  BY <1>1, <1>2, PTL DEF Spec

\* The variables have the values they may have.
THEOREM TypeCorrect == Spec => []TypeOK
<1>1. IInv => TypeOK
  BY DEF IInv
<1> QED
  BY <1>1, StorageInductive, PTL

\* Whatever crashes, fails or is abandoned, and however many processes share the
\* directories, every entry leads to its output.
THEOREM EntryResolvesCorrect == Spec => []EntryResolves
<1>1. ASSUME IInv PROVE EntryResolves
  <2>1. SUFFICES ASSUME NEW l \in Layers, NEW a \in Actions,
                        file[l][Entry(a)] # Absent, Entry(a) \notin raced
                 PROVE LET o == file[l][Entry(a)].data[1] IN
                         /\ HasEntry(l, a) /\ o \in offered[a]
                         /\ \/ o = Empty \/ Output(o) \in raced \cup lost
                            \/ HasOutput(l, o)
                            \/ l = Local /\ Mode # "disk" /\ HasOutput(Remote, o)
    BY DEF EntryResolves
  <2>2. /\ file[l][Entry(a)].size = 1 /\ Resolved(l, file[l][Entry(a)].data[1])
        /\ file[l][Entry(a)].data[1] \in offered[a] /\ Pieces(Entry(a)) = 1
    BY <1>1, <2>1, EntryAtHand
  <2> QED
    BY <2>2 DEF HasEntry, SizeOk, Resolved, StoredIn
<1> QED
  BY <1>1, StorageInductive, PTL

-----------------------------------------------------------------------------
(***************************************************************************)
(* The storage is the map its clients are promised.                        *)
(***************************************************************************)

\* The outputs there is a file of, and what a client sees of its call.
HeldNow == {o \in Outputs \ {Empty} : Output(o) \in raced \/ Intact(file[Local][Output(o)], o)}
Seen(c) == [op |-> c.op, act |-> c.act, res |-> c.res,
            out |-> IF c.res = "none" THEN NoOutput ELSE c.out]
CallsSeen == [t \in Threads |-> Seen(thread[t])]

\* They are what the map's variables stand for.
LEMMA MapVars ==
  /\ Map!vars = <<offered, HeldNow, CallsSeen>>
  /\ HeldNow = {o \in Outputs \ {Empty} : Kept(o)}
BY DEF Map!vars, HeldNow, CallsSeen, Seen, Kept

\* A step in the map's own terms.
MapStep ==
  \/ UNCHANGED <<offered, HeldNow, CallsSeen>>
  \/ /\ UNCHANGED <<offered, CallsSeen>>
     /\ \E o \in Outputs : HeldNow' = HeldNow \cup {o}

\* A writer's step may give an output a file, and takes none away.
LEMMA WritesMap ==
  ASSUME IInv, NEW t \in Threads, NEW l \in Layers, Writes(t, l)
  PROVE MapStep
<1> DEFINE n == W(t, l).name
<1>1. WriteStep(t, l)
  BY WritesKeep
<1>2. /\ WriteTypes(l, n) /\ WriteElsewhere(t, l, n) /\ offered' = offered /\ thread' = thread
  BY <1>1, WriteStepIs
<1>3. CallsSeen' = CallsSeen
  BY <1>2 DEF CallsSeen, Seen
<1>4. ASSUME NEW o \in Outputs, o # Empty
      PROVE /\ Kept(o) => Kept(o)'
            /\ Output(o) # n => (Kept(o)' => Kept(o))
  <2>1. Kept(o) => Kept(o)'
    BY <1>1, <1>4, WriteKept
  <2>2. ASSUME Output(o) # n, Kept(o)' PROVE Kept(o)
    <3>1. Output(o) \in Names /\ Local \in Layers
      BY <1>4, OutputIs, LayersAre
    <3>2. file'[Local][Output(o)] = file[Local][Output(o)]
      BY <1>2, <2>2, <3>1 DEF WriteElsewhere
    <3>3. Output(o) \in raced' => Output(o) \in raced
      BY <1>2, <2>2 DEF WriteTypes
    <3> QED
      BY <2>2, <3>2, <3>3 DEF Kept, Intact, SizeOk
  <2> QED
    BY <2>1, <2>2
<1>5. /\ HeldNow = {o \in Outputs \ {Empty} : Kept(o)}
      /\ HeldNow' = {o \in Outputs \ {Empty} : Kept(o)'}
  BY DEF HeldNow, Kept
<1>6. CASE \E o \in Outputs \ {Empty} : Output(o) = n /\ Kept(o)'
  <2>1. PICK o \in Outputs \ {Empty} : Output(o) = n /\ Kept(o)'
    BY <1>6
  <2>2. \A p \in Outputs \ {Empty} : Output(p) = n => p = o
    BY <2>1, OutputIs
  <2>3. HeldNow' = HeldNow \cup {o}
    BY <1>4, <1>5, <2>1, <2>2
  <2> QED
    BY <1>2, <1>3, <2>3 DEF MapStep
<1>7. CASE ~\E o \in Outputs \ {Empty} : Output(o) = n /\ Kept(o)'
  <2>1. HeldNow' = HeldNow
    BY <1>4, <1>5, <1>7
  <2> QED
    BY <1>2, <1>3, <2>1 DEF MapStep
<1> QED
  BY <1>6, <1>7

\* Such a step is one of the map.
LEMMA MapStepIs ==
  ASSUME MapStep
  PROVE [Map!Next]_Map!vars
<1>1. CASE UNCHANGED <<offered, HeldNow, CallsSeen>>
  BY <1>1, MapVars DEF Map!vars, HeldNow, CallsSeen, Seen
<1>2. CASE UNCHANGED <<offered, CallsSeen>> /\ \E o \in Outputs : HeldNow' = HeldNow \cup {o}
  <2>1. PICK o \in Outputs : HeldNow' = HeldNow \cup {o}
    BY <1>2
  <2>2. Map!Hold(o)
    BY <1>2, <2>1 DEF Map!Hold, HeldNow, CallsSeen, Seen
  <2> QED
    BY <2>2 DEF Map!Next
<1> QED
  BY <1>1, <1>2 DEF MapStep

\* What a step of a call is to its client.
LEMMA SeenStep ==
  ASSUME IInv, NEW t \in Threads, CallStep(t)
  PROVE /\ HeldNow' = HeldNow
        /\ CallsSeen' = [CallsSeen EXCEPT ![t] = Seen(thread'[t])]
<1>1. /\ file' = file /\ raced' = raced /\ thread' \in [Threads -> Calls]
      /\ \A u \in Threads \ {t} : thread'[u] = thread[u]
  BY DEF CallStep
<1>2. HeldNow' = HeldNow
  BY <1>1 DEF HeldNow, Intact, SizeOk
<1>3. CallsSeen' = [u \in Threads |-> Seen(thread'[u])]
  BY DEF CallsSeen, Seen
<1>4. \A u \in Threads \ {t} : Seen(thread'[u]) = Seen(thread[u])
  BY <1>1
<1> QED
  BY <1>2, <1>3, <1>4 DEF CallsSeen

\* One that only goes on is none.
LEMMA GoMap ==
  ASSUME IInv, NEW t \in Threads, CallStep(t), offered' = offered,
         thread'[t].op = thread[t].op, thread'[t].act = thread[t].act,
         thread[t].res = "none", thread'[t].res = "none"
  PROVE MapStep
<1>1. Seen(thread'[t]) = CallsSeen[t]
  BY DEF Seen, CallsSeen
<1>2. CallsSeen' = CallsSeen
  BY <1>1, SeenStep DEF CallsSeen
<1> QED
  BY <1>2, SeenStep DEF MapStep

\* A call is answered.
LEMMA AnswerSeen ==
  ASSUME IInv, NEW t \in Threads, NEW r \in {"hit", "miss", "ok", "failed"}, Answer(t, r), Quiet
  PROVE /\ HeldNow' = HeldNow /\ offered' = offered
        /\ CallsSeen' = [CallsSeen EXCEPT ![t].res = r,
                           ![t].out = IF r \in {"hit", "ok"} THEN thread[t].out ELSE NoOutput]
<1> DEFINE c == thread[t]
           o == IF r \in {"hit", "ok"} THEN c.out ELSE NoOutput
<1>1. CallStep(t)
  BY AnswerStep
<1>2. /\ thread'[t].op = c.op /\ thread'[t].act = c.act /\ thread'[t].res = r /\ thread'[t].out = o
  BY DEF Answer, IInv, TypeOK, Calls
<1>3. Seen(thread'[t]) = [op |-> c.op, act |-> c.act, res |-> r, out |-> o]
  BY <1>2 DEF Seen
<1>4. /\ CallsSeen = [u \in Threads |-> CallsSeen[u]]
      /\ CallsSeen[t] = [op |-> c.op, act |-> c.act, res |-> c.res,
                         out |-> IF c.res = "none" THEN NoOutput ELSE c.out]
  BY DEF CallsSeen, Seen
<1>5. [CallsSeen EXCEPT ![t].res = r, ![t].out = o] = [CallsSeen EXCEPT ![t] = Seen(thread'[t])]
  <2> DEFINE cs == CallsSeen
             op == c.op
             act == c.act
             res == c.res
             out == IF c.res = "none" THEN NoOutput ELSE c.out
  <2> HIDE DEF cs, op, act, res, out, o
  <2>1. cs[t] = [op |-> op, act |-> act, res |-> res, out |-> out]
    BY <1>4 DEF cs, op, act, res, out
  <2>2. cs = [u \in Threads |-> cs[u]]
    BY <1>4 DEF cs
  <2>3. [cs[t] EXCEPT !.res = r] = [op |-> op, act |-> act, res |-> r, out |-> out]
    BY <2>1
  <2>4. [[op |-> op, act |-> act, res |-> r, out |-> out] EXCEPT !.out = o] =
          [op |-> op, act |-> act, res |-> r, out |-> o]
    OBVIOUS
  <2>5. [cs EXCEPT ![t].res = r, ![t].out = o] =
          [cs EXCEPT ![t] = [[cs[t] EXCEPT !.res = r] EXCEPT !.out = o]]
    BY <2>2
  <2> QED
    BY <1>3, <2>3, <2>4, <2>5 DEF cs, op, act
<1> QED
  BY <1>1, <1>5, SeenStep DEF Quiet

\* It is a call of the map under way.
LEMMA UnderIs ==
  ASSUME NEW t \in Threads, NEW op
  PROVE Map!Under(t, op) <=> thread[t].op = op /\ thread[t].res = "none"
BY DEF Map!Under

\* A get that misses, and a put that fails.
LEMMA FailsMap ==
  ASSUME IInv, NEW t \in Threads, Quiet, thread[t].res = "none",
         \/ thread[t].op = "get" /\ Answer(t, "miss")
         \/ thread[t].op = "put" /\ Answer(t, "failed")
  PROVE [Map!Next]_Map!vars
<1>1. CASE thread[t].op = "get" /\ Answer(t, "miss")
  <2>1. /\ HeldNow' = HeldNow /\ offered' = offered
        /\ CallsSeen' = [CallsSeen EXCEPT ![t].res = "miss", ![t].out = NoOutput]
    BY <1>1, AnswerSeen
  <2>2. Map!Answer(t, "miss", NoOutput)
    BY <2>1 DEF Map!Answer, CallsSeen, Seen
  <2>3. Map!Fails(t)
    BY <1>1, <2>1, <2>2, UnderIs DEF Map!Fails, HeldNow
  <2> QED
    BY <2>3 DEF Map!Next
<1>2. CASE thread[t].op = "put" /\ Answer(t, "failed")
  <2>1. /\ HeldNow' = HeldNow /\ offered' = offered
        /\ CallsSeen' = [CallsSeen EXCEPT ![t].res = "failed", ![t].out = NoOutput]
    BY <1>2, AnswerSeen
  <2>2. Map!Answer(t, "failed", NoOutput)
    BY <2>1 DEF Map!Answer, CallsSeen, Seen
  <2>3. Map!Fails(t)
    BY <1>2, <2>1, <2>2, UnderIs DEF Map!Fails, HeldNow
  <2> QED
    BY <2>3 DEF Map!Next
<1> QED
  BY <1>1, <1>2

\* A hit names an output that was offered, and whose file is there.
LEMMA HitMap ==
  ASSUME IInv, NEW t \in Threads, Quiet, thread[t].res = "none", thread[t].op = "get",
         Answer(t, "hit"), thread[t].out \in offered[thread[t].act], thread[t].out \in HeldNow
  PROVE [Map!Next]_Map!vars
<1> DEFINE o == thread[t].out
<1>1. /\ HeldNow' = HeldNow /\ offered' = offered
      /\ CallsSeen' = [CallsSeen EXCEPT ![t].res = "hit", ![t].out = o]
  BY AnswerSeen
<1>2. Map!Answer(t, "hit", o)
  BY <1>1 DEF Map!Answer, CallsSeen, Seen
<1>3. CallsSeen[t].act = thread[t].act
  BY DEF CallsSeen, Seen
<1>4. Map!Under(t, "get")
  BY UnderIs
<1>5. o \in offered[CallsSeen[t].act] \cap HeldNow
  BY <1>3
<1>6. Map!Hit(t)
  <2>1. \E p \in offered[CallsSeen[t].act] \cap HeldNow : Map!Answer(t, "hit", p)
    <3>1. \E p \in offered[CallsSeen[t].act] \cap HeldNow :
            CallsSeen' = [CallsSeen EXCEPT ![t].res = "hit", ![t].out = p]
      <4> HIDE DEF o
      <4> QED
        BY <1>1, <1>5
    <3> QED
      BY <3>1 DEF Map!Answer, CallsSeen, Seen
  <2> QED
    BY <1>1, <1>4, <2>1 DEF Map!Hit, HeldNow, CallsSeen, Seen
<1> QED
  BY <1>6 DEF Map!Next

\* So does a put that succeeds, but for the output without bytes.
LEMMA StoredMap ==
  ASSUME IInv, NEW t \in Threads, Quiet, thread[t].res = "none", thread[t].op = "put",
         Answer(t, "ok"), thread[t].out \in offered[thread[t].act],
         thread[t].out \in HeldNow \cup {Empty}
  PROVE [Map!Next]_Map!vars
<1> DEFINE o == thread[t].out
<1>1. /\ HeldNow' = HeldNow /\ offered' = offered
      /\ CallsSeen' = [CallsSeen EXCEPT ![t].res = "ok", ![t].out = o]
  BY AnswerSeen
<1>2. Map!Answer(t, "ok", o)
  BY <1>1 DEF Map!Answer, CallsSeen, Seen
<1>3. CallsSeen[t].act = thread[t].act
  BY DEF CallsSeen, Seen
<1>4. Map!Under(t, "put")
  BY UnderIs
<1>5. o \in offered[CallsSeen[t].act] \cap (HeldNow \cup {Empty})
  BY <1>3
<1>6. Map!Stored(t)
  <2>1. \E p \in offered[CallsSeen[t].act] \cap (HeldNow \cup {Empty}) : Map!Answer(t, "ok", p)
    <3>1. \E p \in offered[CallsSeen[t].act] \cap (HeldNow \cup {Empty}) :
            CallsSeen' = [CallsSeen EXCEPT ![t].res = "ok", ![t].out = p]
      <4> HIDE DEF o
      <4> QED
        BY <1>1, <1>5
    <3> QED
      BY <3>1 DEF Map!Answer, CallsSeen, Seen
  <2> QED
    BY <1>1, <1>4, <2>1 DEF Map!Stored, HeldNow, CallsSeen, Seen
<1> QED
  BY <1>6 DEF Map!Next

\* What a call has when it goes on is what it had, and its client does not see where it is.
LEMMA GoesOn ==
  ASSUME IInv, NEW t \in Threads, CallStep(t), Quiet, thread[t].res = "none",
         \/ \E pc : Goto(t, pc)
         \/ \E pc, o : thread' = [thread EXCEPT ![t].pc = pc, ![t].out = o]
  PROVE [Map!Next]_Map!vars
<1>1. thread[t] \in Calls /\ thread \in [Threads -> Calls]
  BY DEF IInv, TypeOK
<1>2. /\ thread'[t].op = thread[t].op /\ thread'[t].act = thread[t].act
      /\ thread'[t].res = thread[t].res
  BY ZenonT(60), <1>1 DEF Goto, Calls
<1>3. offered' = offered
  BY DEF Quiet
<1> QED
  BY <1>2, <1>3, GoMap, MapStepIs

\* A call begins.
LEMMA BeginsSeen ==
  ASSUME IInv, NEW t \in Threads, NEW op, NEW a, NEW o, NEW pc, CallStep(t),
         At(t, "idle"), Begin(t, op, a, o, pc), op \in {"get", "put"}
  PROVE /\ HeldNow' = HeldNow /\ ~Map!Under(t, "get") /\ ~Map!Under(t, "put")
        /\ CallsSeen' = [CallsSeen EXCEPT ![t] = Map!Call(op, a)]
<1>1. thread[t].op = "none" \/ thread[t].res # "none"
  BY Waiting DEF CallOk, At
<1>2. ~Map!Under(t, "get") /\ ~Map!Under(t, "put")
  BY <1>1, UnderIs
<1>3. thread'[t] = [op |-> op, act |-> a, out |-> o, pc |-> pc, res |-> "none"]
  BY DEF Begin, IInv, TypeOK
<1>4. Seen(thread'[t]) = Map!Call(op, a)
  BY <1>3 DEF Seen, Map!Call
<1> QED
  BY <1>2, <1>4, SeenStep

\* A get begins.
LEMMA GetMap ==
  ASSUME IInv, NEW t \in Threads, NEW a \in Actions, Get(t, a)
  PROVE [Map!Next]_Map!vars
<1>1. CallStep(t) /\ At(t, "idle") /\ Begin(t, "get", a, NoOutput, "entry") /\ Quiet
  BY GetKeeps DEF Get
<1>2. /\ HeldNow' = HeldNow /\ ~Map!Under(t, "get") /\ ~Map!Under(t, "put")
      /\ CallsSeen' = [CallsSeen EXCEPT ![t] = Map!Call("get", a)]
  BY <1>1, BeginsSeen
<1>3. Map!Get(t, a)
  BY <1>1, <1>2 DEF Map!Get, Quiet, CallsSeen, Seen, HeldNow
<1> QED
  BY <1>3 DEF Map!Next

\* A put begins, and offers its output.
LEMMA PutMap ==
  ASSUME IInv, NEW t \in Threads, NEW a \in Actions, NEW o \in Outputs, Put(t, a, o)
  PROVE [Map!Next]_Map!vars
<1>1. CallStep(t) /\ At(t, "idle") /\ offered' = [offered EXCEPT ![a] = @ \cup {o}]
  BY PutKeeps DEF Put
<1>2. Begin(t, "put", a, o, "put entry") \/ Begin(t, "put", a, o, "put output")
  BY DEF Put
<1>3. /\ HeldNow' = HeldNow /\ ~Map!Under(t, "get") /\ ~Map!Under(t, "put")
      /\ CallsSeen' = [CallsSeen EXCEPT ![t] = Map!Call("put", a)]
  BY <1>1, <1>2, BeginsSeen
<1>4. Map!Put(t, a, o)
  BY <1>1, <1>3 DEF Map!Put, CallsSeen, Seen, HeldNow
<1> QED
  BY <1>4 DEF Map!Next

\* Of a local file of the right size the output is held.
LEMMA FoundHeld ==
  ASSUME IInv, NEW o \in Outputs, HasOutput(Local, o)
  PROVE o \in HeldNow
<1> DEFINE n == Output(o)
<1>1. o # Empty /\ SizeOk(file[Local][n], n) /\ Local \in Layers
  BY LayersAre DEF HasOutput
<1>2. n \in Names /\ n.kind = "d" /\ n.id = o /\ Pieces(n) = 2
  BY <1>1, OutputIs
<1>3. file[Local][n] # Absent
  BY <1>1, <1>2, AbsentIs DEF SizeOk
<1>4. n \notin raced => Whole(file[Local][n], n)
  BY <1>1, <1>2, <1>3 DEF IInv, FilesWhole
<1>5. Kept(o)
  BY <1>1, <1>2, <1>4 DEF Kept, Intact, Whole
<1> QED
  BY <1>1, <1>5 DEF HeldNow, Kept

\* The steps of a get.
LEMMA GetsMap ==
  ASSUME IInv, NEW t \in Threads, Gets(t)
  PROVE [Map!Next]_Map!vars
<1>1. CallStep(t) /\ Quiet
  BY ReadEntryKeeps, ReadRemoteEntryKeeps, EntryCopiedKeeps, CheckOutputKeeps,
     CheckRemoteOutputKeeps, OutputCopiedKeeps
     DEF Gets, ReadEntry, ReadRemoteEntry, EntryCopied, CheckOutput, CheckRemoteOutput, OutputCopied
<1>2. thread[t].pc \in Getting
  BY DEF Gets, ReadEntry, ReadRemoteEntry, EntryCopied, CheckOutput, CheckRemoteOutput,
     OutputCopied, At, Getting
<1>3. /\ thread[t].op = "get" /\ thread[t].res = "none"
      /\ thread[t].pc \in {"output", "copy output"} =>
           thread[t].out \in Outputs /\ thread[t].out \in offered[thread[t].act]
  BY <1>2, Waiting DEF CallOk, Getting
<1>4. CASE Answer(t, "miss")
  BY <1>1, <1>3, <1>4, FailsMap
<1>5. CASE \/ \E pc : Goto(t, pc)
           \/ \E pc, o : thread' = [thread EXCEPT ![t].pc = pc, ![t].out = o]
  BY <1>1, <1>3, <1>5, GoesOn
<1>6. CASE Answer(t, "hit") /\ At(t, "output") /\ HasOutput(Local, thread[t].out)
  <2>1. thread[t].out \in offered[thread[t].act] /\ thread[t].out \in Outputs
    BY <1>3, <1>6 DEF At
  <2>2. thread[t].out \in HeldNow
    <3>1. PICK o \in Outputs : o = thread[t].out
      BY <2>1
    <3> QED
      BY <1>6, <3>1, FoundHeld
  <2> QED
    BY <1>1, <1>3, <1>6, <2>1, <2>2, HitMap
<1>7. CASE Answer(t, "hit") /\ At(t, "copy output") /\ AllOk(t, {Local})
  <2>1. thread[t].out \in offered[thread[t].act] /\ thread[t].out \in Outputs
    BY <1>3, <1>7 DEF At
  <2>2. writer[t][Local].pc = "ok"
    BY <1>7 DEF AllOk, WAt, W
  <2>3. thread[t].out # Empty /\ Kept(thread[t].out)
    BY <1>7, <2>2, Waiting DEF WaitOk, At
  <2>4. thread[t].out \in HeldNow
    BY <2>1, <2>3 DEF HeldNow, Kept
  <2> QED
    BY <1>1, <1>3, <1>7, <2>1, <2>4, HitMap
<1> QED
  BY <1>4, <1>5, <1>6, <1>7
     DEF Gets, ReadEntry, ReadRemoteEntry, EntryCopied, CheckOutput, CheckRemoteOutput, OutputCopied

\* The steps of a put.
LEMMA PutsMap ==
  ASSUME IInv, NEW t \in Threads, Puts(t)
  PROVE [Map!Next]_Map!vars
<1>1. CallStep(t) /\ Quiet
  BY OutputPutKeeps, EntryPutKeeps, RemoteEntryPutKeeps DEF Puts, OutputPut, EntryPut, RemoteEntryPut
<1>2. thread[t].pc \in Putting
  BY DEF Puts, OutputPut, EntryPut, RemoteEntryPut, At, Putting
<1>3. /\ thread[t].op = "put" /\ thread[t].res = "none"
      /\ thread[t].out \in Outputs /\ thread[t].out \in offered[thread[t].act]
  BY <1>2, Waiting DEF CallOk, Putting
<1>4. CASE Answer(t, "failed")
  BY <1>1, <1>3, <1>4, FailsMap
<1>5. CASE \E pc : Goto(t, pc)
  BY <1>1, <1>3, <1>5, GoesOn
<1>6. CASE Answer(t, "ok") /\ thread[t].pc \in {"put entry", "put remote entry"}
  <2>1. thread[t].out = Empty \/ Kept(thread[t].out)
    BY <1>6, Waiting DEF WaitOk
  <2>2. thread[t].out \in HeldNow \cup {Empty}
    BY <1>3, <2>1 DEF HeldNow, Kept
  <2> QED
    BY <1>1, <1>3, <1>6, <2>2, StoredMap
<1> QED
  BY <1>4, <1>5, <1>6 DEF Puts, OutputPut, EntryPut, RemoteEntryPut, At

\* Calls that are given up, on whose account no file goes.
LEMMA GivenUp ==
  ASSUME IInv, AbandonStep
  PROVE [Map!Next]_Map!vars
<1>1. /\ offered' = offered /\ thread' \in [Threads -> Calls]
      /\ \A u \in Threads : thread'[u] = thread[u] \/ thread'[u] = NoCall
  BY DEF AbandonStep
<1>2. HeldNow' = HeldNow
  <2>1. ASSUME NEW o \in Outputs \ {Empty}
        PROVE Kept(o)' <=> Kept(o)
    BY <2>1, OutputIs, LayersAre DEF AbandonStep, Kept, Intact, SizeOk
  <2> QED
    BY <2>1 DEF HeldNow, Kept
<1> DEFINE gone == {u \in Threads : thread'[u] = NoCall}
           a == NoCall.act
<1>3. NoCall \in Calls /\ a \in Actions /\ Seen(NoCall) = Map!Call("none", a)
  BY NoCallIs DEF Seen, Map!Call, Calls
<1>4. CallsSeen' = [t \in Threads |-> IF t \in gone THEN Map!Call("none", a) ELSE CallsSeen[t]]
  <2>1. CallsSeen' = [t \in Threads |-> Seen(thread'[t])]
    BY DEF CallsSeen, Seen
  <2>2. \A t \in Threads : Seen(thread'[t]) = IF t \in gone THEN Map!Call("none", a) ELSE CallsSeen[t]
    BY <1>1, <1>3 DEF CallsSeen
  <2> QED
    BY <2>1, <2>2
<1> HIDE DEF gone, a
<1>5. \E b \in Actions :
        CallsSeen' = [t \in Threads |-> IF t \in gone THEN Map!Call("none", b) ELSE CallsSeen[t]]
  BY <1>3, <1>4
<1>6. gone \in SUBSET Threads
  BY DEF gone
<1>7. \E g \in SUBSET Threads :
        \E b \in Actions :
          CallsSeen' = [t \in Threads |-> IF t \in g THEN Map!Call("none", b) ELSE CallsSeen[t]]
  BY <1>5, <1>6
<1>8. \E g \in SUBSET Threads : Map!Abandoned(g)
  BY <1>1, <1>2, <1>7 DEF Map!Abandoned, CallsSeen, Seen, HeldNow
<1> QED
  BY <1>8 DEF Map!Next

\* The storage starts as the map does.
LEMMA MapInit ==
  ASSUME Init
  PROVE Map!Init
<1>1. /\ offered \in [Actions -> SUBSET Outputs] /\ raced = {}
      /\ \A t \in Threads : thread[t] = NoCall
      /\ \A n \in Names : file[Local][n] = Absent
  BY InitIs, LayersAre
<1>2. HeldNow = {}
  <2>1. ASSUME NEW o \in Outputs \ {Empty} PROVE ~Intact(file[Local][Output(o)], o)
    BY <1>1, OutputIs, AbsentIs DEF Intact, SizeOk
  <2> QED
    BY <1>1, <2>1 DEF HeldNow
<1>3. NoCall.act \in Actions /\ Seen(NoCall) = Map!Call("none", NoCall.act)
  BY NoCallIs DEF Seen, Map!Call, Calls
<1>4. CallsSeen = [t \in Threads |-> Map!Call("none", NoCall.act)]
  BY <1>1, <1>3 DEF CallsSeen
<1>5. \E a \in Actions : CallsSeen = [t \in Threads |-> Map!Call("none", a)]
  BY <1>3, <1>4
<1> QED
  BY <1>1, <1>2, <1>5 DEF Map!Init, HeldNow, CallsSeen, Seen

\* Every step is one of the map, or none.
LEMMA MapNext ==
  ASSUME IInv, [Next]_vars
  PROVE [Map!Next]_Map!vars
<1>1. CASE \E t \in Threads, l \in Layers : Writes(t, l)
  BY <1>1, WritesMap, MapStepIs
<1>2. CASE \E t \in Threads : Gets(t) \/ Puts(t)
  BY <1>2, GetsMap, PutsMap
<1>3. CASE \E t \in Threads, a \in Actions : Get(t, a) \/ \E o \in Outputs : Put(t, a, o)
  BY <1>3, GetMap, PutMap
<1>4. CASE Crash \/ \E t \in Threads : Quit(t)
  BY <1>4, CrashKeeps, QuitKeeps, GivenUp
<1>5. CASE UNCHANGED vars
  <2>1. UNCHANGED <<offered, HeldNow, CallsSeen>>
    BY <1>5 DEF vars, HeldNow, CallsSeen, Seen, Intact, SizeOk
  <2> QED
    BY <2>1, MapStepIs DEF MapStep
<1> QED
  BY <1>1, <1>2, <1>3, <1>4, <1>5 DEF Next

\* The storage is the map its clients are promised: a hit names an output some put offered
\* for that very action, and the outputs of hits and of puts that succeed have local files,
\* which stay.
THEOREM MapImplemented == Spec => MapSpec
<1>1. Init => Map!Init
  BY MapInit
<1>2. IInv /\ [Next]_vars => [Map!Next]_Map!vars
  BY MapNext
<1> QED
  BY <1>1, <1>2, StorageInductive, PTL DEF Spec, MapSpec, Map!Spec
=============================================================================
