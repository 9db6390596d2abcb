---------------------------- MODULE GoCacheStore ----------------------------
(***************************************************************************)
(* The storage of the Go build cache: the gets and puts of the front end   *)
(* (addons/gocache/storage-fronend.go) over the layered backend            *)
(* (layered-backend.go), both of whose layers are directories in the       *)
(* format of disk-storage-backend.go: the local one, and a remote one that *)
(* is reached over sftp or http, the latter with the server of             *)
(* http/server/main.go, or is kept as objects in gcs or s3.  The steps are *)
(* calls of the file system, or of what stands for one.                    *)
(*                                                                         *)
(* The threads may belong to several processes, as go commands that run    *)
(* at once each start a cache of their own over the same directories.      *)
(*                                                                         *)
(* A file is written under a temporary name that depends on the file's     *)
(* name only, and renamed.  A descriptor stays with the file it opened:    *)
(* "holds" says under which name that file is now.                         *)
(***************************************************************************)
EXTENDS Integers, FiniteSets

CONSTANTS
  Actions, Outputs,
  Empty,      \* the output that has no bytes, which may be among them
  Threads,    \* bounds the calls in flight
  Setups,     \* how the processes may have been started, and what befalls them
  NoOutput    \* no output; in a file, bytes nobody wrote

Local  == "local"
Remote == "remote"
Layers == {Local, Remote}

\* "s3 moves" is a bucket of s3 that has RenameObject.
Remotes == {"sftp", "http", "gcs", "s3", "s3 moves"}

\* The backend; the remote layer; the layers where an operation may fail; the threads
\* that call; and the outputs they put.
ASSUME SetupsAssumption ==
  Setups \subseteq [mode    : {"disk", "read-through", "write-through"},
                    remote  : Remotes,
                    failing : SUBSET Layers,
                    callers : SUBSET Threads,
                    puts    : SUBSET Outputs]
ASSUME NoOutputAssumption == NoOutput \notin Outputs
ASSUME ActionsAssumption == Actions # {}

VARIABLES
  setup,    \* the setup, which does not change
  file,     \* each layer's files, by name
  tmp,      \* each layer's temporary files, by the name of the file they are for
  writer,   \* each thread's write under way to each layer
  thread,   \* each call of the front end
  offered,  \* (history) the outputs puts have offered for each action
  raced,    \* (history) names two writers have held one temporary file of
  lost      \* (history) outputs the remote removed for a rename that failed

vars == <<setup, file, tmp, writer, thread, offered, raced, lost>>

-----------------------------------------------------------------------------
(***************************************************************************)
(* Files.  An action entry is written in one piece, an output in two.      *)
(***************************************************************************)

Entry(a)  == [kind |-> "a", id |-> a]
Output(o) == [kind |-> "d", id |-> o]
Names     == {Entry(a) : a \in Actions} \cup {Output(o) : o \in Outputs \ {Empty}}
Pieces(n) == IF n.kind = "a" THEN 1 ELSE 2

\* A file's size in pieces, the output each piece is of or names, and whether it
\* was flushed since; which matters for local files only.
Blank  == [i \in 1 .. 2 |-> NoOutput]
Absent == [size |-> -1, data |-> Blank, synced |-> TRUE]
Fresh(l) == [size |-> 0, data |-> Blank, synced |-> l = Remote]

\* The size is right, which is all that is looked at.
SizeOk(f, n) == f.size = Pieces(n)
\* Every piece is what was to be written.
Intact(f, o) == SizeOk(f, Output(o)) /\ \A i \in 1 .. 2 : f.data[i] = o

NoWriter == [pc |-> "none", name |-> CHOOSE n \in Names : TRUE, data |-> Blank,
             at |-> 1, holds |-> "none"]
NoCall   == [op |-> "none", act |-> CHOOSE a \in Actions : TRUE, out |-> NoOutput,
             pc |-> "idle", res |-> "none"]

Mode    == setup.mode
Failing == setup.failing
\* Whether a layer keeps objects, which are there as a whole or not at all; in s3 an
\* output is uploaded in two parts.
Objects(l) == l = Remote /\ setup.remote \in {"gcs", "s3", "s3 moves"}
Parts(l)   == l = Remote /\ setup.remote \in {"s3", "s3 moves"}
Written == IF Mode = "write-through" THEN Layers ELSE {Local}

\* What was put earlier is in the remote layer: "old" has the output of each action.
Stored(o) == [size |-> 2, data |-> [i \in 1 .. 2 |-> o], synced |-> TRUE]
Named(o)  == [size |-> 1, data |-> [Blank EXCEPT ![1] = o], synced |-> TRUE]
Earlier(old) ==
  [n \in Names |->
     CASE n.kind = "a" /\ old[n.id] # NoOutput -> Named(old[n.id])
       [] n.kind = "d" /\ \E a \in Actions : old[a] = n.id -> Stored(n.id)
       [] OTHER -> Absent]

Init ==
  /\ setup \in Setups
  /\ \E old \in [Actions -> {NoOutput} \cup IF Mode = "disk" THEN {} ELSE setup.puts] :
       /\ file = [l \in Layers |-> IF l = Local THEN [n \in Names |-> Absent]
                                                ELSE Earlier(old)]
       /\ offered = [a \in Actions |-> {old[a]} \ {NoOutput}]
  /\ tmp = [l \in Layers |-> [n \in Names |-> Absent]]
  /\ writer = [t \in Threads |-> [l \in Layers |-> NoWriter]]
  /\ thread = [t \in Threads |-> NoCall]
  /\ raced = {} /\ lost = {}

-----------------------------------------------------------------------------
(***************************************************************************)
(* WriteOutput and WriteActionEntry, step by step.                         *)
(***************************************************************************)

W(t, l) == writer[t][l]
WAt(t, l, pc) == W(t, l).pc = pc
WSet(t, l, w) == writer' = [writer EXCEPT ![t][l] = w]
WGoto(t, l, pc) == WSet(t, l, [W(t, l) EXCEPT !.pc = pc])
OnlyWriter == UNCHANGED <<setup, file, tmp, thread, offered, raced, lost>>
OnlyFiles == UNCHANGED <<setup, thread, offered, raced, lost>>

\* A writer that is given data for a name.
Start(n, data) == [NoWriter EXCEPT !.name = n, !.data = data,
                     !.pc = IF n.kind = "a" THEN "open" ELSE "stat"]

\* An output of the right size is left alone, unless it is newer than the entry: as
\* times come from different clocks, either may be found.
Stat(t, l) ==
  /\ WAt(t, l, "stat")
  /\ \/ WGoto(t, l, "open")
     \/ SizeOk(file[l][W(t, l).name], W(t, l).name) /\ WGoto(t, l, "ok")
  /\ OnlyWriter

\* The other writers that are past opening the temporary file.
Rivals(t, l) ==
  {u \in Threads \ {t} : /\ W(u, l).name = W(t, l).name
                         /\ W(u, l).pc \in {"write", "unlink", "rename", "copy", "move",
                                           "delete", "remove"}}

\* What becomes of the temporary file when a writer gives up: it stays.  Without
\* rivals, the next writer replaces it before it is read, so that it may as well be absent.
Left(t, l) ==
  IF Rivals(t, l) = {} THEN [tmp[l] EXCEPT ![W(t, l).name] = Absent] ELSE tmp[l]

\* The temporary file is created, or truncated.  An object is not there yet.
Open(t, l) ==
  /\ WAt(t, l, "open")
  /\ tmp' = IF Objects(l) THEN tmp ELSE [tmp EXCEPT ![l][W(t, l).name] = Fresh(l)]
  /\ WSet(t, l, [W(t, l) EXCEPT !.pc = "write", !.holds = IF Objects(l) THEN "none" ELSE "tmp"])
  /\ raced' = IF Rivals(t, l) = {} THEN raced ELSE raced \cup {W(t, l).name}
  /\ UNCHANGED <<setup, file, thread, offered, lost>>

\* The file the descriptor is of becomes f(file), if it still has a name.
OnHeld(t, l, f(_)) ==
  LET w == W(t, l) IN
  /\ tmp' = IF w.holds = "tmp" THEN [tmp EXCEPT ![l][w.name] = f(@)] ELSE tmp
  /\ file' = IF w.holds = "file" THEN [file EXCEPT ![l][w.name] = f(@)] ELSE file

\* The next piece is copied, at the descriptor's own offset.
Write(t, l) ==
  LET w == W(t, l)
      Piece(f) == [f EXCEPT !.size = IF @ < w.at THEN w.at ELSE @,
                            !.data[w.at] = w.data[w.at], !.synced = (l = Remote)] IN
  /\ WAt(t, l, "write") /\ w.at <= Pieces(w.name)
  /\ OnHeld(t, l, Piece)
  /\ WSet(t, l, [w EXCEPT !.at = @ + 1])
  /\ OnlyFiles

\* The first n pieces of what is written, which is what an object has that is completed.
Object(t, l, n) ==
  [size |-> n, synced |-> TRUE,
   data |-> [i \in 1 .. 2 |-> IF i <= n THEN W(t, l).data[i] ELSE NoOutput]]

\* How the layer renames.
Renaming(l) ==
  CASE l = Local \/ setup.remote = "http" -> "rename"
    [] l = Remote /\ setup.remote = "sftp" -> "unlink"
    [] l = Remote /\ setup.remote = "s3 moves" -> "move"
    [] OTHER -> "copy"

\* Mutant of Sync: the file is not flushed.
SyncNever(t, l) ==
  /\ WAt(t, l, "write") /\ W(t, l).at > Pieces(W(t, l).name)
  /\ WGoto(t, l, Renaming(l))
  /\ OnlyWriter

\* Everything was copied: flush, and close.  An object replaces the one there was.
Sync(t, l) ==
  LET Flushed(f) == [f EXCEPT !.synced = TRUE]
      n == W(t, l).name IN
  /\ WAt(t, l, "write") /\ W(t, l).at > Pieces(n)
  /\ IF Objects(l) THEN tmp' = [tmp EXCEPT ![l][n] = Object(t, l, Pieces(n))] /\ UNCHANGED file
                   ELSE OnHeld(t, l, Flushed)
  /\ WGoto(t, l, Renaming(l))
  /\ OnlyFiles

\* The sftp backend removes the target first, and goes on whether it could or not.
Unlink(t, l) ==
  LET n == W(t, l).name IN
  /\ WAt(t, l, "unlink")
  /\ \/ /\ file' = [file EXCEPT ![l][n] = Absent]
        /\ lost' = IF file[l][n] = Absent THEN lost ELSE lost \cup {n}
        /\ writer' = [u \in Threads |-> [writer[u] EXCEPT ![l] =
                        IF u = t THEN [@ EXCEPT !.pc = "rename"]
                        ELSE IF @.name = n /\ @.holds = "file"
                        THEN [@ EXCEPT !.holds = "gone"] ELSE @]]
     \/ l \in Failing /\ WGoto(t, l, "rename") /\ UNCHANGED <<setup, file, lost>>
  /\ UNCHANGED <<setup, tmp, thread, offered, raced>>

\* Whatever is under the temporary name is renamed.
Rename(t, l) ==
  LET n == W(t, l).name
      Now(h) == IF h = "tmp" THEN "file" ELSE "gone" IN
  /\ WAt(t, l, "rename") /\ tmp[l][n] # Absent
  /\ file' = [file EXCEPT ![l][n] = tmp[l][n]]
  /\ tmp' = [tmp EXCEPT ![l][n] = Absent]
  /\ lost' = IF l = Remote THEN lost \ {n} ELSE lost
  /\ writer' = [u \in Threads |-> [writer[u] EXCEPT ![l] =
                  IF u = t THEN [NoWriter EXCEPT !.pc = "ok"]
                  ELSE IF @.name = n /\ @.holds # "none"
                  THEN [@ EXCEPT !.holds = Now(W(u, l).holds)] ELSE @]]
  /\ UNCHANGED <<setup, thread, offered, raced>>

\* An object is copied, and then deleted under its temporary name.
Copy(t, l) ==
  LET n == W(t, l).name IN
  /\ WAt(t, l, "copy") /\ tmp[l][n] # Absent
  /\ file' = [file EXCEPT ![l][n] = tmp[l][n]]
  /\ WGoto(t, l, "delete")
  /\ UNCHANGED <<setup, tmp, thread, offered, raced, lost>>

Delete(t, l) ==
  LET n == W(t, l).name IN
  /\ WAt(t, l, "delete")
  /\ tmp' = [tmp EXCEPT ![l][n] = Absent]
  /\ WSet(t, l, [NoWriter EXCEPT !.pc = "ok"])
  /\ UNCHANGED <<setup, file, thread, offered, raced, lost>>

\* Where s3 can move an object, it is moved and then copied, which fails.  It is moved
\* to its name without the base path: to where it belongs if there is none.
Move(t, l) ==
  LET n == W(t, l).name IN
  /\ WAt(t, l, "move") /\ tmp[l][n] # Absent
  /\ file' \in {file, [file EXCEPT ![l][n] = tmp[l][n]]}
  /\ tmp' = [tmp EXCEPT ![l][n] = Absent]
  /\ WSet(t, l, IF n.kind = "a" THEN [W(t, l) EXCEPT !.pc = "remove"]
                                ELSE [NoWriter EXCEPT !.pc = "failed"])
  /\ UNCHANGED <<setup, thread, offered, raced, lost>>

\* It is not there any more, or the operation fails.  Then an entry's temporary
\* file is removed; an output's is left, as it is looked for in another directory.
RenameFails(t, l) ==
  /\ W(t, l).pc \in {"rename", "copy", "delete", "move"}
  /\ tmp[l][W(t, l).name] = Absent \/ l \in Failing
  /\ WSet(t, l, IF W(t, l).name.kind = "a"
                THEN [W(t, l) EXCEPT !.pc = "remove", !.holds = "none"]
                ELSE [NoWriter EXCEPT !.pc = "failed"])
  /\ tmp' = IF W(t, l).name.kind = "a" THEN tmp ELSE [tmp EXCEPT ![l] = Left(t, l)]
  /\ UNCHANGED <<setup, file, thread, offered, raced, lost>>

Remove(t, l) ==
  LET n == W(t, l).name IN
  /\ WAt(t, l, "remove")
  /\ \/ /\ tmp' = [tmp EXCEPT ![l][n] = Absent]
        /\ writer' = [u \in Threads |-> [writer[u] EXCEPT ![l] =
                        IF u = t THEN [NoWriter EXCEPT !.pc = "failed"]
                        ELSE IF @.name = n /\ @.holds = "tmp"
                        THEN [@ EXCEPT !.holds = "gone"] ELSE @]]
     \/ /\ l \in Failing
        /\ WSet(t, l, [NoWriter EXCEPT !.pc = "failed"])
        /\ tmp' = [tmp EXCEPT ![l] = Left(t, l)]
  /\ UNCHANGED <<setup, file, thread, offered, raced, lost>>

\* A directory, an open, a copy or a flush fails.  When it is the second part that
\* cannot be uploaded, the close completes the object with the first.
WriteFails(t, l) ==
  LET Cut == {[tmp EXCEPT ![l][W(t, l).name] = Object(t, l, 1)]} IN
  /\ l \in Failing /\ W(t, l).pc \in {"open", "write"}
  /\ WSet(t, l, [NoWriter EXCEPT !.pc = "failed"])
  /\ tmp' \in {[tmp EXCEPT ![l] = Left(t, l)]}
             \cup IF Parts(l) /\ W(t, l).at = 2 /\ W(t, l).name.kind = "d" THEN Cut ELSE {}
  /\ UNCHANGED <<setup, file, thread, offered, raced, lost>>

\* When it is the first, nobody reads the pipe that the next part is written to.
Hangs(t, l) ==
  /\ l \in Failing /\ Parts(l)
  /\ WAt(t, l, "write") /\ W(t, l).at = 1 /\ W(t, l).name.kind = "d"
  /\ WGoto(t, l, "hung") /\ OnlyWriter

Writes(t, l) ==
  \/ Stat(t, l) \/ Open(t, l) \/ Write(t, l) \/ Sync(t, l) \/ Unlink(t, l)
  \/ Rename(t, l) \/ RenameFails(t, l) \/ Remove(t, l) \/ WriteFails(t, l)
  \/ Copy(t, l) \/ Delete(t, l) \/ Move(t, l) \/ Hangs(t, l)

-----------------------------------------------------------------------------
(***************************************************************************)
(* Get and Put of the front end.                                           *)
(***************************************************************************)

At(t, pc) == thread[t].pc = pc
Goto(t, pc) == thread' = [thread EXCEPT ![t].pc = pc]
Begin(t, op, a, o, pc) ==
  thread' = [thread EXCEPT ![t] = [op |-> op, act |-> a, out |-> o, pc |-> pc,
                                   res |-> "none"]]
Answer(t, r) ==
  /\ thread' = [thread EXCEPT ![t].pc = "idle", ![t].res = r,
                              ![t].out = IF r \in {"hit", "ok"} THEN @ ELSE NoOutput]
  /\ writer' = [writer EXCEPT ![t] = [l \in Layers |-> NoWriter]]
Quiet == UNCHANGED <<setup, file, tmp, offered, raced, lost>>

\* The call goes on to write: data for a name, to each of the layers.
Launch(t, n, data, layers) ==
  writer' = [writer EXCEPT ![t] = [l \in Layers |->
               IF l \in layers THEN Start(n, data) ELSE @[l]]]
Ended(t, layers) == \A l \in layers : W(t, l).pc \in {"none", "ok", "failed"}
AllOk(t, layers) == \A l \in layers : WAt(t, l, "ok")
EntryOf(o)  == [Blank EXCEPT ![1] = o]
BytesOf(o)  == [i \in 1 .. 2 |-> o]

Get(t, a) ==
  /\ At(t, "idle") /\ t \in setup.callers
  /\ Begin(t, "get", a, NoOutput, "entry")
  /\ UNCHANGED writer /\ Quiet

\* A layer's entry, if it can be read.
HasEntry(l, a) == SizeOk(file[l][Entry(a)], Entry(a))
HasOutput(l, o) == o # Empty /\ SizeOk(file[l][Output(o)], Output(o))

\* ReadActionEntry, locally.
ReadEntry(t) ==
  LET a == thread[t].act IN
  /\ At(t, "entry")
  /\ \/ /\ HasEntry(Local, a)
        /\ thread' = [thread EXCEPT ![t].pc = "output",
                                    ![t].out = file[Local][Entry(a)].data[1]]
        /\ UNCHANGED writer
     \/ ~HasEntry(Local, a) /\ Mode = "disk" /\ Answer(t, "miss")
     \/ ~HasEntry(Local, a) /\ Mode # "disk" /\ Goto(t, "remote entry") /\ UNCHANGED writer
  /\ Quiet

\* And remotely: what is found is written to the local layer.
ReadRemoteEntry(t) ==
  LET a == thread[t].act
      o == file[Remote][Entry(a)].data[1] IN
  /\ At(t, "remote entry")
  /\ \/ /\ HasEntry(Remote, a)
        /\ thread' = [thread EXCEPT ![t].pc = "copy entry", ![t].out = o]
        /\ Launch(t, Entry(a), EntryOf(o), {Local})
     \/ ~HasEntry(Remote, a) /\ Answer(t, "miss")
     \/ Remote \in Failing /\ Answer(t, "miss")
  /\ Quiet

EntryCopied(t) ==
  /\ At(t, "copy entry") /\ Ended(t, {Local})
  /\ IF AllOk(t, {Local}) THEN Goto(t, "output") /\ UNCHANGED writer
                          ELSE Answer(t, "miss")
  /\ Quiet

\* CheckOutputFile, locally.
CheckOutput(t) ==
  LET o == thread[t].out IN
  /\ At(t, "output")
  /\ \/ HasOutput(Local, o) /\ Answer(t, "hit")
     \/ ~HasOutput(Local, o) /\ Mode = "disk" /\ Answer(t, "miss")
     \/ ~HasOutput(Local, o) /\ Mode # "disk" /\ Goto(t, "remote output") /\ UNCHANGED writer
  /\ Quiet

\* And remotely: what is found is copied to the local layer.  Its bytes are taken as
\* they are when it is opened.
CheckRemoteOutput(t) ==
  LET o == thread[t].out IN
  /\ At(t, "remote output")
  /\ \/ /\ HasOutput(Remote, o)
        /\ Goto(t, "copy output")
        /\ Launch(t, Output(o), file[Remote][Output(o)].data, {Local})
     \/ ~HasOutput(Remote, o) /\ Answer(t, "miss")
     \/ Remote \in Failing /\ Answer(t, "miss")
  /\ Quiet

OutputCopied(t) ==
  /\ At(t, "copy output") /\ Ended(t, {Local})
  /\ Answer(t, IF AllOk(t, {Local}) THEN "hit" ELSE "miss")
  /\ Quiet

\* Put has the output written to all layers at once.  One without bytes is not
\* written at all.
Put(t, a, o) ==
  /\ At(t, "idle") /\ t \in setup.callers /\ o \in setup.puts
  /\ IF o = Empty
     THEN /\ Begin(t, "put", a, o, "put entry")
          /\ Launch(t, Entry(a), EntryOf(o), {Local})
     ELSE /\ Begin(t, "put", a, o, "put output")
          /\ Launch(t, Output(o), BytesOf(o), Written)
  /\ offered' = [offered EXCEPT ![a] = @ \cup {o}]
  /\ UNCHANGED <<setup, file, tmp, raced, lost>>

\* Mutant of OutputPut: one copy of the output is enough.
OutputPutAny(t) ==
  /\ At(t, "put output") /\ Ended(t, Written)
  /\ IF \E l \in Written : WAt(t, l, "ok")
     THEN /\ Goto(t, "put entry")
          /\ Launch(t, Entry(thread[t].act), EntryOf(thread[t].out), {Local})
     ELSE Answer(t, "failed")
  /\ Quiet

\* The entry is written when all copies of the output are, to one layer after the
\* other, the second whether or not the first could be.
OutputPut(t) ==
  /\ At(t, "put output") /\ Ended(t, Written)
  /\ IF AllOk(t, Written)
     THEN /\ Goto(t, "put entry")
          /\ Launch(t, Entry(thread[t].act), EntryOf(thread[t].out), {Local})
     ELSE Answer(t, "failed")
  /\ Quiet

EntryPut(t) ==
  /\ At(t, "put entry") /\ Ended(t, {Local})
  /\ \/ /\ Mode = "write-through"
        /\ Goto(t, "put remote entry")
        /\ Launch(t, Entry(thread[t].act), EntryOf(thread[t].out), {Remote})
     \/ /\ Mode # "write-through"
        /\ Answer(t, IF AllOk(t, {Local}) THEN "ok" ELSE "failed")
  /\ Quiet

RemoteEntryPut(t) ==
  /\ At(t, "put remote entry") /\ Ended(t, {Remote})
  /\ Answer(t, IF AllOk(t, Written) THEN "ok" ELSE "failed")
  /\ Quiet

\* The calls of threads are given up, with what they hold open.
Abandon(ts) ==
  /\ thread' = [t \in Threads |-> IF t \in ts THEN NoCall ELSE thread[t]]
  /\ writer' = [t \in Threads |->
                  IF t \in ts THEN [l \in Layers |-> NoWriter] ELSE writer[t]]

\* The process of a thread ends: its client closed the connection.
Quit(t) ==
  /\ thread[t] # NoCall /\ Abandon({t})
  /\ tmp' = [l \in Layers |-> Left(t, l)]
  /\ UNCHANGED <<setup, file, offered, raced, lost>>

\* The machine stops: of local files not flushed, some are empty afterwards.
Crash ==
  /\ \E cut \in SUBSET {n \in Names : ~file[Local][n].synced} :
       file' = [file EXCEPT ![Local] = [n \in Names |->
                  IF n \in cut THEN [@[n] EXCEPT !.size = 0, !.data = Blank] ELSE @[n]]]
  /\ tmp' = [l \in Layers |-> [n \in Names |-> Absent]]
  /\ Abandon(Threads)
  /\ UNCHANGED <<setup, offered, raced, lost>>

Gets(t) ==
  \/ ReadEntry(t) \/ ReadRemoteEntry(t) \/ EntryCopied(t)
  \/ CheckOutput(t) \/ CheckRemoteOutput(t) \/ OutputCopied(t)

Puts(t) == OutputPut(t) \/ EntryPut(t) \/ RemoteEntryPut(t)

Next ==
  \/ \E t \in Threads, l \in Layers : Writes(t, l)
  \/ \E t \in Threads : Gets(t) \/ Puts(t) \/ Quit(t)
  \/ \E t \in Threads, a \in Actions : Get(t, a) \/ \E o \in Outputs : Put(t, a, o)
  \/ Crash

Spec == Init /\ [][Next]_vars
-----------------------------------------------------------------------------
(***************************************************************************)
(* Properties.                                                             *)
(***************************************************************************)

Bytes == [1 .. 2 -> Outputs \cup {NoOutput}]
Files == [size : -1 .. 2, data : Bytes, synced : BOOLEAN]
Writers ==
  [pc : {"none", "stat", "open", "write", "unlink", "rename", "copy", "move", "delete",
         "remove", "hung", "ok", "failed"},
   name : Names, data : Bytes, at : 1 .. 3, holds : {"none", "tmp", "file", "gone"}]
Calls ==
  [op : {"none", "get", "put"}, act : Actions, out : Outputs \cup {NoOutput},
   pc : {"idle", "entry", "remote entry", "copy entry", "output", "remote output",
         "copy output", "put output", "put entry", "put remote entry"},
   res : {"none", "hit", "miss", "ok", "failed"}]

\* The values the variables take; no file is longer than what is written to it.
TypeOK ==
  /\ setup \in Setups
  /\ file \in [Layers -> [Names -> Files]] /\ tmp \in [Layers -> [Names -> Files]]
  /\ \A l \in Layers, n \in Names :
       file[l][n].size <= Pieces(n) /\ tmp[l][n].size <= Pieces(n)
  /\ writer \in [Threads -> [Layers -> Writers]]
  /\ thread \in [Threads -> Calls]
  /\ offered \in [Actions -> SUBSET Outputs]
  /\ raced \subseteq Names /\ lost \subseteq Names

\* Whatever crashes, fails or is abandoned, every entry leads to its output: a file
\* of the right size in the entry's own layer or, for a local entry, in the remote
\* one.  Excepted are names that two writers raced for, outputs the sftp backend
\* removed for a rename that did not happen, and the output without bytes.
EntryResolves ==
  \A l \in Layers, a \in Actions :
    LET f == file[l][Entry(a)]
        o == f.data[1] IN
    f # Absent /\ Entry(a) \notin raced =>
      /\ HasEntry(l, a) /\ o \in offered[a]
      /\ \/ o = Empty \/ Output(o) \in raced \cup lost
         \/ HasOutput(l, o)
         \/ l = Local /\ Mode # "disk" /\ HasOutput(Remote, o)

\* It is the cache GoCacheMap specifies, but for outputs that two writers raced for.
Map ==
  INSTANCE GoCacheMap WITH
    held <- {o \in Outputs \ {Empty} : Output(o) \in raced \/ Intact(file[Local][Output(o)], o)},
    call <- [t \in Threads |->
               [op |-> thread[t].op, act |-> thread[t].act, res |-> thread[t].res,
                out |-> IF thread[t].res = "none" THEN NoOutput ELSE thread[t].out]]
MapSpec == Map!Spec

\* "this bucket doesn't support renames, fall through to the copy+delete strategy"
\* (s3/backend.go:122-124), which is to say that otherwise the object is where it
\* belongs: where nothing fails and nobody else writes the same, puts succeed.
PutsSucceed ==
  \A t \in Threads :
    thread[t].op = "put" /\ thread[t].res = "failed" => Failing # {} \/ raced # {}
=============================================================================
