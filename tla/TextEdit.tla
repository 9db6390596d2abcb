------------------------------- MODULE TextEdit -------------------------------
(***************************************************************************)
(* The text editor of the bootstrap addon (addons/bootstrap/textedit): an  *)
(* editor is fed a file line by line and gives the lines to write; the     *)
(* file is replaced when they differ, by a temporary file that is renamed  *)
(* over it ("temp"), as root ("root"), or in place ("unsafe").             *)
(*                                                                         *)
(* A line is its text without the white space around it, and that space:   *)
(* editors compare the one and keep or replace the other.  No file is an   *)
(* empty file, though not in place: without a file EditFileUnsafe panics   *)
(* before it has changed anything, which is left out.                      *)
(***************************************************************************)
EXTENDS Integers, Sequences

CONSTANT Lines \* what a line of a file can be

VARIABLES
  file,    \* the lines of the file
  flushed, \* they would outlast a power failure
  editor,  \* the editor at work, or the last one
  src,     \* the lines of the file when it was opened
  read,    \* how many the editor has been fed
  state,   \* the editor's: Done, or how far into what it looks for
  out,     \* what it has given
  synced,  \* the temporary file is on disk
  phase    \* of the edit

edit == <<file, flushed, editor, src, read, state, out, synced, phase>>

Done == -1
Trim(line) == line[1]

Appender(line, old) ==
  [kind |-> "append", line |-> line, old |-> old, how |-> "temp"]
Splicer(start, content, end) ==
  [kind |-> "splice", start |-> start, content |-> content, end |-> end, how |-> "temp"]
Replacer(old, new, previous, must) ==
  [kind |-> "replace", old |-> old, new |-> new, previous |-> previous, must |-> must,
   how |-> "temp"]

\* What an editor is made of.
IsEditor(e) ==
  \/ e.kind = "append" /\ e.line \in Lines
  \/ e.kind = "splice" /\ {e.start, e.end} \subseteq Lines /\ e.content \in Seq(Lines)
  \/ e.kind = "replace" /\ e.new \in Lines /\ e.previous \in Seq(Lines)

-----------------------------------------------------------------------------
(***************************************************************************)
(* The editors: what each makes of the next line, and its state then.      *)
(***************************************************************************)

Keep(line, s) == [out |-> <<line>>, state |-> s]

\* Mutant of NextAppend: a line that is there already is not looked for.
NextAppendBlind(e, line) ==
  IF Trim(line) \in e.old THEN Keep(e.line, Done) ELSE Keep(line, 0)

NextAppend(e, line) ==
  CASE Trim(line) = Trim(e.line) -> Keep(line, Done)
    [] Trim(line) # Trim(e.line) /\ Trim(line) \in e.old -> Keep(e.line, Done)
    [] OTHER -> Keep(line, 0)

Spliced(e) == <<e.start>> \o e.content \o <<e.end>>

\* From the start marker on nothing is given until the end marker is found.
NextSplice(e, s, line) ==
  CASE s = 1 /\ Trim(line) = Trim(e.end) -> [out |-> Spliced(e), state |-> Done]
    [] s = 1 /\ Trim(line) # Trim(e.end) -> [out |-> <<>>, state |-> 1]
    [] s = 0 /\ Trim(line) = Trim(e.start) -> [out |-> <<>>, state |-> 1]
    [] OTHER -> Keep(line, 0)

\* Mutant of Seen: a match of all previous lines is not forgotten.
SeenStill(e, s, line) ==
  IF s < Len(e.previous) /\ Trim(line) = Trim(e.previous[s + 1]) THEN s + 1
  ELSE IF s = Len(e.previous) THEN s ELSE 0

\* How many of the previous lines have been seen with this one.
Seen(e, s, line) ==
  LET before == IF s = Len(e.previous) THEN 0 ELSE s IN
  IF before < Len(e.previous) /\ Trim(line) = Trim(e.previous[before + 1])
  THEN before + 1 ELSE 0

NextReplace(e, s, line) ==
  IF s = Len(e.previous) /\ Trim(line) \in {Trim(e.old), Trim(e.new)}
  THEN Keep(IF Trim(line) = Trim(e.old) THEN e.new ELSE line, Done)
  ELSE Keep(line, Seen(e, s, line))

NextOf(e, s, line) ==
  CASE s = Done -> Keep(line, Done)
    [] s # Done /\ e.kind = "append"  -> NextAppend(e, line)
    [] s # Done /\ e.kind = "splice"  -> NextSplice(e, s, line)
    [] s # Done /\ e.kind = "replace" -> NextReplace(e, s, line)

\* EOF: what is still to be written, unless the editor has to fail.
AtEOF(e, s) ==
  CASE s # Done /\ e.kind = "append" -> <<e.line>>
    [] s # Done /\ e.kind = "splice" -> Spliced(e)
    [] OTHER -> <<>>
FailsAtEOF(e, s) == e.kind = "replace" /\ s # Done /\ e.must

-----------------------------------------------------------------------------
(***************************************************************************)
(* Edit and the three ways to edit a file.                                 *)
(***************************************************************************)

Open(e) ==
  /\ phase = "idle" /\ phase' = "reading"
  /\ editor' = e /\ src' = file
  /\ read' = 0 /\ state' = 0 /\ out' = <<>> /\ synced' = FALSE
  /\ UNCHANGED <<file, flushed>>

ReadLine ==
  /\ phase = "reading" /\ read < Len(src)
  /\ LET next == NextOf(editor, state, src[read + 1]) IN
       /\ out' = out \o next.out
       /\ state' = next.state
  /\ read' = read + 1
  /\ UNCHANGED <<file, flushed, editor, src, synced, phase>>

ReadEOF ==
  /\ phase = "reading" /\ read = Len(src)
  /\ ~FailsAtEOF(editor, state)
  /\ out' = out \o AtEOF(editor, state)
  /\ phase' = IF editor.how = "temp" THEN "syncing" ELSE "comparing"
  /\ UNCHANGED <<file, flushed, editor, src, read, state, synced>>

\* Mutant of SyncTemp: the new file is written and not flushed.
SyncNothing ==
  /\ phase = "syncing" /\ phase' = "comparing"
  /\ UNCHANGED <<file, flushed, editor, src, read, state, out, synced>>

\* The temporary file is flushed before it can become the file.
SyncTemp ==
  /\ phase = "syncing" /\ phase' = "comparing"
  /\ synced' = TRUE
  /\ UNCHANGED <<file, flushed, editor, src, read, state, out>>

Compare ==
  /\ phase = "comparing"
  /\ phase' = CASE out = src -> "kept"
                [] out # src /\ editor.how = "unsafe" -> "truncating"
                [] OTHER -> "renaming"
  /\ UNCHANGED <<file, flushed, editor, src, read, state, out, synced>>

\* A temporary file made as root is not flushed.
Rename ==
  /\ phase = "renaming" /\ phase' = "changed"
  /\ file' = out /\ flushed' = synced
  /\ UNCHANGED <<editor, src, read, state, out, synced>>

Truncate ==
  /\ phase = "truncating" /\ phase' = "writing"
  /\ file' = <<>> /\ flushed' = FALSE
  /\ UNCHANGED <<editor, src, read, state, out, synced>>

Write ==
  /\ phase = "writing" /\ phase' = "flushing"
  /\ file' = out
  /\ UNCHANGED <<flushed, editor, src, read, state, out, synced>>

Flush ==
  /\ phase = "flushing" /\ phase' = "changed"
  /\ flushed' = TRUE
  /\ UNCHANGED <<file, editor, src, read, state, out, synced>>

EditOn ==
  ReadLine \/ ReadEOF \/ SyncTemp \/ Compare \/ Rename \/ Truncate \/ Write \/ Flush

-----------------------------------------------------------------------------
(***************************************************************************)
(* What the editors promise, of the text as a whole.                       *)
(***************************************************************************)

First(places) == CHOOSE i \in places : \A j \in places : i <= j
Places(text, wanted) == {i \in DOMAIN text : Trim(text[i]) \in wanted}

AppendTold(e, text) ==
  LET at == Places(text, e.old \cup {Trim(e.line)}) IN
  CASE at = {} -> Append(text, e.line)
    [] at # {} /\ Trim(text[First(at)]) = Trim(e.line) -> text
    [] OTHER -> [text EXCEPT ![First(at)] = e.line]

SpliceTold(e, text) ==
  LET starts == Places(text, {Trim(e.start)})
      ends   == {j \in Places(text, {Trim(e.end)}) : j > First(starts)} IN
  CASE starts = {} -> text \o Spliced(e)
    [] starts # {} /\ ends = {} -> SubSeq(text, 1, First(starts) - 1) \o Spliced(e)
    [] OTHER -> SubSeq(text, 1, First(starts) - 1) \o Spliced(e)
                  \o SubSeq(text, First(ends) + 1, Len(text))

\* The lines up to the n-th are the first k of the previous lines.
Matches(e, text, n, k) ==
  k <= n /\ \A j \in 1 .. k : Trim(text[n - k + j]) = Trim(e.previous[j])

\* The previous lines are right above line i.
Follows(e, text, i) == Matches(e, text, i - 1, Len(e.previous))

ReplaceTold(e, text) ==
  LET at == {i \in Places(text, {Trim(e.old), Trim(e.new)}) : Follows(e, text, i)} IN
  IF at = {} \/ Trim(text[First(at)]) # Trim(e.old) THEN text
  ELSE [text EXCEPT ![First(at)] = e.new]

Told(e, text) ==
  CASE e.kind = "append"  -> AppendTold(e, text)
    [] e.kind = "splice"  -> SpliceTold(e, text)
    [] e.kind = "replace" -> ReplaceTold(e, text)

\* Of several previous lines ReplaceLine forgets what it has seen at the first line that
\* does not match, without looking whether a match begins there (replace-line.go:82-90):
\* such a text misleads it.
Misleads(e, text) ==
  /\ e.kind = "replace"
  /\ \E i \in DOMAIN text, k \in 1 .. Len(e.previous) - 1 :
       Trim(text[i]) = Trim(e.previous[1]) /\ Matches(e, text, i - 1, k)

\* What the editor makes of the text is what it was told to.
AsTold(e, text, made) == made = Told(e, text) \/ Misleads(e, text)
=============================================================================
